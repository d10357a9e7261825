---------------------------- MODULE DbgGuiProofs ----------------------------
(***************************************************************************)
(* What DbgGui says of a frame, proved for every number of threads, lines, *)
(* actors and addresses.  The log's list and the list of actors change in  *)
(* steps of several threads; each has an invariant of its own, over its    *)
(* own variables, and a step of the other leaves it alone.                 *)
(***************************************************************************)
EXTENDS DbgGui, FiniteSetTheorems, TLAPS

-----------------------------------------------------------------------------
(* Gotos.  Whether an address waits is known between any two windows; that *)
(* it waits for a reason, between frames.                                  *)

GotoInv ==
  /\ goto = NoAddress => viewed = asked
  /\ goto # NoAddress => goto = asked
  /\ frame = "out" /\ goto # NoAddress => collapsed \/ "editor" \notin shown

LEMMA GotoStarts == Init => GotoInv
  BY DEF Init, GotoInv

LEMMA GotoStays ==
  ASSUME GotoInv, UNCHANGED <<goto, asked, viewed, collapsed, frame>>,
         "editor" \in shown' => "editor" \in shown
  PROVE  GotoInv'
  BY DEF GotoInv

LEMMA WindowsFollow ==
  /\ WindowAfter["menu"] = "log" /\ WindowAfter["log"] = "heap" /\ WindowAfter["heap"] = "browser"
  /\ WindowAfter["browser"] = "editor" /\ WindowAfter["editor"] = "out"
  BY DEF WindowAfter

LEMMA FrameKeepsGoto ==
  ASSUME GotoInv, Draw
  PROVE  GotoInv'
<1>1. CASE DrawDbgGui
  <2>1. frame = "out" /\ UNCHANGED <<shown, goto, asked, viewed>> /\ collapsed' = (collapsed /\ hideGui')
    BY <1>1 DEF DrawDbgGui, Drawing
  <2>2. frame' = IF hideGui' THEN "out" ELSE "menu"
    BY <1>1 DEF DrawDbgGui
  <2>3. frame' = "out" => hideGui'
    BY <2>2
  <2>4. frame' = "out" /\ collapsed => collapsed'
    BY ONLY <2>1, <2>3, Zenon
  <2> QED BY <2>1, <2>4 DEF GotoInv
<1>2. CASE DrawMenuBar
  BY <1>2, WindowsFollow DEF DrawMenuBar, Drawing, NextWindow, GotoInv
<1>3. ASSUME NEW w \in Windows, Skip(w) PROVE GotoInv'
  <2>1. /\ frame = w /\ frame' = WindowAfter[w] /\ UNCHANGED <<shown, goto, asked, viewed>>
        /\ collapsed' = (collapsed \/ (w = "editor" /\ w \in shown))
    BY <1>3 DEF Skip, Drawing, NextWindow
  <2>2. w # "editor" => frame' # "out"
    BY <2>1, WindowsFollow DEF Windows
  <2> QED BY <2>1, <2>2 DEF GotoInv
<1>4. CASE DrawLog
  <2>1. frame' # "out" /\ UNCHANGED <<goto, asked, viewed>>
    BY <1>4, WindowsFollow DEF DrawLog, Drawing, NextWindow
  <2> QED BY <2>1 DEF GotoInv
<1>5. CASE DrawHeapViewer
  <2>1. frame' # "out" /\ UNCHANGED viewed
    BY <1>5, WindowsFollow DEF DrawHeapViewer, Drawing, NextWindow
  <2>2. UNCHANGED <<goto, asked>> \/ \E a \in Addresses : goto' = a /\ asked' = a
    BY <1>5 DEF DrawHeapViewer, Ask
  <2> QED BY <2>1, <2>2, GuiAssumption DEF GotoInv
<1>6. CASE DrawActorBrowser
  <2>1. frame' # "out" /\ UNCHANGED viewed
    BY <1>6, WindowsFollow DEF DrawActorBrowser, Drawing, NextWindow
  <2>2. UNCHANGED <<goto, asked>> \/ \E a \in Addresses : goto' = a /\ asked' = a
    BY <1>6 DEF DrawActorBrowser, Ask
  <2> QED BY <2>1, <2>2, GuiAssumption DEF GotoInv
<1>7. CASE DrawMemoryEditor
  <2>1. goto' = NoAddress /\ UNCHANGED asked /\ viewed' = IF goto # NoAddress THEN goto ELSE viewed
    BY <1>7 DEF DrawMemoryEditor
  <2> QED BY <2>1 DEF GotoInv
<1> QED BY <1>1, <1>2, <1>3, <1>4, <1>5, <1>6, <1>7 DEF Draw

LEMMA NextKeepsGoto == GotoInv /\ [Next]_vars => GotoInv'
<1> SUFFICES ASSUME GotoInv, [Next]_vars PROVE GotoInv'
  OBVIOUS
<1>1. CASE UNCHANGED guiVars
  BY <1>1, GotoStays DEF guiVars
<1>2. CASE ShowReport
  BY <1>2, GotoStays DEF ShowReport
<1>3. CASE Draw
  BY <1>3, FrameKeepsGoto
<1>4. CASE CreateRootHeap \/ CreateFileDeviceMgr \/ UseFiles \/ GameFrameworkInitialize \/ Play
  BY <1>1, <1>4 DEF CreateRootHeap, CreateFileDeviceMgr, UseFiles, GameFrameworkInitialize, Play
<1>5. CASE InitActorPlacementInfo \/ LogReport \/ GiveUp
  BY <1>1, <1>5 DEF InitActorPlacementInfo, LogReport, GiveUp, Log
<1>6. ASSUME NEW t \in Loggers, LogOn(t) \/ Report(t) PROVE GotoInv'
  BY <1>1, <1>6 DEF LogOn, Report
<1>7. CASE UNCHANGED vars
  BY <1>1, <1>7 DEF vars
<1> QED BY <1>2, <1>3, <1>4, <1>5, <1>6, <1>7 DEF Next

(* Whatever addresses are asked for, from whichever windows and however    *)
(* often, and whatever is shown, closed or collapsed meanwhile: between    *)
(* two frames the memory editor is at the address asked for last, unless   *)
(* it was in no position to be drawn (memoryEditorGotoAddr).               *)
THEOREM GotoIsServed == Spec => []GotoServed
<1>1. GotoInv => GotoServed
  BY DEF GotoInv, GotoServed
<1> QED BY <1>1, GotoStarts, NextKeepsGoto, PTL DEF Spec

-----------------------------------------------------------------------------
(* The list of actors.                                                     *)

Alone(s)  == \A i, j \in 1..Len(s) : s[i] = s[j] => i = j
Lives(s)  == \A i \in 1..Len(s) : s[i] \in alive
Has(s, a) == \E i \in 1..Len(s) : s[i] = a

ActorOrNone == Actors \cup {"none"}

BrowserTypeOK ==
  /\ listed \in Seq(Actors)
  /\ acting \in [pc : {"out", "push", "clear"}, actor : ActorOrNone]
  /\ browse \in [pc : {"out", "take", "show"}, at : Nat, actor : ActorOrNone, bad : BOOLEAN]

(* Between its two callbacks a living actor need not be listed, and before *)
(* the list has its buffer none is.                                        *)
ListInv ==
  /\ Len(listed) <= ActorMax /\ Alone(listed)
  /\ hooked # "ready" => listed = <<>>
  /\ acting.pc # "clear" => Lives(listed)
  /\ acting.pc = "push" =>
       acting.actor \in Actors /\ acting.actor \in alive /\ ~Has(listed, acting.actor)

BrowseInv ==
  /\ browse.pc # "out" => browse.at # 0
  /\ browse.bad => unsettled
  /\ browse.pc # "out" /\ ~unsettled => acting.pc # "clear"
  /\ browse.pc = "show" /\ ~unsettled => browse.actor \in alive

BrowserInv == BrowserTypeOK /\ ListInv /\ BrowseInv

LEMMA BrowserStarts == BrowserInit => BrowserInv
<1> SUFFICES ASSUME BrowserInit PROVE BrowserInv
  OBVIOUS
<1>1. listed = <<>> /\ Len(listed) = 0 /\ acting = Still /\ browse = Resting /\ hooked = "no"
  BY DEF BrowserInit
<1>2. BrowserTypeOK
  BY <1>1 DEF BrowserTypeOK, Still, Resting, ActorOrNone
<1>3. ListInv
  BY <1>1, BrowserAssumption DEF ListInv, Alone, Lives, Still
<1>4. BrowseInv
  BY <1>1 DEF BrowseInv, Resting
<1> QED BY <1>2, <1>3, <1>4 DEF BrowserInv

From(t, s, a) == \A i \in 1..Len(t) : t[i] = a \/ \E j \in 1..Len(s) : t[i] = s[j]

LEMMA Pushed ==
  ASSUME NEW s \in Seq(Actors), NEW a \in Actors, NEW t, t = Append(s, a), Alone(s), ~Has(s, a)
  PROVE  t \in Seq(Actors) /\ Len(t) = Len(s) + 1 /\ Alone(t) /\ From(t, s, a)
<1>1. /\ t \in Seq(Actors) /\ Len(s) \in Nat /\ Len(t) = Len(s) + 1 /\ t[Len(s)+1] = a
      /\ \A i \in 1..Len(s) : t[i] = s[i]
  OBVIOUS
<1>2. \A i \in 1..Len(t) : i = Len(s) + 1 \/ i \in 1..Len(s)
  BY <1>1
<1>3. \A i \in 1..Len(s) : t[i] # a
  BY <1>1 DEF Has
<1>4. Alone(t)
  <2> SUFFICES ASSUME NEW i \in 1..Len(t), NEW j \in 1..Len(t), t[i] = t[j] PROVE i = j
    BY DEF Alone
  <2>1. CASE i \in 1..Len(s) /\ j \in 1..Len(s)
    BY <1>1, <2>1 DEF Alone
  <2>2. CASE i = Len(s) + 1 \/ j = Len(s) + 1
    BY <1>1, <1>2, <1>3, <2>2
  <2> QED BY <1>2, <2>1, <2>2
<1> QED BY <1>1, <1>2, <1>4 DEF From

LEMMA ConstructKeeps ==
  ASSUME BrowserInv, NEW a \in Actors, Construct(a)
  PROVE  BrowserInv'
<1> USE DEF BrowserInv
<1>1. /\ acting = Still /\ a \notin alive /\ alive' = alive \cup {a} /\ UNCHANGED <<hooked, listed, browse, unsettled>>
      /\ acting' = Still \/ (hooked # "no" /\ acting' = [pc |-> "push", actor |-> a])
  BY DEF Construct
<1>2. BrowserTypeOK'
  BY <1>1 DEF BrowserTypeOK, ActorOrNone, Still
<1>3. ListInv'
  <2>1. Lives(listed) /\ \A i \in 1..Len(listed) : listed[i] # a /\ listed[i] \in alive'
    BY <1>1 DEF ListInv, Lives, Still
  <2>2. Lives(listed)' /\ ~Has(listed, a) /\ a \in alive' /\ (Alone(listed)' <=> Alone(listed))
    BY <1>1, <2>1 DEF Lives, Has, Alone
  <2>3. CASE acting' = Still
    BY <1>1, <2>2, <2>3 DEF ListInv, Still
  <2>4. CASE acting' = [pc |-> "push", actor |-> a]
    BY <1>1, <2>2, <2>4 DEF ListInv, Has
  <2> QED BY <1>1, <2>3, <2>4
<1>4. BrowseInv'
  BY <1>1 DEF BrowseInv, Still
<1> QED BY <1>2, <1>3, <1>4

LEMMA PushKeeps ==
  ASSUME BrowserInv, PushActor
  PROVE  BrowserInv'
<1> USE DEF BrowserInv
<1>1. acting.pc = "push" /\ acting' = Still /\ UNCHANGED <<hooked, alive, browse, unsettled>>
  BY DEF PushActor
<1>2. listed \in Seq(Actors) /\ Len(listed) \in Nat
  BY DEF BrowserTypeOK
<1>3. BrowseInv'
  BY <1>1 DEF BrowseInv, Still
<1>4. CASE UNCHANGED listed
  <2>1. BrowserTypeOK'
    BY <1>1, <1>4 DEF BrowserTypeOK, Still, ActorOrNone
  <2>2. ListInv'
    BY <1>1, <1>4 DEF ListInv, Still, Lives, Alone
  <2> QED BY <1>3, <2>1, <2>2
<1>5. CASE Len(listed) < Capacity /\ listed' = Append(listed, acting.actor)
  <2>1. hooked = "ready" /\ Len(listed) < ActorMax
    BY <1>2, <1>5 DEF Capacity
  <2>2. acting.actor \in Actors /\ acting.actor \in alive /\ ~Has(listed, acting.actor) /\ Alone(listed) /\ Lives(listed)
    BY <1>1 DEF ListInv
  <2>3. /\ listed' \in Seq(Actors) /\ Len(listed') = Len(listed) + 1 /\ Alone(listed')
        /\ From(listed', listed, acting.actor)
    BY ONLY <1>2, <1>5, <2>2, Pushed
  <2>4. BrowserTypeOK'
    BY <1>1, <2>3 DEF BrowserTypeOK, Still, ActorOrNone
  <2>5. Lives(listed)'
    BY <1>1, <2>2, <2>3 DEF Lives, From
  <2>6. Len(listed') <= ActorMax
    BY <1>2, <2>1, <2>3, BrowserAssumption
  <2>7. Alone(listed)'
    BY <2>3 DEF Alone
  <2>8. ListInv'
    BY <1>1, <2>1, <2>5, <2>6, <2>7 DEF ListInv, Still
  <2> QED BY <1>3, <2>4, <2>8
<1> QED BY <1>4, <1>5 DEF PushActor

LEMMA DestroyKeeps ==
  ASSUME BrowserInv, NEW a \in Actors, Destroy(a)
  PROVE  BrowserInv'
<1> USE DEF BrowserInv
<1>1. /\ acting = Still /\ alive' = alive \ {a} /\ unsettled' /\ UNCHANGED <<hooked, listed, browse>>
      /\ (hooked = "no" /\ acting' = Still) \/ acting' = [pc |-> "clear", actor |-> a]
  BY DEF Destroy
<1>2. BrowserTypeOK'
  BY <1>1 DEF BrowserTypeOK, ActorOrNone, Still
<1>3. BrowseInv'
  BY <1>1 DEF BrowseInv
<1>4. Alone(listed)' <=> Alone(listed)
  BY <1>1 DEF Alone
<1>5. CASE hooked = "no" /\ acting' = Still
  <2>1. Len(listed) = 0
    BY <1>5 DEF ListInv
  <2>2. Lives(listed)'
    BY <1>1, <2>1 DEF Lives
  <2> QED BY <1>1, <1>2, <1>3, <1>4, <1>5, <2>2 DEF ListInv, Still
<1>6. CASE acting' = [pc |-> "clear", actor |-> a]
  BY <1>1, <1>2, <1>3, <1>4, <1>6 DEF ListInv
<1> QED BY <1>1, <1>5, <1>6

LEMMA ClearKeeps ==
  ASSUME BrowserInv, Clear
  PROVE  BrowserInv'
<1> USE DEF BrowserInv
<1>1. acting' = Still /\ listed' = <<>> /\ Len(listed') = 0 /\ UNCHANGED <<hooked, alive, browse, unsettled>>
  BY DEF Clear, ClearList
<1>2. BrowserTypeOK'
  BY <1>1 DEF BrowserTypeOK, ActorOrNone, Still
<1>3. ListInv'
  BY <1>1, BrowserAssumption DEF ListInv, Still, Alone, Lives
<1>4. BrowseInv'
  BY <1>1 DEF BrowseInv, Still
<1> QED BY <1>2, <1>3, <1>4

LEMMA HooksKeep ==
  ASSUME BrowserInv, InstallHooks \/ AllocBuffer
  PROVE  BrowserInv'
<1>1. UNCHANGED <<alive, listed, acting, browse, unsettled>> /\ hooked # "ready"
  BY DEF InstallHooks, AllocBuffer
<1>2. (Alone(listed)' <=> Alone(listed)) /\ (Lives(listed)' <=> Lives(listed)) /\ \A a : Has(listed, a)' <=> Has(listed, a)
  BY <1>1 DEF Alone, Lives, Has
<1>3. BrowserTypeOK' /\ BrowseInv'
  BY <1>1 DEF BrowserInv, BrowserTypeOK, BrowseInv
<1>4. ListInv'
  BY <1>1, <1>2 DEF BrowserInv, ListInv, Has
<1> QED BY <1>3, <1>4 DEF BrowserInv

(* The list and the actors stay, the walk goes on.                         *)
LEMMA BrowseKeeps ==
  ASSUME BrowserInv, BeginBrowse \/ BrowseStep
  PROVE  BrowserInv'
<1> USE DEF BrowserInv
<1>1. UNCHANGED <<hooked, alive, listed, acting>>
  BY DEF BeginBrowse, BrowseStep, TakeActor, ShowActor
<1>2. ListInv'
  BY <1>1 DEF ListInv, Alone, Lives, Has
<1>3. listed \in Seq(Actors) /\ browse \in [pc : {"out", "take", "show"}, at : Nat, actor : ActorOrNone, bad : BOOLEAN]
  BY DEF BrowserTypeOK
<1>4. CASE BeginBrowse
  <2>1. browse' = [Resting EXCEPT !.pc = "take", !.at = 1] /\ unsettled' = (acting.pc = "clear")
    BY <1>4 DEF BeginBrowse
  <2>2. /\ browse'.pc = "take" /\ browse'.at = 1 /\ browse'.bad = FALSE
        /\ browse' \in [pc : {"out", "take", "show"}, at : Nat, actor : ActorOrNone, bad : BOOLEAN]
    BY <2>1 DEF Resting, ActorOrNone
  <2>3. BrowserTypeOK'
    BY <1>1, <2>2 DEF BrowserTypeOK, ActorOrNone
  <2>4. ~unsettled' => acting'.pc # "clear"
    BY <1>1, <2>1, Zenon
  <2>5. BrowseInv'
    BY <2>2, <2>4 DEF BrowseInv
  <2> QED BY <1>2, <2>3, <2>5
<1>5. CASE TakeActor
  <2>1. CASE browse' = Resting
    BY <1>1, <1>2, <2>1 DEF BrowserTypeOK, ActorOrNone, BrowseInv, Resting
  <2>2. CASE browse.at <= Len(listed) /\ browse' = [browse EXCEPT !.pc = "show", !.actor = listed[browse.at]]
    <3>1. browse.at \in 1..Len(listed) /\ browse.pc = "take" /\ UNCHANGED unsettled
      BY <1>3, <1>5, <2>2 DEF TakeActor, BrowseInv
    <3>2. listed[browse.at] \in Actors
      BY <1>3, <3>1
    <3>3. /\ browse'.pc = "show" /\ browse'.at = browse.at /\ browse'.bad = browse.bad /\ browse'.actor = listed[browse.at]
          /\ browse' \in [pc : {"out", "take", "show"}, at : Nat, actor : ActorOrNone, bad : BOOLEAN]
      BY <1>3, <2>2, <3>2 DEF ActorOrNone
    <3>4. ~unsettled => listed[browse.at] \in alive
      BY <3>1 DEF BrowseInv, ListInv, Lives
    <3>5. BrowserTypeOK'
      BY <1>1, <3>3 DEF BrowserTypeOK, ActorOrNone
    <3>6. BrowseInv'
      BY <1>1, <3>1, <3>3, <3>4 DEF BrowseInv
    <3> QED BY <1>2, <3>5, <3>6
  <2> QED BY <1>5, <2>1, <2>2 DEF TakeActor
<1>6. CASE ShowActor
  <2>1. browse.pc = "show" /\ UNCHANGED unsettled
        /\ browse' = [browse EXCEPT !.pc = "take", !.at = @ + 1, !.bad = @ \/ browse.actor \notin alive]
    BY <1>6 DEF ShowActor
  <2>2. /\ browse'.pc = "take" /\ browse'.at = browse.at + 1 /\ browse.at \in Nat
        /\ browse'.bad = (browse.bad \/ browse.actor \notin alive)
        /\ browse' \in [pc : {"out", "take", "show"}, at : Nat, actor : ActorOrNone, bad : BOOLEAN]
    <3>1. (browse.bad \/ browse.actor \notin alive) \in BOOLEAN
      OBVIOUS
    <3>2. browse.at \in Nat /\ browse.at + 1 \in Nat
      BY <1>3
    <3> QED BY ONLY <1>3, <2>1, <3>1, <3>2
  <2>3. BrowserTypeOK'
    BY <1>1, <2>2 DEF BrowserTypeOK, ActorOrNone
  <2>4. browse'.bad => unsettled'
    <3>1. (browse.bad => unsettled) /\ (~unsettled => browse.actor \in alive)
      BY <2>1 DEF BrowseInv
    <3>2. unsettled' = unsettled /\ browse'.bad = (browse.bad \/ browse.actor \notin alive)
      BY <2>1, <2>2
    <3> QED BY ONLY <3>1, <3>2, Zenon
  <2>5. ~unsettled' => acting'.pc # "clear"
    BY <1>1, <2>1 DEF BrowseInv
  <2>6. browse'.at # 0 /\ browse'.pc = "take"
    BY ONLY <2>2
  <2>7. BrowseInv'
    BY ONLY <2>4, <2>5, <2>6 DEF BrowseInv
  <2> QED BY <1>2, <2>3, <2>7
<1> QED BY <1>4, <1>5, <1>6 DEF BrowseStep

LEMMA BrowserStays == ASSUME BrowserInv, UNCHANGED browserVars PROVE BrowserInv'
<1>1. UNCHANGED <<hooked, alive, listed, acting, browse, unsettled>>
  BY DEF browserVars
<1> QED BY <1>1 DEF BrowserInv, BrowserTypeOK, ListInv, BrowseInv, Alone, Lives, Has, ActorOrNone

LEMMA NextKeepsBrowser == BrowserInv /\ [Next]_vars => BrowserInv'
<1> SUFFICES ASSUME BrowserInv, [Next]_vars PROVE BrowserInv'
  OBVIOUS
<1>1. CASE UNCHANGED browserVars
  BY <1>1, BrowserStays
<1>2. CASE GameFrameworkInitialize
  BY <1>2, HooksKeep DEF GameFrameworkInitialize
<1>3. CASE Play
  BY <1>3, PushKeeps, ClearKeeps, ConstructKeeps, DestroyKeeps DEF Play
<1>4. CASE DrawActorBrowser
  BY <1>4, BrowseKeeps DEF DrawActorBrowser, BrowseStep
<1>5. CASE Draw
  <2>1. ASSUME NEW w \in Windows, Skip(w) PROVE BrowserInv'
    BY <1>1, <2>1 DEF Skip
  <2> QED BY <1>1, <1>4, <1>5, <2>1
        DEF Draw, DrawDbgGui, DrawMenuBar, DrawLog, DrawHeapViewer, DrawMemoryEditor
<1>6. CASE CreateRootHeap \/ CreateFileDeviceMgr \/ UseFiles \/ InitActorPlacementInfo \/ LogReport \/ ShowReport \/ GiveUp
  BY <1>1, <1>6
     DEF CreateRootHeap, CreateFileDeviceMgr, UseFiles, InitActorPlacementInfo, Log, LogReport, ShowReport, GiveUp
<1>7. ASSUME NEW t \in Loggers, LogOn(t) \/ Report(t) PROVE BrowserInv'
  BY <1>1, <1>7 DEF LogOn, Report
<1>8. CASE UNCHANGED vars
  BY <1>1, <1>8 DEF vars
<1> QED BY <1>2, <1>3, <1>5, <1>6, <1>7, <1>8 DEF Next

LEMMA ListedIs == BrowserInv => ActorsListed
<1> SUFFICES ASSUME BrowserInv PROVE ActorsListed
  OBVIOUS
<1>1. listed \in Seq(Actors) /\ DOMAIN listed = 1..Len(listed)
  BY DEF BrowserInv, BrowserTypeOK
<1>2. IsInjective(listed)
  BY <1>1 DEF BrowserInv, ListInv, Alone, IsInjective
<1>3. acting.pc # "clear" => ToSet(listed) \subseteq alive
  BY <1>1 DEF BrowserInv, ListInv, Lives, ToSet
<1> QED BY <1>2, <1>3 DEF ActorsListed, BrowserInv, ListInv, BrowseInv

-----------------------------------------------------------------------------
(* The log's list and the walk over it.                                    *)

States == {"taken", "null", "written", "freed"}
Line   == [len : Lengths, state : States]
Task   == [pc : {"out", "fault", "test", "pop", "push", "write", "skipped"}, id : Nat, len : Nat]
Walk   == [pc : {"out", "take", "show"}, at : Nat, end : Nat, holds : Nat, bad : BOOLEAN]

LogTypeOK ==
  /\ logging \in [Loggers -> Task]
  /\ line \in Seq(Line)
  /\ slots \in Seq(Nat) /\ size \in Nat /\ size <= Len(slots)
  /\ walk \in Walk /\ walk.end <= Len(slots)

(* A line in the list was not freed and is there once; it was refused, or  *)
(* is written or about to be.  One that a thread has yet to list was not   *)
(* freed, is not in the list, and no other thread is to list it.           *)
Kept(id) == id \in 1..Len(line) /\ line[id].state # "freed"
Whole == {"written", "null"}
Unlisted == {"fault", "test", "pop", "push"}

ListedInv ==
  /\ \A i \in 1..size : Kept(slots[i])
  /\ \A i, j \in 1..size : slots[i] = slots[j] => i = j
  /\ \A i \in 1..size : \/ line[slots[i]].state \in Whole
                        \/ \E t \in Loggers : logging[t].pc = "write" /\ logging[t].id = slots[i]

TakenInv ==
  /\ \A t \in Loggers : logging[t].pc # "out" => logging[t].id \in 1..Len(line)
  /\ \A t \in Loggers : logging[t].pc = "fault" => IsNull(logging[t].id)
  /\ \A t \in Loggers : logging[t].pc \in Unlisted =>
       /\ Kept(logging[t].id)
       /\ \A i \in 1..size : slots[i] # logging[t].id
       /\ \A u \in Loggers : logging[u].pc \in Unlisted /\ logging[u].id = logging[t].id => u = t

WalkInv ==
  /\ walk.bad => disturbed
  /\ walk.pc # "out" => walk.at # 0
  /\ walk.pc # "out" /\ ~disturbed => walk.end <= size /\ \A t \in Loggers : logging[t].pc = "out"
  /\ walk.pc = "show" /\ ~disturbed => line[walk.holds].state \in Whole

LogInv == LogTypeOK /\ ListedInv /\ TakenInv /\ WalkInv

LEMMA LogStarts == LogInit => LogInv
<1> SUFFICES ASSUME LogInit PROVE LogInv
  OBVIOUS
<1>1. /\ slots = <<>> /\ Len(slots) = 0 /\ size = 0 /\ line = <<>> /\ Len(line) = 0
      /\ logging = [t \in Loggers |-> Quiet] /\ walk = AtRest
  BY DEF LogInit
<1>2. LogTypeOK
  <2>1. Quiet \in Task /\ AtRest \in Walk
    BY DEF Quiet, AtRest, Task, Walk
  <2>2. walk.end <= Len(slots)
    BY <1>1 DEF AtRest
  <2> QED BY <1>1, <2>1, <2>2 DEF LogTypeOK
<1>3. ListedInv
  BY <1>1 DEF ListedInv
<1>4. TakenInv
  BY <1>1 DEF TakenInv, Quiet, Unlisted
<1>5. WalkInv
  BY <1>1 DEF WalkInv, AtRest
<1> QED BY <1>2, <1>3, <1>4, <1>5 DEF LogInv

LEMMA Disturbed ==
  ASSUME WalkInv, disturbed', UNCHANGED walk
  PROVE  WalkInv'
  BY DEF WalkInv

Became(M, L, k, s) ==
  /\ M \in Seq(Line) /\ Len(M) = Len(L) /\ M[k].state = s /\ M[k].len = L[k].len
  /\ \A i \in 1..Len(L) : i # k => M[i] = L[i]

LEMMA LineChanges ==
  ASSUME NEW L \in Seq(Line), NEW k \in 1..Len(L), NEW s \in States, NEW M, M = [L EXCEPT ![k].state = s]
  PROVE  Became(M, L, k, s)
<1>1. L[k] \in Line
  OBVIOUS
<1>2. /\ [L[k] EXCEPT !.state = s] \in Line /\ [L[k] EXCEPT !.state = s].state = s
      /\ [L[k] EXCEPT !.state = s].len = L[k].len
  BY <1>1 DEF Line
<1>3. M = [L EXCEPT ![k] = [L[k] EXCEPT !.state = s]]
  OBVIOUS
<1> HIDE DEF Line
<1> QED BY <1>2, <1>3 DEF Became

LEMMA StartLogKeeps ==
  ASSUME LogInv, NEW t \in Loggers, NEW len \in Lengths, StartLog(t, len)
  PROVE  LogInv'
<1> USE DEF LogInv
<1>0. /\ logging \in [Loggers -> Task] /\ line \in Seq(Line) /\ Len(line) \in Nat /\ len \in Nat
      /\ size \in Nat /\ slots \in Seq(Nat)
  BY LogAssumption DEF LogTypeOK
<1>1. disturbed' /\ UNCHANGED <<slots, size, walk>> /\ logging[t] = Quiet
  BY DEF StartLog
<1>2. WalkInv'
  BY <1>1, Disturbed
<1>3. PICK state \in {"taken", "null"}, pc \in {"test", "fault"} :
        Asks(t, len, state, pc) /\ (pc = "fault" => state = "null")
  BY DEF StartLog
<1>4. [len |-> len, state |-> state] \in Line
  BY <1>0 DEF Line, States
<1>5. /\ line' \in Seq(Line) /\ Len(line') = Len(line) + 1
      /\ line'[Len(line)+1] = [len |-> len, state |-> state]
      /\ \A id \in 1..Len(line) : line'[id] = line[id]
  BY <1>0, <1>3, <1>4 DEF Asks
<1>6. [pc |-> pc, id |-> Len(line) + 1, len |-> len] \in Task
  BY <1>0 DEF Task
<1>7. /\ logging' \in [Loggers -> Task]
      /\ logging'[t].pc = pc /\ logging'[t].id = Len(line) + 1
      /\ \A u \in Loggers : u # t => logging'[u] = logging[u]
  BY <1>0, <1>3, <1>6 DEF Asks
<1>8. LogTypeOK'
  BY <1>1, <1>5, <1>7 DEF LogTypeOK
<1>9. \A id : Kept(id) => Kept(id)' /\ line'[id] = line[id]
  BY <1>0, <1>5 DEF Kept
<1>a. Len(line) + 1 \in 1..Len(line') /\ line'[Len(line)+1].state = state
  BY <1>0, <1>5
<1>b. ListedInv'
  <2>1. \A u \in Loggers : logging[u].pc = "write" => logging'[u] = logging[u]
    BY <1>1, <1>7 DEF Quiet
  <2>2. \A i \in 1..size : Kept(slots[i])' /\ line'[slots[i]] = line[slots[i]]
    BY <1>1, <1>9 DEF ListedInv
  <2> QED BY <1>1, <2>1, <2>2 DEF ListedInv
<1>c. TakenInv'
  <2>1. ASSUME NEW u \in Loggers, logging'[u].pc # "out" PROVE logging'[u].id \in 1..Len(line')
    <3>1. u # t => logging[u].id \in 1..Len(line) /\ logging'[u] = logging[u]
      BY <1>7, <2>1 DEF TakenInv
    <3> QED BY <1>0, <1>5, <1>7, <3>1
  <2>2. ASSUME NEW u \in Loggers, logging'[u].pc = "fault" PROVE line'[logging'[u].id].state = "null"
    <3>1. CASE u = t
      BY <1>3, <1>7, <1>a, <2>2, <3>1
    <3>2. CASE u # t
      BY <1>5, <1>7, <2>2, <3>2 DEF TakenInv, IsNull
    <3> QED BY <3>1, <3>2
  <2>3. ASSUME NEW u \in Loggers, logging'[u].pc \in Unlisted
        PROVE  /\ logging'[u].id \in 1..Len(line') /\ line'[logging'[u].id].state # "freed"
               /\ \A i \in 1..size : slots[i] # logging'[u].id
               /\ \A v \in Loggers : logging'[v].pc \in Unlisted /\ logging'[v].id = logging'[u].id => v = u
    <3>1. CASE u = t
      <4>1. \A v \in Loggers : v # t /\ logging[v].pc \in Unlisted => logging[v].id \in 1..Len(line)
        BY DEF TakenInv, Unlisted
      <4>2. \A i \in 1..size : slots[i] \in 1..Len(line)
        BY DEF ListedInv, Kept
      <4>3. Len(line) + 1 \notin 1..Len(line)
        BY <1>0
      <4> QED BY <1>7, <1>a, <3>1, <4>1, <4>2, <4>3
    <3>2. CASE u # t
      <4>1. /\ logging'[u] = logging[u] /\ Kept(logging[u].id) /\ logging[u].id \in 1..Len(line)
            /\ \A i \in 1..size : slots[i] # logging[u].id
            /\ \A v \in Loggers : logging[v].pc \in Unlisted /\ logging[v].id = logging[u].id => v = u
        BY <1>7, <2>3, <3>2 DEF TakenInv, Kept
      <4>2. logging'[u].id \in 1..Len(line') /\ line'[logging'[u].id].state # "freed"
        BY <1>0, <1>5, <4>1 DEF Kept
      <4>3. logging[u].id # Len(line) + 1
        BY <1>0, <4>1
      <4> QED BY <1>7, <4>1, <4>2, <4>3
    <3> QED BY <3>1, <3>2
  <2> QED BY <1>1, <2>1, <2>2, <2>3 DEF TakenInv, Kept, IsNull
<1> QED BY <1>2, <1>8, <1>b, <1>c

(* A thread goes on without a change to the list or to a line.             *)
LEMMA PcMoves ==
  ASSUME LogInv, NEW t \in Loggers, NEW pc, logging' = [logging EXCEPT ![t].pc = pc],
         UNCHANGED <<slots, size, line, walk, disturbed>>,
         \/ logging[t].pc \in Unlisted /\ pc \in Unlisted \ {"fault"}
         \/ logging[t].pc = "write" /\ pc = "skipped" /\ IsNull(logging[t].id)
  PROVE  LogInv'
<1> USE DEF LogInv
<1>0. logging \in [Loggers -> Task] /\ logging[t] \in Task /\ logging[t].pc # "out"
  BY DEF LogTypeOK, Unlisted
<1>1. [logging[t] EXCEPT !.pc = pc] \in Task
  BY <1>0 DEF Task, Unlisted
<1>2. /\ logging' \in [Loggers -> Task] /\ logging'[t].pc = pc /\ logging'[t].id = logging[t].id
      /\ \A u \in Loggers : u # t => logging'[u] = logging[u]
  BY <1>0, <1>1 DEF Task
<1>3. LogTypeOK'
  BY <1>2 DEF LogTypeOK
<1>4. WalkInv'
  BY <1>0 DEF WalkInv
<1>5. ListedInv'
  <2>1. ASSUME NEW i \in 1..size
        PROVE  \/ line[slots[i]].state \in Whole
               \/ \E u \in Loggers : logging'[u].pc = "write" /\ logging'[u].id = slots[i]
    <3>1. CASE \E u \in Loggers : u # t /\ logging[u].pc = "write" /\ logging[u].id = slots[i]
      BY <1>2, <3>1
    <3>2. CASE logging[t].pc = "write" /\ logging[t].id = slots[i]
      BY <3>2 DEF IsNull, Whole, Unlisted
    <3> QED BY <3>1, <3>2 DEF ListedInv
  <2> QED BY <2>1 DEF ListedInv, Kept
<1>6. TakenInv'
  <2>1. \A u \in Loggers : logging'[u].id = logging[u].id
    BY <1>2
  <2>2. \A u \in Loggers : logging'[u].pc # "out" => logging[u].pc # "out"
    BY <1>0, <1>2
  <2>3. \A u \in Loggers : logging'[u].pc = "fault" => logging[u].pc = "fault"
    BY <1>2
  <2>4. \A u \in Loggers : logging'[u].pc \in Unlisted => logging[u].pc \in Unlisted
    BY <1>2 DEF Unlisted
  <2> QED BY <2>1, <2>2, <2>3, <2>4 DEF TakenInv, Kept, IsNull
<1> QED BY <1>3, <1>4, <1>5, <1>6

LEMMA TestRoomKeeps ==
  ASSUME LogInv, NEW t \in Loggers, TestRoom(t)
  PROVE  LogInv'
<1> DEFINE pc == IF NeedsRoom(logging[t].len) THEN "pop" ELSE "push"
<1>1. /\ logging' = [logging EXCEPT ![t].pc = pc] /\ logging[t].pc \in Unlisted
      /\ UNCHANGED <<slots, size, line, walk, disturbed>> /\ pc \in Unlisted \ {"fault"}
  BY DEF TestRoom, Unlisted
<1> HIDE DEF pc
<1> QED BY <1>1, PcMoves

LEMMA SkipStoreKeeps ==
  ASSUME LogInv, NEW t \in Loggers, SkipStore(t)
  PROVE  LogInv'
<1>1. UNCHANGED <<slots, size, line, walk, disturbed>>
  BY DEF SkipStore
<1>2. CASE logging[t].pc = "fault"
  <2>1. logging' = [logging EXCEPT ![t].pc = "test"] /\ logging[t].pc \in Unlisted /\ "test" \in Unlisted \ {"fault"}
    BY <1>2 DEF SkipStore, Unlisted
  <2> QED BY <1>1, <2>1, PcMoves
<1>3. CASE logging[t].pc = "write" /\ IsNull(logging[t].id)
  <2>1. logging' = [logging EXCEPT ![t].pc = "skipped"]
    BY <1>3 DEF SkipStore
  <2> QED BY <1>1, <1>3, <2>1, PcMoves
<1> QED BY <1>2, <1>3 DEF SkipStore, Faults

LEMMA ShiftedIs ==
  ASSUME LogTypeOK, size > 0
  PROVE  Shifted \in Seq(Nat) /\ Len(Shifted) = Len(slots) /\ \A i \in 1..size-1 : Shifted[i] = slots[i+1]
<1>1. slots \in Seq(Nat) /\ size \in Nat /\ size <= Len(slots) /\ DOMAIN slots = 1..Len(slots) /\ Len(slots) \in Nat
  BY DEF LogTypeOK
<1>2. \A i \in 1..Len(slots) : (IF i < size THEN slots[i+1] ELSE slots[i]) \in Nat
  BY <1>1
<1>3. Shifted = [i \in 1..Len(slots) |-> IF i < size THEN slots[i+1] ELSE slots[i]]
  BY <1>1 DEF Shifted
<1> QED BY <1>1, <1>2, <1>3

LEMMA PopFrontKeeps ==
  ASSUME LogInv, NEW t \in Loggers, PopFront(t)
  PROVE  LogInv'
<1> USE DEF LogInv
<1>0. /\ logging \in [Loggers -> Task] /\ line \in Seq(Line) /\ Len(line) \in Nat
      /\ size \in Nat /\ slots \in Seq(Nat) /\ size <= Len(slots) /\ logging[t] \in Task
  BY DEF LogTypeOK
<1>1. logging[t].pc = "pop" /\ disturbed' /\ UNCHANGED walk /\ logging' = [logging EXCEPT ![t].pc = "test"]
  BY DEF PopFront
<1>2. WalkInv'
  BY <1>1, Disturbed
<1>3. /\ logging' \in [Loggers -> Task] /\ \A u \in Loggers : logging'[u].id = logging[u].id
      /\ \A u \in Loggers : u # t => logging'[u] = logging[u]
      /\ logging'[t].pc = "test"
  <2>1. [logging[t] EXCEPT !.pc = "test"] \in Task
    BY <1>0 DEF Task
  <2> QED BY <1>0, <1>1, <2>1 DEF Task
<1>4. \A u \in Loggers : /\ logging'[u].pc # "out" => logging[u].pc # "out"
                         /\ logging'[u].pc = "fault" => logging[u].pc = "fault"
                         /\ logging'[u].pc \in Unlisted => logging[u].pc \in Unlisted
                         /\ logging[u].pc = "write" => logging'[u].pc = "write"
  BY <1>1, <1>3 DEF Unlisted
<1>5. CASE size = 0
  <2>1. UNCHANGED <<line, slots, size>>
    BY <1>5 DEF PopFront
  <2>2. LogTypeOK'
    BY <1>1, <1>3, <2>1 DEF LogTypeOK
  <2>3. ListedInv'
    BY <1>3, <1>4, <2>1 DEF ListedInv, Kept
  <2>4. TakenInv'
    BY <1>3, <1>4, <2>1 DEF TakenInv, Kept, IsNull
  <2> QED BY <1>2, <2>2, <2>3, <2>4
<1>6. CASE size # 0
  <2>1. /\ size > 0 /\ line' = [line EXCEPT ![slots[1]].state = IF @ = "null" THEN @ ELSE "freed"]
        /\ slots' = Shifted /\ size' = size - 1
    BY <1>0, <1>6 DEF PopFront
  <2>2. slots[1] \in 1..Len(line)
    BY <1>0, <2>1 DEF ListedInv, Kept
  <2>3. /\ line' \in Seq(Line) /\ Len(line') = Len(line)
        /\ \A id \in 1..Len(line) : id # slots[1] => line'[id] = line[id]
        /\ line[slots[1]].state = "null" => line'[slots[1]].state = "null"
    <3>1. PICK s : s = IF line[slots[1]].state = "null" THEN line[slots[1]].state ELSE "freed"
      OBVIOUS
    <3>2. s \in States /\ line' = [line EXCEPT ![slots[1]].state = s]
      BY <2>1, <3>1 DEF States
    <3>3. Became(line', line, slots[1], s)
      BY ONLY <1>0, <2>2, <3>2, LineChanges
    <3> QED BY <3>1, <3>3 DEF Became
  <2>4. slots' \in Seq(Nat) /\ Len(slots') = Len(slots) /\ \A i \in 1..size-1 : slots'[i] = slots[i+1]
    BY <2>1, ShiftedIs
  <2>5. \A i \in 1..size' : i + 1 \in 1..size /\ slots'[i] = slots[i+1] /\ slots[i+1] # slots[1]
    <3> SUFFICES ASSUME NEW i \in 1..size' PROVE i + 1 \in 1..size /\ slots'[i] = slots[i+1] /\ slots[i+1] # slots[1]
      OBVIOUS
    <3>1. i \in 1..size-1 /\ i + 1 \in 1..size /\ 1 \in 1..size /\ i + 1 # 1
      BY <1>0, <2>1, SMTT(30)
    <3> QED BY <2>4, <3>1 DEF ListedInv
  <2>6. LogTypeOK'
    BY <1>0, <1>1, <1>3, <2>1, <2>3, <2>4 DEF LogTypeOK
  <2>7. ListedInv'
    <3>1. ASSUME NEW i \in 1..size'
          PROVE  /\ slots'[i] \in 1..Len(line') /\ line'[slots'[i]].state # "freed"
                 /\ \/ line'[slots'[i]].state \in Whole
                    \/ \E u \in Loggers : logging'[u].pc = "write" /\ logging'[u].id = slots'[i]
      <4>1. Kept(slots[i+1]) /\ slots'[i] = slots[i+1] /\ line'[slots[i+1]] = line[slots[i+1]]
        BY <2>3, <2>5 DEF ListedInv, Kept
      <4> QED BY <1>3, <1>4, <2>3, <2>5, <4>1 DEF ListedInv, Kept
    <3>2. ASSUME NEW i \in 1..size', NEW j \in 1..size', slots'[i] = slots'[j] PROVE i = j
      <4>1. i + 1 = j + 1
        BY <2>5, <3>2 DEF ListedInv
      <4> QED BY <1>0, <2>1, <4>1
    <3> QED BY <3>1, <3>2 DEF ListedInv, Kept
  <2>8. TakenInv'
    <3>1. ASSUME NEW u \in Loggers, logging[u].pc \in Unlisted
          PROVE  /\ logging[u].id \in 1..Len(line') /\ line'[logging[u].id].state # "freed"
                 /\ \A i \in 1..size' : slots'[i] # logging[u].id
      <4>1. Kept(logging[u].id) /\ \A i \in 1..size : slots[i] # logging[u].id
        BY <3>1 DEF TakenInv
      <4>2. 1 \in 1..size
        BY <1>0, <2>1
      <4> QED BY <2>3, <2>5, <4>1, <4>2 DEF Kept
    <3>2. ASSUME NEW u \in Loggers, logging[u].pc = "fault" PROVE line'[logging[u].id].state = "null"
      <4>1. line[logging[u].id].state = "null" /\ logging[u].id \in 1..Len(line)
        BY <3>2 DEF TakenInv, IsNull
      <4> QED BY <2>3, <4>1
    <3>3. ASSUME NEW u \in Loggers, logging'[u].pc \in Unlisted
          PROVE  \A v \in Loggers : logging'[v].pc \in Unlisted /\ logging'[v].id = logging'[u].id => v = u
      BY <1>3, <1>4, <3>3 DEF TakenInv
    <3>4. \A u \in Loggers : logging'[u].pc # "out" => logging'[u].id \in 1..Len(line')
      BY <1>3, <1>4, <2>3 DEF TakenInv
    <3> QED BY <1>3, <1>4, <3>1, <3>2, <3>3, <3>4 DEF TakenInv, Kept, IsNull
  <2> QED BY <1>2, <2>6, <2>7, <2>8
<1> QED BY <1>5, <1>6

(* A list that is full takes no line.                                      *)
LEMMA DropKeeps ==
  ASSUME LogInv, NEW t \in Loggers, PushBack(t), ~(size < LineMax)
  PROVE  LogInv'
<1> USE DEF LogInv
<1>0. logging \in [Loggers -> Task] /\ logging[t] \in Task
  BY DEF LogTypeOK
<1>1. /\ logging[t].pc = "push" /\ disturbed' /\ UNCHANGED <<line, walk, slots, size>>
      /\ logging' = [logging EXCEPT ![t].pc = "write"]
  BY DEF PushBack
<1>2. /\ logging' \in [Loggers -> Task] /\ \A u \in Loggers : logging'[u].id = logging[u].id
      /\ \A u \in Loggers : u # t => logging'[u] = logging[u]
      /\ logging'[t].pc = "write"
  <2>1. [logging[t] EXCEPT !.pc = "write"] \in Task
    BY <1>0 DEF Task
  <2> QED BY <1>0, <1>1, <2>1 DEF Task
<1>3. \A u \in Loggers : /\ logging'[u].pc # "out" => logging[u].pc # "out"
                         /\ logging'[u].pc = "fault" => logging[u].pc = "fault"
                         /\ logging'[u].pc \in Unlisted => logging[u].pc \in Unlisted
                         /\ logging[u].pc = "write" => logging'[u].pc = "write"
  BY <1>1, <1>2 DEF Unlisted
<1>4. LogTypeOK'
  BY <1>1, <1>2 DEF LogTypeOK
<1>5. ListedInv'
  BY <1>1, <1>2, <1>3 DEF ListedInv, Kept
<1>6. TakenInv'
  BY <1>1, <1>2, <1>3 DEF TakenInv, Kept, IsNull
<1> QED BY <1>1, <1>4, <1>5, <1>6, Disturbed

LEMMA PushBackKeeps ==
  ASSUME LogInv, NEW t \in Loggers, PushBack(t)
  PROVE  LogInv'
<1> SUFFICES ASSUME size < LineMax PROVE LogInv'
  BY DropKeeps
<1> USE DEF LogInv
<1>0. /\ logging \in [Loggers -> Task] /\ line \in Seq(Line) /\ Len(line) \in Nat
      /\ size \in Nat /\ slots \in Seq(Nat) /\ size <= Len(slots) /\ Len(slots) \in Nat
  BY DEF LogTypeOK
<1>1. /\ logging[t].pc = "push" /\ disturbed' /\ UNCHANGED <<line, walk>>
      /\ logging' = [logging EXCEPT ![t].pc = "write"]
  BY DEF PushBack
<1>2. logging[t].pc \in Unlisted
  BY <1>1 DEF Unlisted
<1>3. /\ slots' = IF size < Len(slots) THEN [slots EXCEPT ![size+1] = logging[t].id] ELSE Append(slots, logging[t].id)
      /\ size' = size + 1
  BY DEF PushBack
<1>4. logging[t].id \in Nat
  BY <1>0 DEF Task
<1>5. /\ slots' \in Seq(Nat) /\ size' <= Len(slots') /\ Len(slots) <= Len(slots') /\ slots'[size+1] = logging[t].id
      /\ \A i \in 1..size : slots'[i] = slots[i]
  <2>1. CASE size < Len(slots)
    BY <1>0, <1>3, <1>4, <2>1
  <2>2. CASE ~(size < Len(slots))
    <3>1. size = Len(slots) /\ slots' = Append(slots, logging[t].id)
      BY <1>0, <1>3, <2>2
    <3> QED BY <1>0, <1>3, <1>4, <3>1
  <2> QED BY <2>1, <2>2
<1>6. /\ logging' \in [Loggers -> Task] /\ logging'[t].pc = "write" /\ logging'[t].id = logging[t].id
      /\ \A u \in Loggers : u # t => logging'[u] = logging[u]
  BY <1>0, <1>1 DEF Task
<1>7. LogTypeOK'
  <2>1. walk \in Walk /\ walk.end \in Nat /\ walk.end <= Len(slots) /\ Len(slots') \in Nat
    BY <1>5 DEF LogTypeOK, Walk
  <2>2. walk'.end <= Len(slots')
    BY <1>0, <1>1, <1>5, <2>1
  <2> QED BY <1>0, <1>1, <1>3, <1>5, <1>6, <2>1, <2>2 DEF LogTypeOK
<1>8. WalkInv'
  BY <1>1, Disturbed
<1>9. \A i \in 1..size' : i \in 1..size \/ i = size + 1
  BY <1>0, <1>3
<1>a. \A i \in 1..size : slots[i] # slots'[size+1]
  BY <1>2, <1>5 DEF TakenInv
<1>b. ListedInv'
  <2>1. ASSUME NEW i \in 1..size'
        PROVE  /\ slots'[i] \in 1..Len(line) /\ line[slots'[i]].state # "freed"
               /\ \/ line[slots'[i]].state \in Whole
                  \/ \E u \in Loggers : logging'[u].pc = "write" /\ logging'[u].id = slots'[i]
    <3>1. CASE i = size + 1
      BY <1>2, <1>5, <1>6, <3>1 DEF TakenInv, Kept
    <3>2. CASE i \in 1..size
      <4>1. slots'[i] = slots[i] /\ Kept(slots[i])
        BY <1>5, <3>2 DEF ListedInv
      <4>2. \/ line[slots[i]].state \in Whole
            \/ \E u \in Loggers : u # t /\ logging[u].pc = "write" /\ logging[u].id = slots[i]
        BY <1>1, <3>2 DEF ListedInv
      <4> QED BY <1>6, <4>1, <4>2 DEF Kept
    <3> QED BY <1>9, <3>1, <3>2
  <2>2. ASSUME NEW i \in 1..size', NEW j \in 1..size', slots'[i] = slots'[j] PROVE i = j
    <3>1. CASE i \in 1..size /\ j \in 1..size
      BY <1>5, <2>2, <3>1 DEF ListedInv
    <3>2. CASE i = size + 1 \/ j = size + 1
      BY <1>5, <1>9, <1>a, <2>2, <3>2
    <3> QED BY <1>9, <3>1, <3>2
  <2> QED BY <1>1, <2>1, <2>2 DEF ListedInv, Kept
<1>c. TakenInv'
  <2>1. \A u \in Loggers : logging'[u].pc # "out" => logging'[u].id \in 1..Len(line)
    BY <1>1, <1>6 DEF TakenInv
  <2>2. ASSUME NEW u \in Loggers, logging'[u].pc \in Unlisted
        PROVE  /\ logging'[u].id \in 1..Len(line) /\ line[logging'[u].id].state # "freed"
               /\ \A i \in 1..size' : slots'[i] # logging'[u].id
               /\ \A v \in Loggers : logging'[v].pc \in Unlisted /\ logging'[v].id = logging'[u].id => v = u
    <3>1. u # t /\ logging'[u] = logging[u]
      BY <1>6, <2>2 DEF Unlisted
    <3>2. /\ Kept(logging[u].id) /\ (\A i \in 1..size : slots[i] # logging[u].id)
          /\ \A v \in Loggers : logging[v].pc \in Unlisted /\ logging[v].id = logging[u].id => v = u
      BY <2>2, <3>1 DEF TakenInv
    <3>3. logging[t].id # logging[u].id
      BY <1>2, <3>1, <3>2
    <3>4. \A i \in 1..size' : slots'[i] # logging[u].id
      BY <1>5, <1>9, <3>2, <3>3
    <3>5. \A v \in Loggers : logging'[v].pc \in Unlisted => v # t
      BY <1>6 DEF Unlisted
    <3> QED BY <1>6, <3>1, <3>2, <3>4, <3>5 DEF Kept
  <2>3. \A u \in Loggers : logging'[u].pc = "fault" => line[logging'[u].id].state = "null"
    BY <1>6 DEF TakenInv, IsNull
  <2> QED BY <1>1, <2>1, <2>2, <2>3 DEF TakenInv, Kept, IsNull
<1> QED BY <1>7, <1>8, <1>b, <1>c

LEMMA WriteLineKeeps ==
  ASSUME LogInv, NEW t \in Loggers, WriteLine(t)
  PROVE  LogInv'
<1> USE DEF LogInv
<1> DEFINE k == logging[t].id
<1>0. /\ logging \in [Loggers -> Task] /\ line \in Seq(Line) /\ Len(line) \in Nat
      /\ size \in Nat /\ slots \in Seq(Nat)
  BY DEF LogTypeOK
<1>1. /\ logging[t].pc \in {"write", "skipped"} /\ disturbed' /\ UNCHANGED <<slots, size, walk>>
      /\ logging' = [logging EXCEPT ![t] = Quiet]
  BY DEF WriteLine
<1>2. k \in 1..Len(line)
  BY <1>1 DEF TakenInv
<1>3. /\ line' \in Seq(Line) /\ Len(line') = Len(line)
      /\ \A id \in 1..Len(line) : id # k => line'[id] = line[id]
      /\ line'[k].state = IF line[k].state = "taken" THEN "written" ELSE line[k].state
  <2>1. PICK s : s = IF line[k].state = "taken" THEN "written" ELSE line[k].state
    OBVIOUS
  <2>2. line[k] \in Line
    BY <1>0, <1>2
  <2>3. s \in States /\ line' = [line EXCEPT ![k].state = s]
    BY <2>1, <2>2 DEF WriteLine, States, Line
  <2> HIDE DEF k
  <2>4. Became(line', line, k, s)
    BY ONLY <1>0, <1>2, <2>3, LineChanges
  <2> QED BY <2>1, <2>4 DEF Became
<1>4. /\ logging' \in [Loggers -> Task] /\ logging'[t].pc = "out"
      /\ \A u \in Loggers : u # t => logging'[u] = logging[u]
  <2>1. Quiet \in Task /\ Quiet.pc = "out"
    BY DEF Quiet, Task
  <2> QED BY <1>0, <1>1, <2>1
<1>5. \A id \in 1..Len(line) : /\ line[id].state # "freed" => line'[id].state # "freed"
                               /\ line[id].state \in Whole => line'[id].state \in Whole
                               /\ line[id].state = "null" => line'[id].state = "null"
  BY <1>3 DEF Whole
<1>6. line[k].state # "freed" => line'[k].state \in Whole
  <2>1. line[k] \in Line
    BY <1>0, <1>2
  <2> QED BY <1>3, <2>1 DEF Whole, Line, States
<1>7. LogTypeOK'
  BY <1>1, <1>3, <1>4 DEF LogTypeOK
<1>8. WalkInv'
  BY <1>1, Disturbed
<1>9. ListedInv'
  <2>1. ASSUME NEW i \in 1..size
        PROVE  /\ slots[i] \in 1..Len(line') /\ line'[slots[i]].state # "freed"
               /\ \/ line'[slots[i]].state \in Whole
                  \/ \E u \in Loggers : logging'[u].pc = "write" /\ logging'[u].id = slots[i]
    <3>1. slots[i] \in 1..Len(line) /\ line[slots[i]].state # "freed"
      BY DEF ListedInv, Kept
    <3>2. CASE slots[i] = k
      BY <1>3, <1>5, <1>6, <3>1, <3>2
    <3>3. CASE slots[i] # k
      <4>1. \/ line[slots[i]].state \in Whole
            \/ \E u \in Loggers : u # t /\ logging[u].pc = "write" /\ logging[u].id = slots[i]
        BY <3>3 DEF ListedInv
      <4> QED BY <1>3, <1>4, <1>5, <3>1, <4>1
    <3> QED BY <3>2, <3>3
  <2> QED BY <1>1, <2>1 DEF ListedInv, Kept
<1>a. TakenInv'
  <2>1. \A u \in Loggers : logging'[u].pc # "out" => logging'[u] = logging[u]
    BY <1>4
  <2>2. \A u \in Loggers : logging'[u].pc # "out" => logging'[u].id \in 1..Len(line')
    BY <1>3, <2>1 DEF TakenInv
  <2>3. ASSUME NEW u \in Loggers, logging'[u].pc \in Unlisted
        PROVE  /\ line'[logging'[u].id].state # "freed" /\ (\A i \in 1..size : slots[i] # logging'[u].id)
               /\ \A v \in Loggers : logging'[v].pc \in Unlisted /\ logging'[v].id = logging'[u].id => v = u
    <3>1. logging'[u] = logging[u] /\ \A v \in Loggers : logging'[v].pc \in Unlisted => logging'[v] = logging[v]
      BY <2>1, <2>3 DEF Unlisted
    <3>2. /\ Kept(logging[u].id) /\ (\A i \in 1..size : slots[i] # logging[u].id)
          /\ \A v \in Loggers : logging[v].pc \in Unlisted /\ logging[v].id = logging[u].id => v = u
      BY <2>3, <3>1 DEF TakenInv
    <3> QED BY <1>5, <3>1, <3>2 DEF Kept
  <2>4. ASSUME NEW u \in Loggers, logging'[u].pc = "fault" PROVE line'[logging'[u].id].state = "null"
    <3>1. logging'[u] = logging[u] /\ line[logging[u].id].state = "null" /\ logging[u].id \in 1..Len(line)
      BY <2>1, <2>4 DEF TakenInv, IsNull
    <3> QED BY <1>5, <3>1
  <2> QED BY <1>1, <2>2, <2>3, <2>4, <1>3 DEF TakenInv, Kept, Unlisted, IsNull
<1> QED BY <1>7, <1>8, <1>9, <1>a

(* The log stays, the walk begins or goes on.                              *)
LEMMA LogHolds ==
  ASSUME LogInv, UNCHANGED <<size, slots, line, logging>>, walk' \in Walk, walk'.end <= Len(slots)
  PROVE  LogTypeOK' /\ ListedInv' /\ TakenInv'
<1>1. LogTypeOK'
  BY DEF LogInv, LogTypeOK
<1>2. ListedInv'
  BY DEF LogInv, ListedInv, Kept
<1>3. TakenInv'
  BY DEF LogInv, TakenInv, Kept, IsNull
<1> QED BY <1>1, <1>2, <1>3

LEMMA WalkKeeps ==
  ASSUME LogInv, BeginWalk \/ TakeLine \/ ShowLine
  PROVE  LogInv'
<1>0. /\ logging \in [Loggers -> Task] /\ slots \in Seq(Nat) /\ size \in Nat /\ size <= Len(slots)
      /\ Len(slots) \in Nat /\ walk \in Walk /\ walk.end <= Len(slots)
  BY DEF LogInv, LogTypeOK
<1>1. UNCHANGED <<size, slots, line, logging>>
  BY DEF BeginWalk, TakeLine, ShowLine
<1>2. CASE BeginWalk
  <2>1. walk' = [pc |-> "take", at |-> 1, end |-> size, holds |-> 0, bad |-> FALSE]
    BY <1>2 DEF BeginWalk
  <2>2. walk' \in Walk /\ walk'.end <= Len(slots)
    BY <1>0, <2>1 DEF Walk
  <2>3. disturbed' = (\E t \in Loggers : logging[t] # Quiet)
    BY <1>2 DEF BeginWalk
  <2>4. ~disturbed' => \A t \in Loggers : logging[t] = Quiet
    BY ONLY <2>3, Zenon
  <2>5. WalkInv'
    BY <1>0, <1>1, <2>1, <2>4 DEF WalkInv, Quiet
  <2> QED BY <1>1, <2>2, <2>5, LogHolds DEF LogInv
<1>3. CASE TakeLine
  <2>1. walk.pc = "take" /\ UNCHANGED disturbed
    BY <1>3 DEF TakeLine
  <2>2. CASE walk' = AtRest
    <3>1. walk' \in Walk /\ walk'.end <= Len(slots)
      BY <1>0, <2>2 DEF AtRest, Walk
    <3>2. WalkInv'
      BY <2>2 DEF WalkInv, AtRest
    <3> QED BY <1>1, <3>1, <3>2, LogHolds DEF LogInv
  <2>3. CASE walk.at <= walk.end /\ walk' = [walk EXCEPT !.pc = "show", !.holds = slots[walk.at]]
    <3>1. walk.at \in Nat /\ walk.at # 0 /\ walk.end \in Nat
      BY <1>0, <2>1 DEF Walk, LogInv, WalkInv
    <3>2. walk.at \in 1..Len(slots) /\ slots[walk.at] \in Nat
      BY <1>0, <2>3, <3>1
    <3>3. /\ walk' \in Walk /\ walk'.pc = "show" /\ walk'.at = walk.at /\ walk'.end = walk.end
          /\ walk'.holds = slots[walk.at] /\ walk'.bad = walk.bad
      BY <1>0, <2>3, <3>2 DEF Walk
    <3>4. ~disturbed => walk.end <= size /\ \A t \in Loggers : logging[t].pc = "out"
      BY <2>1 DEF LogInv, WalkInv
    <3>5. ASSUME ~disturbed PROVE line[slots[walk.at]].state \in Whole
      <4>1. walk.at \in 1..size
        BY <1>0, <2>3, <3>1, <3>4, <3>5
      <4> QED BY <3>4, <3>5, <4>1 DEF LogInv, ListedInv
    <3>6. walk.bad => disturbed
      BY DEF LogInv, WalkInv
    <3>7. WalkInv'
      BY <1>1, <2>1, <3>1, <3>3, <3>4, <3>5, <3>6 DEF WalkInv
    <3>8. walk'.end <= Len(slots)
      BY <1>0, <3>3
    <3> QED BY <1>1, <3>3, <3>7, <3>8, LogHolds DEF LogInv
  <2> QED BY <1>3, <2>2, <2>3 DEF TakeLine
<1>4. CASE ShowLine
  <2>1. /\ walk.pc = "show" /\ UNCHANGED disturbed
        /\ walk' = [walk EXCEPT !.pc = "take", !.at = @ + 1, !.bad = @ \/ line[walk.holds].state \notin {"written", "null"}]
    BY <1>4 DEF ShowLine
  <2>2. /\ walk' \in Walk /\ walk'.pc = "take" /\ walk'.at = walk.at + 1 /\ walk.at \in Nat /\ walk'.end = walk.end
        /\ walk'.bad = (walk.bad \/ line[walk.holds].state \notin {"written", "null"})
    <3>1. (walk.bad \/ line[walk.holds].state \notin {"written", "null"}) \in BOOLEAN /\ walk.at \in Nat /\ walk.at + 1 \in Nat
      BY <1>0 DEF Walk
    <3> QED BY ONLY <1>0, <2>1, <3>1 DEF Walk
  <2>3. walk'.bad => disturbed'
    <3>1. (walk.bad => disturbed) /\ (~disturbed => line[walk.holds].state \in {"written", "null"})
      BY <2>1 DEF LogInv, WalkInv, Whole
    <3> QED BY <2>1, <2>2, <3>1, Zenon
  <2>4. ~disturbed => walk.end <= size /\ \A t \in Loggers : logging[t].pc = "out"
    BY <2>1 DEF LogInv, WalkInv
  <2>5. WalkInv'
    BY <1>1, <2>1, <2>2, <2>3, <2>4 DEF WalkInv
  <2>6. walk'.end <= Len(slots)
    BY <1>0, <2>2
  <2> QED BY <1>1, <2>2, <2>5, <2>6, LogHolds DEF LogInv
<1> QED BY <1>2, <1>3, <1>4

LEMMA LogStays == ASSUME LogInv, UNCHANGED logVars PROVE LogInv'
<1>1. UNCHANGED <<size, slots, line, logging, walk, disturbed>>
  BY DEF logVars
<1>2. LogTypeOK'
  BY <1>1 DEF LogInv, LogTypeOK
<1>3. WalkInv'
  BY <1>1 DEF LogInv, WalkInv
<1>4. ListedInv' /\ TakenInv'
  BY <1>1, LogHolds DEF LogInv, LogTypeOK
<1> QED BY <1>2, <1>3, <1>4 DEF LogInv

LEMMA NextKeepsLog == LogInv /\ [Next]_vars => LogInv'
<1> SUFFICES ASSUME LogInv, [Next]_vars PROVE LogInv'
  OBVIOUS
<1>1. CASE UNCHANGED logVars
  BY <1>1, LogStays
<1>2. CASE CreateRootHeap
  <2>1. UNCHANGED <<size, slots, line, logging, walk, disturbed>>
    BY <1>2 DEF CreateRootHeap, InitializeLog
  <2>2. WalkInv' /\ LogTypeOK'
    BY <2>1 DEF LogInv, WalkInv, LogTypeOK
  <2> QED BY <2>1, <2>2, LogHolds DEF LogInv, LogTypeOK
<1>3. ASSUME NEW t \in {Game, Render, Handler}, NEW len \in Lengths, StartLog(t, len) PROVE LogInv'
  BY <1>3, StartLogKeeps, GuiAssumption
<1>4. CASE InitActorPlacementInfo \/ LogReport
  BY <1>3, <1>4 DEF InitActorPlacementInfo, LogReport, Log
<1>5. ASSUME NEW t \in Loggers, LogOn(t) \/ Report(t) PROVE LogInv'
  <2>1. CASE LogOn(t)
    BY <2>1, TestRoomKeeps, PopFrontKeeps, PushBackKeeps, WriteLineKeeps DEF LogOn, LogStep
  <2>2. CASE Report(t)
    BY <1>1, <2>2, SkipStoreKeeps, WalkKeeps DEF Report, Crash
  <2> QED BY <1>5, <2>1, <2>2
<1>6. CASE Draw
  <2>1. CASE DrawLog
    BY <2>1, WalkKeeps DEF DrawLog, WalkStep
  <2>2. CASE DrawHeapViewer
    BY <1>1, <1>3, <2>2 DEF DrawHeapViewer
  <2>3. ASSUME NEW w \in Windows, Skip(w) PROVE LogInv'
    BY <1>1, <2>3 DEF Skip
  <2> QED BY <1>1, <1>6, <2>1, <2>2, <2>3 DEF Draw, DrawDbgGui, DrawMenuBar, DrawActorBrowser, DrawMemoryEditor
<1>7. CASE CreateFileDeviceMgr \/ UseFiles \/ GameFrameworkInitialize \/ Play \/ ShowReport \/ GiveUp
  BY <1>1, <1>7 DEF CreateFileDeviceMgr, UseFiles, GameFrameworkInitialize, Play, ShowReport, GiveUp
<1>8. CASE UNCHANGED vars
  BY <1>1, <1>8 DEF vars
<1> QED BY <1>2, <1>4, <1>5, <1>6, <1>7, <1>8 DEF Next

(* Whatever the threads of the game do while a frame is drawn, in any      *)
(* order, and whichever lines the heap refuses: a walk that no log         *)
(* function runs beside shows whole lines only and faults at nothing but   *)
(* the null of a refused one; the list of actors has living ones only,     *)
(* each once, unless a destructor is under way, and the walk over it meets *)
(* a dead one only then (Log::draw, ActorBrowser::draw).                   *)
THEOREM FrameIsSound == Spec => []FrameSound
<1>1. Init => LogInv /\ BrowserInv
  BY LogStarts, BrowserStarts DEF Init
<1>2. LogInv /\ BrowserInv => FrameSound
  BY ListedIs DEF FrameSound, WalkSound, LogInv, WalkInv
<1> QED BY <1>1, <1>2, NextKeepsLog, NextKeepsBrowser, PTL DEF Spec

-----------------------------------------------------------------------------
(* The log's heap.                                                         *)

(* The bytes lines of given lengths take.                                  *)
Taken(L, ids) == UNION {{id} \X (1..Cost[L[id].len]) : id \in ids}

LEMMA LineTaken ==
  ASSUME NEW L, NEW id, L[id].len \in Lengths
  PROVE  /\ IsFiniteSet(Taken(L, {id})) /\ Cardinality(Taken(L, {id})) = Cost[L[id].len]
<1> DEFINE n == Cost[L[id].len]
<1>1. n \in Nat /\ n >= 1
  <2>1. L[id].len \in Nat /\ Cost[L[id].len] \in Nat /\ Cost[L[id].len] >= L[id].len + Terminators
    BY LogAssumption
  <2> QED BY <2>1 DEF Terminators
<1>2. Taken(L, {id}) = {id} \X (1..n)
  BY DEF Taken
<1>3. IsFiniteSet({id}) /\ Cardinality({id}) = 1
  BY FS_Singleton
<1> HIDE DEF n
<1>4. IsFiniteSet(1..n) /\ Cardinality(1..n) = n
  BY <1>1, FS_Interval
<1>5. IsFiniteSet({id} \X (1..n)) /\ Cardinality({id} \X (1..n)) = Cardinality({id}) * Cardinality(1..n)
  BY <1>3, <1>4, FS_Product
<1>6. Cardinality({id} \X (1..n)) = n
  BY <1>1, <1>3, <1>4, <1>5
<1> QED BY <1>2, <1>5, <1>6 DEF n

LEMMA TakenApart ==
  ASSUME NEW S, NEW T, IsFiniteSet(S), IsFiniteSet(T), S \cap T = {}
  PROVE  IsFiniteSet(S \cup T) /\ Cardinality(S \cup T) = Cardinality(S) + Cardinality(T)
<1>1. /\ IsFiniteSet(S \cup T)
      /\ Cardinality(S \cup T) = Cardinality(S) + Cardinality(T) - Cardinality(S \cap T)
  BY FS_Union
<1>2. Cardinality(S \cap T) = 0
  BY FS_EmptySet
<1>3. Cardinality(S) \in Nat /\ Cardinality(T) \in Nat
  BY FS_CardinalityType
<1> QED BY <1>1, <1>2, <1>3

(* A line more.                                                            *)
LEMMA LineAdded ==
  ASSUME NEW L, NEW ids, NEW id, id \notin ids, L[id].len \in Lengths, IsFiniteSet(Taken(L, ids))
  PROVE  /\ IsFiniteSet(Taken(L, ids \cup {id}))
         /\ Cardinality(Taken(L, ids \cup {id})) = Cardinality(Taken(L, ids)) + Cost[L[id].len]
<1>1. Taken(L, ids \cup {id}) = Taken(L, ids) \cup Taken(L, {id})
  BY DEF Taken
<1>2. Taken(L, ids) \cap Taken(L, {id}) = {}
  BY DEF Taken
<1>3. /\ IsFiniteSet(Taken(L, {id})) /\ Cardinality(Taken(L, {id})) = Cost[L[id].len]
  BY LineTaken
<1>4. /\ IsFiniteSet(Taken(L, ids) \cup Taken(L, {id}))
      /\ Cardinality(Taken(L, ids) \cup Taken(L, {id})) =
           Cardinality(Taken(L, ids)) + Cardinality(Taken(L, {id}))
  BY <1>2, <1>3, TakenApart
<1> QED BY <1>1, <1>3, <1>4

(* Fewer lines take some of the bytes.                                     *)
LEMMA FewerLines ==
  ASSUME NEW L, NEW ids, NEW some \in SUBSET ids, IsFiniteSet(Taken(L, ids))
  PROVE  IsFiniteSet(Taken(L, some)) /\ Cardinality(Taken(L, some)) \in Nat
<1>1. Taken(L, some) \in SUBSET Taken(L, ids)
  BY DEF Taken
<1>2. IsFiniteSet(Taken(L, some))
  BY <1>1, FS_Subset
<1> QED BY <1>2, FS_CardinalityType

(* Only the lengths of lines count, and they stay what they were.          *)
LEMMA SameBytes ==
  ASSUME NEW L, NEW M, NEW ids, \A id \in ids : M[id].len = L[id].len
  PROVE  Taken(M, ids) = Taken(L, ids)
<1>1. \A id \in ids : {id} \X (1..Cost[M[id].len]) = {id} \X (1..Cost[L[id].len])
  OBVIOUS
<1> QED BY <1>1 DEF Taken

(* What the heap has is what no line holds, and it is short of the margin  *)
(* by no more than lines that have yet to make up for themselves.          *)
Unfreed == {id \in DOMAIN line : line[id].state \in {"taken", "written"}}
Flying == InFlight \cap Unfreed

HeapInv ==
  /\ IsFiniteSet(Taken(line, Unfreed))
  /\ free = LogSize - Cardinality(Taken(line, Unfreed))
  /\ free + Cardinality(Taken(line, Flying)) >= Margin
  /\ size <= LineMax
  /\ \A f \in failed : Cost[f.len] + f.held > Margin

LEMMA HeapStarts == LogInit => HeapInv
<1> SUFFICES ASSUME LogInit PROVE HeapInv
  OBVIOUS
<1>1. Unfreed = {} /\ Flying = {}
  BY DEF LogInit, Unfreed, Flying
<1>3. IsFiniteSet({}) /\ Cardinality({}) = 0
  BY FS_EmptySet
<1>4. free = LogSize /\ size = 0 /\ failed = {} /\ LogSize \in Nat /\ LogSize >= Margin /\ Margin \in Nat
  BY LogAssumption DEF LogInit
<1>5. Cardinality(Taken(line, Unfreed)) = 0 /\ Cardinality(Taken(line, Flying)) = 0
  <2>1. Taken(line, Unfreed) = {} /\ Taken(line, Flying) = {}
    BY <1>1 DEF Taken
  <2> QED BY <1>3, <2>1
<1>6. IsFiniteSet(Taken(line, Unfreed))
  BY <1>1, <1>3 DEF Taken
<1> QED BY <1>4, <1>5, <1>6, LogAssumption DEF HeapInv

LEMMA UnfreedIs ==
  ASSUME LogInv
  PROVE  Flying \subseteq Unfreed /\ \A id \in DOMAIN line : line[id].len \in Lengths
<1>1. line \in Seq(Line)
  BY DEF LogInv, LogTypeOK
<1>2. \A id \in DOMAIN line : line[id] \in Line
  BY <1>1
<1> QED BY <1>2 DEF Line, Flying

LEMMA CostIs == ASSUME NEW len \in Lengths PROVE Cost[len] \in Nat
  BY LogAssumption

(* What was refused or freed takes nothing.                                *)
LEMMA BytesAre ==
  ASSUME NEW ids \in SUBSET DOMAIN line
  PROVE  SizeOf(ids) = Cardinality(Taken(line, ids \cap Unfreed))
<1>1. \A id \in ids : id \in Unfreed => Weight(id) = Cost[line[id].len]
  BY DEF Weight, Unfreed
<1>2. \A id \in ids : id \notin Unfreed => {id} \X (1..Weight(id)) = {}
  <2> SUFFICES ASSUME NEW id \in ids, id \notin Unfreed PROVE {id} \X (1..Weight(id)) = {}
    OBVIOUS
  <2>1. Weight(id) = 0 /\ 1..0 = {}
    BY DEF Weight, Unfreed
  <2> QED BY <2>1
<1>3. BytesOf(ids) = Taken(line, ids \cap Unfreed)
  BY <1>1, <1>2 DEF BytesOf, Taken
<1> QED BY <1>3 DEF SizeOf

(* A line the heap grants.                                                 *)
LEMMA GrantKeepsHeap ==
  ASSUME LogInv, HeapInv, NEW t \in Loggers, NEW len \in Lengths, logging[t] = Quiet,
         Asks(t, len, "taken", "test"), free' = free - Cost[len], UNCHANGED <<size, failed>>
  PROVE  HeapInv'
<1> DEFINE new == Len(line) + 1
<1>0. /\ line \in Seq(Line) /\ Len(line) \in Nat /\ logging \in [Loggers -> Task]
      /\ LogSize \in Nat /\ Margin \in Nat /\ Cost[len] \in Nat
  BY LogAssumption, CostIs DEF LogInv, LogTypeOK
<1>1. logging[t].pc = "out"
  BY DEF Quiet
<1>2. /\ IsFiniteSet(Taken(line, Flying)) /\ Cardinality(Taken(line, Flying)) \in Nat
      /\ Cardinality(Taken(line, Unfreed)) \in Nat
  BY UnfreedIs, FewerLines DEF HeapInv
<1>3. /\ line' = Append(line, [len |-> len, state |-> "taken"])
      /\ logging' = [logging EXCEPT ![t] = [pc |-> "test", id |-> new, len |-> len]]
  BY DEF Asks
<1>4. /\ DOMAIN line = 1..Len(line) /\ DOMAIN line' = 1..new
      /\ line'[new] = [len |-> len, state |-> "taken"]
      /\ \A id \in DOMAIN line : line'[id] = line[id]
  BY <1>0, <1>3
<1>5. line'[new].len = len /\ line'[new].state = "taken" /\ new \notin DOMAIN line
  BY <1>0, <1>4
<1>6. Unfreed' = Unfreed \cup {new}
  BY <1>0, <1>4, <1>5 DEF Unfreed
<1>7. InFlight' = InFlight \cup {new}
  BY <1>0, <1>1, <1>3 DEF InFlight, Evicting
<1>8. new \notin Unfreed /\ new \notin Flying /\ Flying \subseteq Unfreed
  BY <1>5, UnfreedIs DEF Unfreed
<1>9. Flying' = Flying \cup {new}
  <2>1. InFlight \subseteq DOMAIN line
    BY <1>4 DEF InFlight, Evicting, LogInv, TakenInv
  <2> QED BY <1>5, <1>6, <1>7, <2>1 DEF Flying
<1>a. /\ Taken(line', Unfreed) = Taken(line, Unfreed)
      /\ Taken(line', Flying) = Taken(line, Flying)
  BY <1>4, <1>8, SameBytes DEF Unfreed
<1> HIDE DEF new
<1>b. /\ IsFiniteSet(Taken(line', Unfreed \cup {new}))
      /\ Cardinality(Taken(line', Unfreed \cup {new})) = Cardinality(Taken(line, Unfreed)) + Cost[len]
  BY <1>0, <1>5, <1>8, <1>a, LineAdded DEF HeapInv
<1>c. Cardinality(Taken(line', Flying \cup {new})) = Cardinality(Taken(line, Flying)) + Cost[len]
  BY <1>0, <1>2, <1>5, <1>8, <1>a, LineAdded
<1> QED BY <1>0, <1>2, <1>6, <1>9, <1>b, <1>c, SMTT(30) DEF HeapInv

(* One that it refuses.                                                    *)
LEMMA RefusalKeepsHeap ==
  ASSUME LogInv, HeapInv, NEW t \in Loggers, NEW len \in Lengths, logging[t] = Quiet,
         Asks(t, len, "null", "fault"), UNCHANGED <<free, size>>,
         failed' = IF Cost[len] <= free THEN failed ELSE failed \cup {[len |-> len, held |-> SizeOf(InFlight)]}
  PROVE  HeapInv'
<1> DEFINE new == Len(line) + 1
<1>0. /\ line \in Seq(Line) /\ Len(line) \in Nat /\ logging \in [Loggers -> Task]
      /\ LogSize \in Nat /\ Margin \in Nat /\ Cost[len] \in Nat
  BY LogAssumption, CostIs DEF LogInv, LogTypeOK
<1>1. /\ line' = Append(line, [len |-> len, state |-> "null"])
      /\ logging' = [logging EXCEPT ![t] = [pc |-> "fault", id |-> new, len |-> len]]
  BY DEF Asks
<1>2. /\ DOMAIN line = 1..Len(line) /\ DOMAIN line' = 1..new /\ new \notin DOMAIN line
      /\ line'[new].state = "null"
      /\ \A id \in DOMAIN line : line'[id] = line[id]
  BY <1>0, <1>1
<1>3. Unfreed' = Unfreed
  BY <1>0, <1>2 DEF Unfreed
<1>4. InFlight' = InFlight
  BY <1>0, <1>1 DEF InFlight, Evicting, Quiet
<1>5. Flying' = Flying
  BY <1>3, <1>4 DEF Flying
<1>6. /\ Taken(line', Unfreed) = Taken(line, Unfreed)
      /\ Taken(line', Flying) = Taken(line, Flying)
  BY <1>2, UnfreedIs, SameBytes DEF Unfreed
<1>7. /\ Cardinality(Taken(line, Flying)) \in Nat /\ Cardinality(Taken(line, Unfreed)) \in Nat
  BY UnfreedIs, FewerLines DEF HeapInv
<1>8. SizeOf(InFlight) = Cardinality(Taken(line, Flying))
  <2>1. InFlight \subseteq DOMAIN line
    BY <1>2 DEF InFlight, Evicting, LogInv, TakenInv
  <2> QED BY <2>1, BytesAre DEF Flying
<1>9. ~(Cost[len] <= free) => Cost[len] + SizeOf(InFlight) > Margin
  BY <1>0, <1>7, <1>8 DEF HeapInv
<1>a. \A f \in failed' : Cost[f.len] + f.held > Margin
  BY <1>9 DEF HeapInv
<1> QED BY <1>3, <1>5, <1>6, <1>a DEF HeapInv

LEMMA StartLogKeepsHeap ==
  ASSUME LogInv, HeapInv, NEW t \in Loggers, NEW len \in Lengths, StartLog(t, len)
  PROVE  HeapInv'
<1>1. logging[t] = Quiet /\ UNCHANGED size
  BY DEF StartLog
<1>2. CASE free' = free - Cost[len] /\ Asks(t, len, "taken", "test") /\ UNCHANGED failed
  BY <1>1, <1>2, GrantKeepsHeap
<1>3. CASE /\ Asks(t, len, "null", "fault") /\ UNCHANGED free
           /\ failed' = IF Cost[len] <= free THEN failed ELSE failed \cup {[len |-> len, held |-> SizeOf(InFlight)]}
  BY <1>1, <1>3, RefusalKeepsHeap
<1> QED BY <1>2, <1>3 DEF StartLog

LEMMA HeapStays == ASSUME HeapInv, UNCHANGED <<free, size, line, logging, failed>> PROVE HeapInv'
  BY DEF HeapInv, Unfreed, Flying, InFlight

(* The lines stay, and with them what their bytes are.                     *)
LEMMA HeapFollows ==
  ASSUME HeapInv, UNCHANGED <<free, line, failed>>, size' <= LineMax, Flying' = Flying
  PROVE  HeapInv'
  BY DEF HeapInv, Unfreed

LEMMA TestRoomKeepsHeap ==
  ASSUME LogInv, HeapInv, NEW t \in Loggers, TestRoom(t)
  PROVE  HeapInv'
<1>0. /\ size \in Nat /\ LogSize \in Nat /\ Margin \in Nat /\ LineMax \in Nat
      /\ logging \in [Loggers -> Task] /\ logging[t] \in Task /\ logging[t].len \in Nat
  BY LogAssumption DEF LogInv, LogTypeOK, Task
<1>1. /\ UNCHANGED <<free, line, failed, size>> /\ logging[t].pc = "test"
      /\ logging' = [logging EXCEPT ![t].pc = IF NeedsRoom(logging[t].len) THEN "pop" ELSE "push"]
  BY DEF TestRoom
<1>2. Unfreed' = Unfreed
  BY <1>1 DEF Unfreed
<1>3. CASE NeedsRoom(logging[t].len)
  <2>1. InFlight' = InFlight
    BY <1>0, <1>1, <1>3 DEF InFlight, Evicting, Task
  <2> QED BY <1>1, <1>2, <2>1, HeapFollows DEF Flying, HeapInv
<1>4. CASE ~NeedsRoom(logging[t].len)
  <2>1. free \in Int /\ free >= logging[t].len + Margin
    <3>1. free \in Int
      BY <1>0, FewerLines DEF HeapInv
    <3> QED BY <1>0, <1>4, <3>1 DEF NeedsRoom
  <2>2. Flying' \in SUBSET Unfreed
    BY <1>2 DEF Flying
  <2>3. Cardinality(Taken(line, Flying')) \in Nat
    BY <2>2, FewerLines DEF HeapInv
  <2> QED BY <1>0, <1>1, <1>2, <2>1, <2>3 DEF HeapInv
<1> QED BY <1>3, <1>4

LEMMA SkipStoreKeepsHeap ==
  ASSUME LogInv, HeapInv, NEW t \in Loggers, SkipStore(t)
  PROVE  HeapInv'
<1>0. logging \in [Loggers -> Task] /\ logging[t] \in Task
  BY DEF LogInv, LogTypeOK
<1>1. /\ UNCHANGED <<free, line, failed, size>>
      /\ logging' = [logging EXCEPT ![t].pc = IF @ = "fault" THEN "test" ELSE "skipped"]
  BY DEF SkipStore
<1>2. logging[t].id \notin Unfreed /\ logging[t].pc \notin Evicting
  BY DEF SkipStore, Faults, LogInv, TakenInv, IsNull, Unfreed, Evicting
<1>3. \A u \in Loggers : u # t => logging'[u] = logging[u]
  BY <1>0, <1>1
<1>4. logging'[t].id = logging[t].id
  BY <1>0, <1>1 DEF Task
<1>5. \A id : id # logging[t].id => (id \in InFlight' <=> id \in InFlight)
  BY <1>2, <1>3, <1>4 DEF InFlight, Evicting
<1>6. Unfreed' = Unfreed
  BY <1>1 DEF Unfreed
<1>7. Flying' = Flying
  BY <1>2, <1>5, <1>6 DEF Flying
<1> QED BY <1>1, <1>7, HeapFollows DEF HeapInv

LEMMA PushBackKeepsHeap ==
  ASSUME LogInv, HeapInv, NEW t \in Loggers, PushBack(t)
  PROVE  HeapInv'
<1>0. size \in Nat /\ LineMax \in Nat /\ logging \in [Loggers -> Task] /\ logging[t] \in Task
  BY LogAssumption DEF LogInv, LogTypeOK
<1>1. /\ UNCHANGED <<free, line, failed>> /\ logging[t].pc = "push"
      /\ logging' = [logging EXCEPT ![t].pc = "write"] /\ size' <= LineMax
  BY <1>0 DEF PushBack, HeapInv
<1>2. InFlight' = InFlight
  BY <1>0, <1>1 DEF InFlight, Evicting, Task
<1> QED BY <1>1, <1>2, HeapFollows DEF Flying, Unfreed

(* The first line gives its bytes back.                                    *)
LEMMA FreedKeepsHeap ==
  ASSUME LogInv, HeapInv, NEW k \in Unfreed, k \notin InFlight, InFlight' = InFlight,
         line' = [line EXCEPT ![k].state = "freed"], free' = free + Cost[line[k].len],
         size' <= LineMax, UNCHANGED failed
  PROVE  HeapInv'
<1>0. line \in Seq(Line) /\ LogSize \in Nat /\ Margin \in Nat /\ DOMAIN line = 1..Len(line) /\ k \in 1..Len(line)
  BY LogAssumption DEF LogInv, LogTypeOK, Unfreed
<1>1. Became(line', line, k, "freed")
  BY <1>0, LineChanges DEF States
<1>2. /\ DOMAIN line' = DOMAIN line /\ \A id \in DOMAIN line : line'[id].len = line[id].len
      /\ line'[k].state = "freed" /\ \A id \in DOMAIN line : id # k => line'[id] = line[id]
  BY <1>0, <1>1 DEF Became
<1>3. Unfreed' = Unfreed \ {k}
  BY <1>2 DEF Unfreed
<1>4. Flying' = Flying /\ Flying \subseteq Unfreed /\ line[k].len \in Lengths
  <2>1. line[k].len \in Lengths /\ Flying \subseteq Unfreed
    BY <1>0, UnfreedIs
  <2> QED BY <1>3, <2>1 DEF Flying
<1>5. /\ Taken(line', Unfreed \ {k}) = Taken(line, Unfreed \ {k})
      /\ Taken(line', Flying) = Taken(line, Flying)
  <2>1. Unfreed \subseteq DOMAIN line
    BY DEF Unfreed
  <2>2. \A id \in Unfreed \ {k} : line'[id].len = line[id].len
    BY <1>2, <2>1
  <2>3. \A id \in Flying : line'[id].len = line[id].len
    BY <1>2, <1>4, <2>1
  <2> HIDE DEF Unfreed, Flying
  <2>4. Taken(line', Unfreed \ {k}) = Taken(line, Unfreed \ {k})
    BY ONLY <2>2, SameBytes
  <2>5. Taken(line', Flying) = Taken(line, Flying)
    BY ONLY <2>3, SameBytes
  <2> QED BY ONLY <2>4, <2>5
<1>6. IsFiniteSet(Taken(line, Unfreed \ {k})) /\ Cardinality(Taken(line, Unfreed \ {k})) \in Nat
  BY FewerLines DEF HeapInv
<1>7. /\ (Unfreed \ {k}) \cup {k} = Unfreed
      /\ Cardinality(Taken(line, (Unfreed \ {k}) \cup {k})) =
           Cardinality(Taken(line, Unfreed \ {k})) + Cost[line[k].len]
  BY <1>4, <1>6, LineAdded
<1>8. /\ Cardinality(Taken(line, Flying)) \in Nat /\ Cardinality(Taken(line, Unfreed)) \in Nat
      /\ Cost[line[k].len] \in Nat /\ free \in Int
  BY <1>0, <1>4, FewerLines, CostIs DEF HeapInv
<1>9. free' = LogSize - Cardinality(Taken(line', Unfreed'))
  <2>1. Cardinality(Taken(line', Unfreed')) = Cardinality(Taken(line, Unfreed \ {k}))
    BY <1>3, <1>5
  <2>2. Cardinality(Taken(line, Unfreed)) = Cardinality(Taken(line, Unfreed \ {k})) + Cost[line[k].len]
    BY <1>7
  <2>3. free = LogSize - Cardinality(Taken(line, Unfreed))
    BY DEF HeapInv
  <2> QED BY <1>0, <1>6, <1>8, <2>1, <2>2, <2>3
<1>a. free' + Cardinality(Taken(line', Flying')) >= Margin
  <2>1. Cardinality(Taken(line', Flying')) = Cardinality(Taken(line, Flying))
    BY <1>4, <1>5
  <2>2. free + Cardinality(Taken(line, Flying)) >= Margin
    BY DEF HeapInv
  <2> QED BY <1>0, <1>8, <2>1, <2>2
<1>b. IsFiniteSet(Taken(line', Unfreed'))
  BY <1>3, <1>5, <1>6
<1> QED BY <1>9, <1>a, <1>b DEF HeapInv

LEMMA PopFrontKeepsHeap ==
  ASSUME LogInv, HeapInv, NEW t \in Loggers, PopFront(t)
  PROVE  HeapInv'
<1> DEFINE k == slots[1]
<1>0. /\ line \in Seq(Line) /\ DOMAIN line = 1..Len(line) /\ size \in Nat /\ LineMax \in Nat
      /\ logging \in [Loggers -> Task] /\ logging[t] \in Task
  BY LogAssumption DEF LogInv, LogTypeOK
<1>1. UNCHANGED failed /\ InFlight' = InFlight
  BY <1>0 DEF PopFront, InFlight, Evicting, Task
<1>2. CASE size = 0
  <2>1. UNCHANGED <<free, line, size>>
    BY <1>2 DEF PopFront
  <2> QED BY <1>1, <2>1, HeapFollows DEF HeapInv, Flying, Unfreed
<1>3. CASE size # 0
  <2>1. /\ free' = free + Weight(k) /\ size' = size - 1 /\ size' <= LineMax /\ 1 \in 1..size
        /\ line' = [line EXCEPT ![k].state = IF @ = "null" THEN @ ELSE "freed"]
    BY <1>0, <1>3 DEF PopFront, HeapInv
  <2>2. k \in 1..Len(line) /\ line[k].state # "freed" /\ k \notin InFlight /\ line[k] \in Line
    BY <1>0, <2>1 DEF LogInv, ListedInv, TakenInv, Kept, InFlight, Evicting, Unlisted
  <2> HIDE DEF k
  <2>3. CASE line[k].state = "null"
    <3>1. line' = [line EXCEPT ![k].state = "null"] /\ Weight(k) = 0 /\ "null" \in States
      BY <2>1, <2>3 DEF Weight, States
    <3>2. Became(line', line, k, "null")
      BY <1>0, <2>2, <3>1, LineChanges
    <3>3. DOMAIN line' = DOMAIN line /\ \A id \in DOMAIN line : line'[id].state = line[id].state /\ line'[id].len = line[id].len
      BY <1>0, <2>3, <3>2 DEF Became
    <3>4. Unfreed' = Unfreed /\ Flying' = Flying
      BY <1>1, <3>3 DEF Unfreed, Flying
    <3>5. Taken(line', Unfreed) = Taken(line, Unfreed) /\ Taken(line', Flying) = Taken(line, Flying)
      BY <3>3, UnfreedIs, SameBytes DEF Unfreed
    <3>6. free \in Int
      BY FewerLines, LogAssumption DEF HeapInv
    <3>7. free' = free
      BY <2>1, <3>1, <3>6
    <3> QED BY <1>1, <2>1, <3>4, <3>5, <3>7 DEF HeapInv
  <2>4. CASE line[k].state # "null"
    <3>1. line' = [line EXCEPT ![k].state = "freed"]
      BY <2>1, <2>4
    <3>2. k \in Unfreed /\ Weight(k) = Cost[line[k].len]
      BY <1>0, <2>2, <2>4 DEF Unfreed, Weight, Line, States
    <3> QED BY <1>1, <2>1, <2>2, <3>1, <3>2, FreedKeepsHeap
  <2> QED BY <2>3, <2>4
<1> QED BY <1>2, <1>3

LEMMA WriteLineKeepsHeap ==
  ASSUME LogInv, HeapInv, NEW t \in Loggers, WriteLine(t)
  PROVE  HeapInv'
<1> DEFINE k == logging[t].id
<1>0. line \in Seq(Line) /\ DOMAIN line = 1..Len(line) /\ logging \in [Loggers -> Task]
  BY DEF LogInv, LogTypeOK
<1>1. /\ logging[t].pc \in {"write", "skipped"} /\ UNCHANGED <<free, size, failed>>
      /\ logging' = [logging EXCEPT ![t] = Quiet]
      /\ line' = [line EXCEPT ![k].state = IF @ = "taken" THEN "written" ELSE @]
  BY DEF WriteLine
<1>2. k \in 1..Len(line) /\ line[k] \in Line
  BY <1>0, <1>1 DEF LogInv, TakenInv
<1>3. InFlight' = InFlight
  BY <1>0, <1>1 DEF InFlight, Quiet, Evicting
<1> HIDE DEF k
<1>4. PICK s : s = IF line[k].state = "taken" THEN "written" ELSE line[k].state
  OBVIOUS
<1>5. s \in States /\ line' = [line EXCEPT ![k].state = s]
  BY <1>1, <1>2, <1>4 DEF States, Line
<1>6. Became(line', line, k, s)
  BY <1>0, <1>2, <1>5, LineChanges
<1>7. /\ DOMAIN line' = DOMAIN line
      /\ \A id \in DOMAIN line : line'[id].len = line[id].len /\ (id # k => line'[id] = line[id])
      /\ line'[k].state = s
  BY <1>0, <1>6 DEF Became
<1>8. Unfreed' = Unfreed /\ Flying' = Flying
  BY <1>3, <1>4, <1>7 DEF Unfreed, Flying
<1>9. Taken(line', Unfreed) = Taken(line, Unfreed) /\ Taken(line', Flying) = Taken(line, Flying)
  BY <1>7, UnfreedIs, SameBytes DEF Unfreed
<1> QED BY <1>1, <1>8, <1>9 DEF HeapInv

LEMMA NextKeepsHeap == LogInv /\ HeapInv /\ [Next]_vars => HeapInv'
<1> SUFFICES ASSUME LogInv, HeapInv, [Next]_vars PROVE HeapInv'
  OBVIOUS
<1>1. CASE UNCHANGED logVars
  BY <1>1, HeapStays DEF logVars
<1>2. CASE CreateRootHeap
  BY <1>2, HeapStays DEF CreateRootHeap, InitializeLog
<1>3. ASSUME NEW t \in {Game, Render, Handler}, NEW len \in Lengths, StartLog(t, len) PROVE HeapInv'
  BY <1>3, StartLogKeepsHeap, GuiAssumption
<1>4. CASE InitActorPlacementInfo \/ LogReport
  BY <1>3, <1>4 DEF InitActorPlacementInfo, LogReport, Log
<1>5. ASSUME NEW t \in Loggers, LogOn(t) \/ Report(t) PROVE HeapInv'
  <2>1. CASE LogOn(t)
    BY <2>1, TestRoomKeepsHeap, PopFrontKeepsHeap, PushBackKeepsHeap, WriteLineKeepsHeap DEF LogOn, LogStep
  <2>2. CASE Report(t)
    BY <1>1, <2>2, SkipStoreKeepsHeap, HeapStays DEF Report, Crash, ShowLine
  <2> QED BY <1>5, <2>1, <2>2
<1>6. CASE Draw
  <2>1. CASE DrawLog
    BY <2>1, HeapStays DEF DrawLog, BeginWalk, WalkStep, TakeLine, ShowLine
  <2>2. CASE DrawHeapViewer
    BY <1>1, <1>3, <2>2 DEF DrawHeapViewer
  <2>3. ASSUME NEW w \in Windows, Skip(w) PROVE HeapInv'
    BY <1>1, <2>3 DEF Skip
  <2> QED BY <1>1, <1>6, <2>1, <2>2, <2>3 DEF Draw, DrawDbgGui, DrawMenuBar, DrawActorBrowser, DrawMemoryEditor
<1>7. CASE CreateFileDeviceMgr \/ UseFiles \/ GameFrameworkInitialize \/ Play \/ ShowReport \/ GiveUp
  BY <1>1, <1>7 DEF CreateFileDeviceMgr, UseFiles, GameFrameworkInitialize, Play, ShowReport, GiveUp
<1>8. CASE UNCHANGED vars
  BY <1>1, <1>8 DEF vars
<1> QED BY <1>2, <1>4, <1>5, <1>6, <1>7, <1>8 DEF Next

(* As many lines are listed as the list has words in use.                  *)
LEMMA ListedOnce ==
  ASSUME LogInv
  PROVE  Cardinality(Listed) = size
<1> DEFINE f == [i \in 1..size |-> slots[i]]
<1>1. size \in Nat
  BY DEF LogInv, LogTypeOK
<1>2. f \in Surjection(1..size, Listed)
  BY DEF Surjection, Listed
<1>3. f \in Injection(1..size, Listed)
  BY <1>2 DEF Surjection, Injection, IsInjective, LogInv, ListedInv
<1>4. IsFiniteSet(1..size) /\ Cardinality(1..size) = size
  BY <1>1, FS_Interval
<1> HIDE DEF f
<1> QED BY <1>2, <1>3, <1>4, FS_Surjection

(* Whatever threads log, in any order of their steps, with lines of any    *)
(* lengths and costs, and whichever of them the heap refuses: each byte of *)
(* the heap is free or of one line, nothing is listed twice or after it    *)
(* was freed, the nulls that refusals leave are listed and popped without  *)
(* harm to either, and only lines that other threads have taken and not    *)
(* yet made up for deny a short one its bytes (addLog).                    *)
THEOREM LogIsKept == Spec => []LogKept
<1>1. Init => LogInv /\ HeapInv
  BY LogStarts, HeapStarts DEF Init
<1>2. LogInv /\ HeapInv => LogKept
  <2> SUFFICES ASSUME LogInv, HeapInv PROVE LogKept
    OBVIOUS
  <2>1. SizeOf(DOMAIN line) = Cardinality(Taken(line, Unfreed))
    <3>1. DOMAIN line \cap Unfreed = Unfreed
      BY DEF Unfreed
    <3> QED BY <3>1, BytesAre
  <2>2. \A id \in Listed : line[id].state # "freed"
    BY DEF Listed, LogInv, ListedInv, Kept
  <2> QED BY <2>1, <2>2, ListedOnce DEF LogKept, LogInv, LogTypeOK, HeapInv
<1> QED BY <1>1, <1>2, NextKeepsLog, NextKeepsHeap, PTL DEF Spec

-----------------------------------------------------------------------------
(* The files.                                                              *)

Ops   == {"out", "redirect", "write", "load", "size"}
Steps == {"none", "first", "create", "open", "write", "read", "empty", "close"}
OpType == [pc : Ops, path : Paths \cup {"none"}, step : Steps, wrong : SUBSET Wrongs]

FsTypeOK ==
  /\ card \in [Paths -> Int] /\ before \in [Paths -> Int]
  /\ uses \in Nat /\ mounted \in BOOLEAN
  /\ op \in OpType
  /\ op # NoOp => op.path \in Paths

(* An operation under way has no result yet, and has touched its own file  *)
(* only; what it found to be there still is.                               *)
UnderWay ==
  /\ result = Nothing /\ op.pc # "out"
  /\ \A p \in Paths : card[p] # before[p] => p = op.path /\ op.pc = "write"
  /\ op.pc = "load" /\ op.step \in {"read", "close"} => card[op.path] # Absent
  /\ op.step = "empty" => "call" \in op.wrong
  /\ op.pc = "write" /\ op.step = "close" => card[op.path] = uses + 1

(* The only handle besides those of torn writes is the operation's own.    *)
OwnHandle == IF op.step \in {"write", "read", "empty", "close"} THEN {uses} ELSE {}

FsInv ==
  /\ FsTypeOK
  /\ op # NoOp => UnderWay
  /\ result.what = "aborted" \/ handles \subseteq torn \cup OwnHandle
  /\ FilesSound

(* Until the card was to be mounted nobody asked for a file.               *)
FilesIdle == started \in {"no", "heap"} => op = NoOp /\ result = Nothing

LEMMA FsStarts == Init => FsInv /\ FilesIdle
<1> SUFFICES ASSUME Init PROVE FsInv /\ FilesIdle
  OBVIOUS
<1>1. card \in [Paths -> Int]
  BY DEF Init, FsInit, Absent
<1>2. op = NoOp /\ result = Nothing /\ before = card /\ uses = 0 /\ mounted = FALSE /\ handles = {}
  BY DEF Init, FsInit
<1>3. NoOp \in OpType
  BY DEF NoOp, OpType, Ops, Steps
<1>4. FilesSound
  BY <1>1, <1>2 DEF FilesSound, Nothing
<1> QED BY <1>1, <1>2, <1>3, <1>4 DEF FsInv, FsTypeOK, FilesIdle

LEMMA MountKeeps == ASSUME FsInv, MountSdCard, result = Nothing PROVE FsInv'
<1>1. op = NoOp /\ mounted' \in BOOLEAN /\ UNCHANGED <<card, handles, op, uses, result, before, torn>>
  BY DEF MountSdCard
<1>2. FilesSound'
  BY <1>1 DEF FilesSound, FsInv, Nothing
<1>3. FsTypeOK'
  BY <1>1 DEF FsInv, FsTypeOK
<1> QED BY <1>1, <1>2, <1>3 DEF FsInv, OwnHandle

LEMMA MountsOnce == ASSUME FsInv, MountOnce PROVE mounted' \in BOOLEAN
  BY DEF MountOnce, FsInv, FsTypeOK

(* An operation begins: every file is as it was before it.                 *)
LEMMA BeginKeeps ==
  ASSUME FsInv, NEW what \in {"redirect", "write", "load", "size"}, NEW p \in Paths, Begin(what, p),
         UNCHANGED <<card, handles, torn>>, mounted' \in BOOLEAN
  PROVE  FsInv'
<1>1. op = NoOp /\ result.what # "aborted" /\ uses' = uses + 1 /\ before' = card /\ result' = Nothing
      /\ op' = [pc |-> what, path |-> p, step |-> "first", wrong |-> {}]
  BY DEF Begin
<1>2. op'.pc = what /\ op'.path = p /\ op'.step = "first" /\ op' # NoOp /\ op' \in OpType
  BY <1>1 DEF NoOp, OpType, Ops, Steps
<1>3. FsTypeOK'
  BY <1>1, <1>2 DEF FsInv, FsTypeOK
<1>4. UnderWay'
  BY <1>1, <1>2 DEF UnderWay
<1>5. OwnHandle = {}
  BY <1>1 DEF OwnHandle, NoOp
<1>6. handles' \subseteq torn' \cup OwnHandle'
  BY <1>1, <1>5 DEF FsInv
<1>7. FilesSound'
  BY <1>2 DEF FilesSound
<1> QED BY <1>3, <1>4, <1>6, <1>7 DEF FsInv

(* A step inside an operation.                                             *)
LEMMA OnWithIt ==
  ASSUME FsInv, op # NoOp, NEW step \in Steps, NEW wrong \in SUBSET Wrongs, Then(step, wrong),
         UNCHANGED <<uses, before>>, mounted' \in BOOLEAN,
         card' \in [Paths -> Int], handles' \subseteq torn' \cup OwnHandle',
         \A p \in Paths : card'[p] # card[p] => p = op.path /\ op.pc = "write",
         op.pc = "load" /\ step \in {"read", "close"} => card'[op.path] # Absent,
         step = "empty" => "call" \in wrong,
         op.pc = "write" /\ step = "close" => card'[op.path] = uses + 1
  PROVE  FsInv'
<1>1. op' = [op EXCEPT !.step = step, !.wrong = op.wrong \cup wrong] /\ result' = result /\ op \in OpType
  BY DEF FsInv, FsTypeOK, Then, Also
<1>2. op'.pc = op.pc /\ op'.path = op.path /\ op'.step = step /\ op'.wrong = op.wrong \cup wrong /\ op' \in OpType
  BY <1>1 DEF OpType
<1>3. op.pc # "out" /\ op.path \in Paths
  BY DEF FsInv, UnderWay, FsTypeOK
<1>4. op' # NoOp
  BY <1>2, <1>3 DEF NoOp
<1>5. FsTypeOK'
  BY <1>2, <1>3, <1>4 DEF FsInv, FsTypeOK
<1>6. UnderWay'
  BY <1>1, <1>2, <1>3 DEF FsInv, UnderWay, FsTypeOK
<1>7. FilesSound'
  BY <1>4 DEF FilesSound
<1> QED BY <1>4, <1>5, <1>6, <1>7 DEF FsInv

(* The end of an operation.                                                *)
LEMMA EndKeeps ==
  ASSUME FsInv, op # NoOp, NEW what, NEW version, NEW wrong, Ends(what, version, wrong),
         UNCHANGED <<card, uses, before>>, mounted' \in BOOLEAN,
         what = "aborted" \/ handles' \subseteq torn',
         op.pc = "write" => what \in Writes,
         what = "written" => version = uses + 1,
         what \in {"copy", "loaded"} => version = card[op.path] /\ version # Absent,
         \/ what \in {"none", "written", "copy", "loaded", "measured"}
         \/ what \in Missed /\ ~(mounted' /\ card[op.path] # Absent)
         \/ "call" \in wrong \cup op.wrong
  PROVE  FsInv'
<1>1. op' = NoOp /\ result' = [what |-> what, path |-> op.path, version |-> version, wrong |-> op.wrong \cup wrong]
  BY DEF Ends, Also
<1>2. result'.what = what /\ result'.path = op.path /\ result'.version = version /\ result'.wrong = op.wrong \cup wrong
  BY <1>1
<1>3. op.path \in Paths /\ NoOp \in OpType
  BY DEF FsInv, FsTypeOK, NoOp, OpType, Ops, Steps
<1>4. FsTypeOK'
  BY <1>1, <1>3 DEF FsInv, FsTypeOK
<1>5. \A p \in Paths : card'[p] # before'[p] => p = op.path /\ what \in Writes
  BY DEF FsInv, UnderWay
<1>6. FilesSound'
  BY <1>2, <1>5 DEF FilesSound, Present
<1>7. what = "aborted" \/ handles' \subseteq torn' \cup OwnHandle'
  OBVIOUS
<1> QED BY <1>1, <1>2, <1>4, <1>6, <1>7 DEF FsInv

(* The end at a call that fails.                                           *)
LEMMA FailKeeps ==
  ASSUME FsInv, op # NoOp, NEW what, Fails(what),
         UNCHANGED <<card, uses, before>>, mounted' \in BOOLEAN,
         what = "aborted" \/ handles' \subseteq torn',
         op.pc = "write" => what \in Writes, what \notin {"written", "copy", "loaded"}
  PROVE  FsInv'
  BY EndKeeps DEF Fails

LEMMA BeginsKeep ==
  ASSUME FsInv, NEW p \in Paths, Redirect(p) \/ WriteFile(p) \/ LoadFile(p) \/ GetFileSize(p)
  PROVE  FsInv'
<1>1. CASE Redirect(p)
  <2>1. Begin("redirect", p) /\ UNCHANGED <<card, handles, torn>> /\ mounted' \in BOOLEAN
    BY <1>1, MountsOnce DEF Redirect
  <2> QED BY <2>1, BeginKeeps
<1>2. CASE WriteFile(p)
  BY <1>2, BeginKeeps DEF WriteFile, FsInv, FsTypeOK
<1>3. CASE LoadFile(p)
  BY <1>3, BeginKeeps DEF LoadFile, FsInv, FsTypeOK
<1>4. CASE GetFileSize(p)
  BY <1>4, BeginKeeps DEF GetFileSize, FsInv, FsTypeOK
<1> QED BY <1>1, <1>2, <1>3, <1>4

LEMMA UnderWayIs ==
  ASSUME FsInv, op.pc # "out"
  PROVE  /\ op # NoOp /\ UnderWay
         /\ op.path \in Paths /\ card[op.path] \in Int
         /\ handles \subseteq torn \cup OwnHandle
         /\ card \in [Paths -> Int] /\ mounted \in BOOLEAN
<1>1. op # NoOp
  BY DEF NoOp
<1>2. UnderWay /\ op.path \in Paths
  BY <1>1 DEF FsInv, FsTypeOK
<1>3. card[op.path] \in Int /\ card \in [Paths -> Int] /\ mounted \in BOOLEAN
  BY <1>2 DEF FsInv, FsTypeOK
<1>4. result.what # "aborted"
  BY <1>2 DEF UnderWay, Nothing
<1> QED BY <1>1, <1>2, <1>3, <1>4 DEF FsInv

(* The step an operation goes to.                                          *)
LEMMA ThenAt ==
  ASSUME FsInv, NEW step, NEW wrong, Then(step, wrong)
  PROVE  op'.step = step
  BY DEF FsInv, FsTypeOK, OpType, Then

LEMMA OpenKeeps ==
  ASSUME FsInv, NEW next \in {"write", "read", "close"}, Open(next), op.pc # "out", op.step \in {"first", "open"},
         mounted' \in BOOLEAN, UNCHANGED <<card, uses, before, torn>>,
         op.pc = "load" => card[op.path] # Absent, op.pc = "write" => next # "close"
  PROVE  FsInv'
<1>1. /\ op # NoOp /\ op.path \in Paths /\ handles \subseteq torn \cup OwnHandle /\ card \in [Paths -> Int]
  BY UnderWayIs
<1>2. OwnHandle = {} /\ op'.step = next /\ Then(next, {}) /\ handles' = handles \cup {uses}
  BY ThenAt DEF OwnHandle, Open
<1>3. handles' \subseteq torn' \cup OwnHandle'
  BY <1>1, <1>2 DEF OwnHandle
<1>4. next \in Steps /\ {} \in SUBSET Wrongs
  BY DEF Steps
<1> QED BY <1>1, <1>2, <1>3, <1>4, OnWithIt

(* What looking for a file comes to.                                       *)
LEMMA LooksIs ==
  ASSUME NEW p, NEW seen \in BOOLEAN, NEW isFile \in BOOLEAN, Looks(p, seen, isFile)
  PROVE  /\ WrongOf(p, seen, isFile) \in SUBSET Wrongs
         /\ ~isFile => ~Present(p) \/ "call" \in WrongOf(p, seen, isFile)
  BY DEF Looks, WrongOf, Wrongs

LEMMA DeleteOldKeeps ==
  ASSUME FsInv, NEW seen \in BOOLEAN, NEW isFile \in BOOLEAN, DeleteOld(seen, isFile)
  PROVE  FsInv'
<1>1. Goes("write", "first") /\ UNCHANGED <<mounted, once, handles, uses, before, torn>>
  BY DEF DeleteOld
<1>2. op.pc = "write" /\ op.pc # "out" /\ op.step = "first" /\ Looks(op.path, seen, isFile)
  BY <1>1 DEF Goes, DeleteOld
<1>3. /\ op # NoOp /\ op.path \in Paths /\ handles \subseteq torn /\ card \in [Paths -> Int] /\ mounted \in BOOLEAN
  BY <1>2, UnderWayIs DEF OwnHandle
<1>4. PICK wrong \in SUBSET Wrongs : Then("create", wrong)
  <2>1. WrongOf(op.path, seen, isFile) \in SUBSET Wrongs
    BY <1>2, LooksIs
  <2>2. WrongOf(op.path, seen, isFile) \cup {"call"} \in SUBSET Wrongs
    BY <2>1 DEF Wrongs
  <2> QED BY <2>1, <2>2 DEF DeleteOld
<1>5. card' \in [Paths -> Int] /\ \A p \in Paths : card'[p] # card[p] => p = op.path
  BY <1>3 DEF DeleteOld, Absent
<1>6. "create" \in Steps /\ handles' \subseteq torn' \cup OwnHandle'
  BY <1>1, <1>3 DEF Steps
<1> QED BY <1>1, <1>2, <1>3, <1>4, <1>5, <1>6, OnWithIt

LEMMA WritesKeep ==
  ASSUME FsInv, CreateFile \/ OpenWritten \/ WriteContents \/ CloseWritten
  PROVE  FsInv'
<1>0. {} \in SUBSET Wrongs /\ {"open", "close"} \subseteq Steps
  BY DEF Steps
<1>1. CASE CreateFile
  <2>1. op.pc = "write" /\ op.step = "create" /\ UNCHANGED <<mounted, once, handles, uses, before, torn>>
    BY <1>1 DEF CreateFile, Goes
  <2>2. op # NoOp /\ op.path \in Paths /\ handles \subseteq torn /\ card \in [Paths -> Int] /\ mounted \in BOOLEAN
    BY <2>1, UnderWayIs DEF OwnHandle
  <2>3. CASE card' = [card EXCEPT ![op.path] = 0] /\ Then("open", {})
    <3>1. card' \in [Paths -> Int] /\ \A p \in Paths : card'[p] # card[p] => p = op.path
      BY <2>2, <2>3
    <3>2. handles' \subseteq torn' \cup OwnHandle'
      BY <2>1, <2>2
    <3> QED BY <1>0, <2>1, <2>2, <2>3, <3>1, <3>2, OnWithIt
  <2>4. CASE Fails("not_created") /\ UNCHANGED card
    BY <2>1, <2>2, <2>4, FailKeeps DEF Writes
  <2> QED BY <1>1, <2>3, <2>4 DEF CreateFile
<1>2. CASE OpenWritten
  <2>1. op.pc = "write" /\ op.step = "open" /\ UNCHANGED <<card, uses, before, torn>> /\ mounted' \in BOOLEAN
    BY <1>2, MountsOnce DEF OpenWritten, Goes
  <2>2. op # NoOp /\ handles \subseteq torn
    BY <2>1, UnderWayIs DEF OwnHandle
  <2>3. CASE Open("write")
    BY <2>1, <2>3, OpenKeeps
  <2>4. CASE Unopened("not_opened")
    BY <2>1, <2>2, <2>4, FailKeeps DEF Unopened, Writes
  <2> QED BY <1>2, <2>3, <2>4 DEF OpenWritten
<1>3. CASE WriteContents
  <2>1. op.pc = "write" /\ op.step = "write" /\ UNCHANGED <<mounted, once, handles, uses, before>>
    BY <1>3 DEF WriteContents, Goes
  <2>2. /\ op # NoOp /\ op.path \in Paths /\ handles \subseteq torn \cup {uses} /\ card \in [Paths -> Int]
        /\ mounted \in BOOLEAN /\ uses \in Nat
    BY <2>1, UnderWayIs DEF OwnHandle, FsInv, FsTypeOK
  <2>3. CASE card' = [card EXCEPT ![op.path] = uses + 1] /\ Then("close", {}) /\ UNCHANGED torn
    <3>1. /\ card' \in [Paths -> Int] /\ card'[op.path] = uses + 1
          /\ \A p \in Paths : card'[p] # card[p] => p = op.path
      BY <2>2, <2>3
    <3>2. op'.step = "close"
      BY <2>3, ThenAt
    <3>3. handles' \subseteq torn' \cup OwnHandle'
      BY <2>1, <2>2, <2>3, <3>2 DEF OwnHandle
    <3> QED BY <1>0, <2>1, <2>2, <2>3, <3>1, <3>3, OnWithIt
  <2>4. CASE Fails("not_written") /\ torn' = torn \cup {uses} /\ UNCHANGED card
    BY <2>1, <2>2, <2>4, FailKeeps DEF Writes
  <2> QED BY <1>3, <2>3, <2>4 DEF WriteContents
<1>4. CASE CloseWritten
  <2>1. /\ op.pc = "write" /\ op.step = "close" /\ handles' = handles \ {uses} /\ Ends("written", card[op.path], {})
        /\ UNCHANGED <<mounted, once, card, uses, before, torn>>
    BY <1>4 DEF CloseWritten, Close, Goes
  <2>2. /\ op # NoOp /\ handles \subseteq torn \cup {uses} /\ mounted \in BOOLEAN
        /\ card[op.path] \in Int /\ card[op.path] = uses + 1
    BY <2>1, UnderWayIs DEF OwnHandle, UnderWay
  <2> QED BY <2>1, <2>2, EndKeeps DEF Writes
<1> QED BY <1>1, <1>2, <1>3, <1>4

LEMMA LooksKeep ==
  ASSUME FsInv, NEW seen \in BOOLEAN, NEW isFile \in BOOLEAN,
         OpenRedirected(seen, isFile) \/ FindFile(seen, isFile)
  PROVE  FsInv'
<1> DEFINE wrong == WrongOf(op.path, seen, isFile)
<1>1. /\ op.pc \in {"redirect", "load"} /\ op.step = "first" /\ Looks(op.path, seen, isFile)
      /\ UNCHANGED <<mounted, once, card, handles, uses, before, torn>>
  BY DEF OpenRedirected, FindFile, Goes
<1>2. /\ op # NoOp /\ op.path \in Paths /\ handles \subseteq torn /\ card \in [Paths -> Int] /\ mounted \in BOOLEAN
      /\ card[op.path] \in Int
  BY <1>1, UnderWayIs DEF OwnHandle
<1>3. wrong \in SUBSET Wrongs /\ (~isFile => ~(mounted' /\ card[op.path] # Absent) \/ "call" \in wrong)
  BY <1>1, LooksIs DEF Present
<1> HIDE DEF wrong
<1>4. CASE isFile /\ Present(op.path) /\ Ends("copy", card[op.path], wrong)
  BY <1>1, <1>2, <1>4, EndKeeps DEF Present
<1>5. CASE ~isFile /\ Ends("original", Absent, wrong)
  BY <1>1, <1>2, <1>3, <1>5, EndKeeps DEF Missed
<1>6. CASE Ends("failed", Absent, wrong \cup {"call"})
  BY <1>1, <1>2, <1>6, EndKeeps
<1>7. CASE op.pc = "load" /\ isFile /\ Then("open", wrong)
  <2>1. "open" \in Steps /\ handles' \subseteq torn' \cup OwnHandle'
    BY <1>1, <1>2 DEF Steps
  <2> QED BY <1>1, <1>2, <1>3, <1>7, <2>1, OnWithIt
<1>8. CASE ~isFile /\ Ends("aborted", Absent, wrong)
  BY <1>1, <1>2, <1>3, <1>8, EndKeeps DEF Missed
<1> QED BY <1>4, <1>5, <1>6, <1>7, <1>8 DEF OpenRedirected, FindFile, Goes, wrong

LEMMA ReadsKeep ==
  ASSUME FsInv, OpenLoaded \/ ReadContents \/ CloseLoaded \/ OpenMeasured \/ CloseMeasured
  PROVE  FsInv'
<1>0. {} \in SUBSET Wrongs /\ {"call"} \in SUBSET Wrongs /\ {"empty", "close"} \subseteq Steps
  BY DEF Steps, Wrongs
<1>1. CASE OpenLoaded
  <2>1. op.pc = "load" /\ op.step = "open" /\ UNCHANGED <<card, uses, before, torn>> /\ mounted' \in BOOLEAN
    BY <1>1, MountsOnce DEF OpenLoaded, Goes
  <2>2. op # NoOp /\ handles \subseteq torn
    BY <2>1, UnderWayIs DEF OwnHandle
  <2>3. CASE card[op.path] # Absent /\ Open("read")
    BY <2>1, <2>3, OpenKeeps
  <2>4. CASE Unopened("aborted")
    BY <2>1, <2>2, <2>4, FailKeeps DEF Unopened
  <2> QED BY <1>1, <2>3, <2>4 DEF OpenLoaded
<1>2. CASE ReadContents
  <2>1. op.pc = "load" /\ op.step = "read" /\ UNCHANGED <<mounted, once, card, handles, uses, before, torn>>
    BY <1>2 DEF ReadContents, Goes
  <2>2. /\ op # NoOp /\ op.path \in Paths /\ handles \subseteq torn \cup {uses} /\ card \in [Paths -> Int]
        /\ mounted \in BOOLEAN /\ card[op.path] # Absent
    BY <2>1, UnderWayIs DEF OwnHandle, UnderWay
  <2>3. ASSUME NEW step \in {"close", "empty"}, NEW wrong \in SUBSET Wrongs, Then(step, wrong),
               step = "empty" => "call" \in wrong
        PROVE  FsInv'
    <3>1. op'.step = step
      BY <2>3, ThenAt
    <3>2. handles' \subseteq torn' \cup OwnHandle'
      BY <2>1, <2>2, <3>1 DEF OwnHandle
    <3>3. step \in Steps
      BY DEF Steps
    <3> QED BY <2>1, <2>2, <2>3, <3>2, <3>3, OnWithIt
  <2>4. CASE Fails("aborted")
    BY <2>1, <2>2, <2>4, FailKeeps
  <2> QED BY <1>0, <1>2, <2>3, <2>4 DEF ReadContents
<1>3. CASE CloseLoaded
  <2>1. /\ op.pc = "load" /\ op.step \in {"close", "empty"} /\ handles' = handles \ {uses}
        /\ UNCHANGED <<mounted, once, card, uses, before, torn>>
    BY <1>3 DEF CloseLoaded, Close, Goes
  <2>2. /\ op # NoOp /\ handles \subseteq torn \cup {uses} /\ mounted \in BOOLEAN /\ UnderWay
    BY <2>1, UnderWayIs DEF OwnHandle
  <2>3. CASE op.step = "close" /\ Ends("loaded", card[op.path], {})
    <3>1. card[op.path] # Absent
      BY <2>1, <2>2, <2>3 DEF UnderWay
    <3> QED BY <2>1, <2>2, <2>3, <3>1, EndKeeps
  <2>4. CASE op.step = "empty" /\ Ends("empty", Absent, {})
    <3>1. "call" \in op.wrong
      BY <2>2, <2>4 DEF UnderWay
    <3> QED BY <2>1, <2>2, <2>4, <3>1, EndKeeps
  <2> QED BY <1>3, <2>3, <2>4 DEF CloseLoaded, Goes
<1>4. CASE OpenMeasured
  <2>1. op.pc = "size" /\ op.step = "first" /\ UNCHANGED <<card, uses, before, torn>> /\ mounted' \in BOOLEAN
    BY <1>4, MountsOnce DEF OpenMeasured, Goes
  <2>2. op # NoOp /\ handles \subseteq torn
    BY <2>1, UnderWayIs DEF OwnHandle
  <2>3. CASE Open("close")
    BY <2>1, <2>3, OpenKeeps
  <2>4. CASE /\ Ends("unknown", Absent, IF mounted' /\ card[op.path] # Absent THEN {"call"} ELSE {})
             /\ UNCHANGED handles
    <3>1. CASE mounted' /\ card[op.path] # Absent
      BY <2>1, <2>2, <2>4, <3>1, EndKeeps
    <3>2. CASE ~(mounted' /\ card[op.path] # Absent)
      BY <2>1, <2>2, <2>4, <3>2, EndKeeps DEF Missed
    <3> QED BY <3>1, <3>2
  <2> QED BY <1>4, <2>3, <2>4 DEF OpenMeasured
<1>5. CASE CloseMeasured
  <2>1. /\ op.pc = "size" /\ op.step = "close" /\ handles' = handles \ {uses}
        /\ UNCHANGED <<mounted, once, card, uses, before, torn>>
    BY <1>5 DEF CloseMeasured, Close, Goes
  <2>2. op # NoOp /\ handles \subseteq torn \cup {uses} /\ mounted \in BOOLEAN
    BY <2>1, UnderWayIs DEF OwnHandle
  <2>3. CASE Ends("measured", card[op.path], {})
    BY <2>1, <2>2, <2>3, EndKeeps
  <2>4. CASE Fails("unknown")
    BY <2>1, <2>2, <2>4, FailKeeps
  <2> QED BY <1>5, <2>3, <2>4 DEF CloseMeasured
<1> QED BY <1>1, <1>2, <1>3, <1>4, <1>5

LEMMA FsStays == ASSUME FsInv, UNCHANGED fsVars PROVE FsInv'
<1>1. UNCHANGED <<mounted, once, card, handles, op, uses, result, before, torn>>
  BY DEF fsVars
<1> QED BY <1>1 DEF FsInv, FsTypeOK, UnderWay, OwnHandle, FilesSound, Present

LEMMA NextKeepsFiles == FsInv /\ FilesIdle /\ [Next]_vars => FsInv' /\ FilesIdle'
<1> SUFFICES ASSUME FsInv, FilesIdle, [Next]_vars PROVE FsInv' /\ FilesIdle'
  OBVIOUS
<1>1. CASE UNCHANGED fsVars /\ (started' \in {"no", "heap"} => started \in {"no", "heap"})
  <2>1. UNCHANGED <<op, result>>
    BY <1>1 DEF fsVars
  <2> QED BY <1>1, <2>1, FsStays DEF FilesIdle
<1>2. CASE CreateFileDeviceMgr
  BY <1>2, MountKeeps DEF CreateFileDeviceMgr, FilesIdle
<1>3. CASE UseFiles
  <2>1. FilesIdle'
    BY <1>3 DEF UseFiles, FilesIdle
  <2> QED BY <1>3, <2>1, BeginsKeep, DeleteOldKeeps, WritesKeep, LooksKeep, ReadsKeep DEF UseFiles, FsStep
<1>4. CASE Draw
  <2>1. UNCHANGED fsVars /\ UNCHANGED started
    <3>1. ASSUME NEW w \in Windows, Skip(w) PROVE Idle
      BY <3>1 DEF Skip
    <3>2. Idle
      BY <1>4, <3>1
         DEF Draw, DrawDbgGui, DrawMenuBar, DrawLog, DrawHeapViewer, DrawActorBrowser, DrawMemoryEditor
    <3> QED BY <3>2 DEF Idle
  <2> QED BY <1>1, <2>1
<1>5. CASE CreateRootHeap \/ GameFrameworkInitialize \/ InitActorPlacementInfo \/ Play
  BY <1>1, <1>5 DEF CreateRootHeap, GameFrameworkInitialize, InitActorPlacementInfo, Log, Play
<1>6. CASE LogReport \/ ShowReport \/ GiveUp
  BY <1>1, <1>6 DEF LogReport, Log, ShowReport, GiveUp
<1>7. ASSUME NEW t \in Loggers, LogOn(t) \/ Report(t) PROVE FsInv' /\ FilesIdle'
  BY <1>1, <1>7 DEF LogOn, Report
<1>8. CASE UNCHANGED vars
  BY <1>1, <1>8 DEF vars
<1> QED BY <1>2, <1>3, <1>4, <1>5, <1>6, <1>7, <1>8 DEF Next

(* Whatever calls of the system fail, the mounts, the openings, the        *)
(* deletions and the reads of a size among them, in whatever order files   *)
(* are written, loaded, measured and redirected: handles are closed but    *)
(* for torn writes and aborts, no other file is touched, what an operation *)
(* says of its file is so, and one beside which nothing failed does what   *)
(* it is for unless the file is not there (fsHelper.cpp, FSHacks.cpp).     *)
THEOREM FilesAreSound == Spec => []FilesSound
<1>1. FsInv => FilesSound
  BY DEF FsInv
<1> QED BY <1>1, FsStarts, NextKeepsFiles, PTL DEF Spec

=============================================================================
