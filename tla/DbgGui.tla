------------------------------- MODULE DbgGui -------------------------------
(***************************************************************************)
(* The debug windows, from the hooks of program/main.cpp that make them to *)
(* a frame of pe/DbgGui/DbgGui.cpp: CreateRootHeap makes the heap and the  *)
(* log (PeepaLog), CreateFileDeviceMgr mounts the card (FsHelper),         *)
(* GameFrameworkInitialize makes DbgGui with the list of actors            *)
(* (ActorBrowser) and an exception handler that logs a report, shows the   *)
(* log and lets the thread go on behind the instruction that faulted.      *)
(*                                                                         *)
(* The drawing thread draws the windows one after another; a Goto in one   *)
(* of them leaves an address for the memory editor.  What a player presses *)
(* is any of the possible.                                                 *)
(* Faulty variants next to definitions are for TLC only.                   *)
(***************************************************************************)
EXTENDS PeepaLog, ActorBrowser, FsHelper

CONSTANTS
  Game, Render,  \* the two threads that log
  Handler,       \* the exception handler, which logs on the thread that faulted
  Nobody,
  Addresses,     \* what a Goto may ask for
  NoAddress

ASSUME GuiAssumption ==
  /\ {Game, Render, Handler} \subseteq Loggers /\ Handler \notin {Game, Render}
  /\ Nobody \notin Loggers /\ NoAddress \notin Addresses

VARIABLES
  started,    \* how far the game's start is, or "gone": the process was given up
  reported,   \* the thread whose fault the handler is reporting
  task,       \* what the game's thread does; bound: it logs or it plays
  shown,      \* the windows that are shown, of mSharedData
  hideGui,
  goto,       \* memoryEditorGotoAddr
  asked,      \* the address of the last Goto
  viewed,     \* the address the memory editor went to last
  frame,      \* the window that is drawn next
  collapsed   \* whether the memory editor's Begin returned false in the last frame drawn

guiVars == <<task, shown, hideGui, goto, asked, viewed, frame, collapsed>>
vars == <<logVars, browserVars, fsVars, started, reported, guiVars>>

Windows == {"log", "heap", "browser", "editor"}

Init ==
  /\ LogInit /\ BrowserInit /\ FsInit
  /\ started = "no" /\ reported = Nobody /\ task \in {"log", "play"}
  /\ shown = {"log"} /\ hideGui = TRUE
  /\ goto = NoAddress /\ asked = NoAddress /\ viewed = NoAddress
  /\ frame = "out" /\ collapsed = FALSE

-----------------------------------------------------------------------------
(* The start, on the game's thread.                                        *)

CreateRootHeap ==
  /\ started = "no" /\ started' = "heap" /\ InitializeLog
  /\ UNCHANGED <<browserVars, fsVars, reported, guiVars>>

CreateFileDeviceMgr ==
  /\ started = "heap" /\ started' = "files"
  /\ MountSdCard
  /\ UNCHANGED <<logVars, browserVars, reported, guiVars>>

(* Bound: the operations on files are taken before the windows are made,   *)
(* and those where the card is mounted and empty.                          *)
UseFiles ==
  /\ started = "files" /\ FsStep
  /\ UNCHANGED <<logVars, browserVars, started, reported, guiVars>>

FilesUntouched == op = NoOp /\ uses = 0 /\ mounted /\ \A p \in Paths : card[p] = Absent

GameFrameworkInitialize ==
  /\ started = "files" /\ FilesUntouched
  /\ \/ InstallHooks /\ UNCHANGED started
     \/ AllocBuffer /\ started' = "gui"
  /\ UNCHANGED <<logVars, fsVars, reported, guiVars>>

-----------------------------------------------------------------------------
(* The game's thread.                                                      *)

Log(t, len) ==
  /\ StartLog(t, len)
  /\ UNCHANGED <<browserVars, fsVars, started, reported, guiVars>>

InitActorPlacementInfo ==
  /\ task = "log" /\ started \in {"files", "gui"} /\ reported # Game
  /\ \E len \in Lengths : Log(Game, len)

LogOn(t) ==
  /\ reported # t /\ LogStep(t)
  /\ UNCHANGED <<browserVars, fsVars, started, reported, guiVars>>

Play ==
  /\ task = "play" /\ started # "no" /\ FilesUntouched
  /\ PushActor \/ Clear \/ (\E a \in Actors : Construct(a) \/ Destroy(a))
  /\ UNCHANGED <<logVars, fsVars, started, reported, guiVars>>

-----------------------------------------------------------------------------
(* Faults.  The handler skips the instruction, logs a report on the same   *)
(* thread, shows the log and all windows, and the thread goes on: one at a *)
(* store through a null line, the drawing thread at the read of one, the   *)
(* game's thread anywhere.  Before there is a handler, and at a fault      *)
(* while another is reported, the process is given up.                     *)

Crash == task = "log" /\ logging[Game] = Quiet /\ UNCHANGED logVars

Report(t) ==
  /\ started = "gui" /\ reported = Nobody /\ reported' = t
  /\ SkipStore(t) \/ (t = Game /\ Crash) \/ (t = Render /\ ReadsNull /\ ShowLine)
  /\ UNCHANGED <<browserVars, fsVars, started, guiVars>>

LogReport == reported # Nobody /\ \E len \in Lengths : Log(Handler, len)

ShowReport ==
  /\ reported # Nobody /\ logging[Handler] = Quiet /\ reported' = Nobody
  /\ shown' = shown \cup {"log"} /\ hideGui' = FALSE
  /\ UNCHANGED <<logVars, browserVars, fsVars, started, task, goto, asked, viewed, frame, collapsed>>

GiveUp ==
  /\ started # "gui" \/ reported # Nobody
  /\ ReadsNull \/ \E t \in Loggers : Faults(t)
  /\ started' = "gone"
  /\ UNCHANGED <<logVars, browserVars, fsVars, reported, guiVars>>

-----------------------------------------------------------------------------
(* A frame.                                                                *)

WindowAfterEditorFirst == [menu |-> "log", log |-> "heap", heap |-> "editor", editor |-> "browser", browser |-> "out"]
WindowAfter == [menu |-> "log", log |-> "heap", heap |-> "browser", browser |-> "editor", editor |-> "out"]
NextWindow == frame' = WindowAfter[frame]

Drawing(window) == frame = window /\ logging[Render] = Quiet /\ reported # Render
Idle == UNCHANGED <<fsVars, started, reported, task>>

(* ZR and Plus turn the windows on and off; without an instance, nothing.  *)
DrawDbgGui ==
  /\ Drawing("out") /\ started = "gui"
  /\ \E pressed \in BOOLEAN :
       /\ hideGui' = (hideGui # pressed)
       /\ frame' = IF hideGui' THEN "out" ELSE "menu"
  /\ collapsed' = (collapsed /\ hideGui')
  /\ UNCHANGED <<logVars, browserVars, shown, goto, asked, viewed>> /\ Idle

(* Bound: the other windows stay as they are while the game's thread logs. *)
Toggled == IF task = "log" THEN {"log", "heap"} ELSE Windows

DrawMenuBar ==
  /\ Drawing("menu") /\ NextWindow
  /\ \/ UNCHANGED shown
     \/ \E w \in Toggled : shown' = IF w \in shown THEN shown \ {w} ELSE shown \cup {w}
  /\ UNCHANGED <<logVars, browserVars, hideGui, goto, asked, viewed, collapsed>> /\ Idle

(* A window that is not shown, or is collapsed, is passed over; the cross  *)
(* in its corner hides it from the next frame on.                          *)
Skip(w) ==
  /\ Drawing(w) /\ walk.pc = "out" /\ browse.pc = "out" /\ NextWindow
  /\ collapsed' = (collapsed \/ (w = "editor" /\ w \in shown))
  /\ UNCHANGED <<logVars, browserVars, shown, hideGui, goto, asked, viewed>> /\ Idle

Cross(w) == shown' \in {shown, shown \ {w}}

DrawLog ==
  /\ Drawing("log")
  /\ \/ walk.pc = "out" /\ "log" \in shown /\ BeginWalk /\ Cross("log") /\ UNCHANGED frame
     \/ WalkStep /\ UNCHANGED shown /\ IF walk'.pc = "out" THEN NextWindow ELSE UNCHANGED frame
  /\ UNCHANGED <<browserVars, hideGui, goto, asked, viewed, collapsed>> /\ Idle

Ask(a) == goto' = a /\ asked' = a /\ shown' = shown \cup {"editor"}

(* showHeap: the Goto of a heap is logged too.  Bound: once only while the *)
(* game's thread makes and destroys actors.                                *)
DrawHeapViewer ==
  /\ Drawing("heap") /\ "heap" \in shown /\ NextWindow
  /\ \/ Cross("heap") /\ UNCHANGED <<logVars, goto, asked>>
     \/ /\ task = "play" => line = <<>>
        /\ \E a \in Addresses, len \in Lengths : Ask(a) /\ StartLog(Render, len)
  /\ UNCHANGED <<browserVars, hideGui, viewed, collapsed>> /\ Idle

DrawActorBrowser ==
  /\ Drawing("browser")
  /\ \/ /\ browse.pc = "out" /\ "browser" \in shown /\ BeginBrowse /\ Cross("browser")
        /\ UNCHANGED <<frame, goto, asked>>
     \/ /\ TakeActor /\ UNCHANGED <<goto, asked, shown>>
        /\ IF browse'.pc = "out" THEN NextWindow ELSE UNCHANGED frame
     \/ /\ ShowActor /\ UNCHANGED frame
        /\ UNCHANGED <<goto, asked, shown>> \/ (\E a \in Addresses : Ask(a))
  /\ UNCHANGED <<logVars, hideGui, viewed, collapsed>> /\ Idle

DrawMemoryEditor ==
  /\ Drawing("editor") /\ "editor" \in shown /\ NextWindow
  /\ IF goto # NoAddress THEN viewed' = goto /\ goto' = NoAddress ELSE UNCHANGED <<viewed, goto>>
  /\ Cross("editor")
  /\ UNCHANGED <<logVars, browserVars, hideGui, asked, collapsed>> /\ Idle

Draw ==
  \/ DrawDbgGui \/ DrawMenuBar \/ (\E w \in Windows : Skip(w))
  \/ DrawLog \/ DrawHeapViewer \/ DrawActorBrowser \/ DrawMemoryEditor

Next ==
  /\ started # "gone"
  /\ \/ CreateRootHeap \/ CreateFileDeviceMgr \/ UseFiles \/ GameFrameworkInitialize
     \/ InitActorPlacementInfo \/ Play \/ (\E t \in Loggers : LogOn(t))
     \/ (\E t \in Loggers : Report(t)) \/ LogReport \/ ShowReport \/ GiveUp
     \/ Draw

Spec == Init /\ [][Next]_vars

-----------------------------------------------------------------------------
(* What a frame shows exists: the lines and the actors it reads, but for   *)
(* the null of a refused line, at which it faults.                         *)
FrameSound == WalkSound /\ ActorsListed

(* A Goto is served in its frame, by a memory editor that it opened, and   *)
(* waits only for one that is collapsed or was closed; of several the last *)
(* one is served.                                                          *)
GotoServed ==
  frame = "out" =>
    IF goto = NoAddress THEN viewed = asked
    ELSE goto = asked /\ (collapsed \/ "editor" \notin shown)
=============================================================================
