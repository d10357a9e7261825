------------------------------- MODULE Input --------------------------------
(***************************************************************************)
(* What the GUI and the game see of the pads, the keyboard and the mouse:  *)
(* helpers/InputHelper.cpp, the input part of imgui_backend's newFrame,    *)
(* and the five hooks of nn::hid in program/imgui_nvn.cpp.                 *)
(*                                                                         *)
(* The render thread samples everything once a frame and tells ImGui what  *)
(* changed since the frame before.  It reads the pads through the function *)
(* that the hooks substitute, as the game does; two flags without a lock   *)
(* tell the hook whether to blank what it returns.                         *)
(*                                                                         *)
(* The five hooks differ in the style of pad they are for, and a mouse     *)
(* button is told to ImGui as a key is: Buttons are those of the pad that  *)
(* is looked at, Keys are keys and mouse buttons.  Positions of sticks and *)
(* of the mouse are left out.  hid (external) may report anything at any   *)
(* time.                                                                   *)
(*                                                                         *)
(* Next to some definitions stands a faulty variant that no action uses:   *)
(* TLC is given it in place of the definition, to see that a property      *)
(* fails then.                                                             *)
(***************************************************************************)
EXTENDS Naturals

CONSTANTS
  Buttons,   \* of a pad
  Keys,      \* of the keyboard and the mouse
  Readers    \* threads of the game that read pads

VARIABLES
  controller,   \* InputHelper's current and previous pad, and what hid gave
  keyboard,     \* its current and previous keys
  isReadInput,
  toggleInput,
  frame,        \* where the render thread is in newFrame
  told,         \* what ImGui was told is down
  reader,       \* per reader, its call of the hooked function
  updated       \* history: a newFrame has ended

inputVars == <<controller, keyboard, isReadInput, toggleInput, frame, told, reader, updated>>

NoRead == [pc |-> "game", blanked |-> FALSE, early |-> FALSE]

InputInit ==
  /\ controller = [now |-> {}, before |-> {}, given |-> {}]
  /\ keyboard = [now |-> {}, before |-> {}]
  /\ isReadInput = TRUE /\ toggleInput = TRUE
  /\ frame = "out"
  /\ told = {}
  /\ reader = [r \in Readers |-> NoRead]
  /\ updated = FALSE

-----------------------------------------------------------------------------
(* disableButtons: whether a pad that was read is cleared.                 *)

BlanksEither == ~isReadInput \/ toggleInput
Blanks == ~isReadInput /\ toggleInput

(* newFrame: InputHelper::updatePadState, then updateInput.                *)

UpdatePadState ==
  /\ frame = "out"
  /\ controller' = [controller EXCEPT !.before = controller.now]
  /\ isReadInput' = TRUE
  /\ frame' = "pad"
  /\ UNCHANGED <<keyboard, toggleInput, told, reader, updated>>

(* GetNpadState of the style found, through the hook; without a pad of any *)
(* style the state stays what it was.                                      *)
ReadPad ==
  /\ frame = "pad"
  /\ \/ \E pad \in SUBSET Buttons :
          controller' = [controller EXCEPT !.given = pad, !.now = IF Blanks THEN {} ELSE pad]
     \/ UNCHANGED controller
  /\ frame' = "read"
  /\ UNCHANGED <<keyboard, isReadInput, toggleInput, told, reader, updated>>

EndRead ==
  /\ frame = "read"
  /\ isReadInput' = FALSE
  /\ frame' = "keys"
  /\ UNCHANGED <<controller, keyboard, toggleInput, told, reader, updated>>

SampledOver(keys) == [now |-> keys, before |-> keys]
Sampled(keys) == [now |-> keys, before |-> keyboard.now]

ReadKeys ==
  /\ frame = "keys"
  /\ \E keys \in SUBSET Keys : keyboard' = Sampled(keys)
  /\ frame' = "toggle"
  /\ UNCHANGED <<controller, isReadInput, toggleInput, told, reader, updated>>

ToggleKept == toggleInput
ToggleCleared == FALSE

ClearToggle ==
  /\ frame = "toggle"
  /\ toggleInput' = ToggleCleared
  /\ frame' = "events"
  /\ UNCHANGED <<controller, keyboard, isReadInput, told, reader, updated>>

(* AddKeyEvent and AddMouseButtonEvent, of presses and releases; of the    *)
(* pad's only while input is toggled.                                      *)
Pressed(s)  == s.now \ s.before
Released(s) == s.before \ s.now
Told(s, down) == (down \cup Pressed(s)) \ Released(s)
ToldAll == IF toggleInput THEN Told(controller, Told(keyboard, told)) ELSE Told(keyboard, told)

SendEvents ==
  /\ frame = "events"
  /\ told' = ToldAll
  /\ frame' = "out"
  /\ updated' = TRUE
  /\ UNCHANGED <<controller, keyboard, isReadInput, toggleInput, reader>>

FrameStep == ReadPad \/ EndRead \/ ReadKeys \/ ClearToggle \/ SendEvents

-----------------------------------------------------------------------------
(* A hooked nn::hid function, called by the game: Orig first, then the two *)
(* tests of disableButtons.                                                *)

Read(r) ==
  /\ reader[r].pc = "game"
  /\ reader' = [reader EXCEPT ![r] =
       [pc |-> "asked", blanked |-> FALSE, early |-> ~updated]]
  /\ UNCHANGED <<controller, keyboard, isReadInput, toggleInput, frame, told, updated>>

TestRead(r) ==
  /\ reader[r].pc = "asked"
  /\ reader' = [reader EXCEPT ![r].pc = IF isReadInput THEN "has" ELSE "toggled"]
  /\ UNCHANGED <<controller, keyboard, isReadInput, toggleInput, frame, told, updated>>

TestToggle(r) ==
  /\ reader[r].pc = "toggled"
  /\ reader' = [reader EXCEPT ![r].pc = "has", ![r].blanked = toggleInput]
  /\ UNCHANGED <<controller, keyboard, isReadInput, toggleInput, frame, told, updated>>

ReadReturns(r) ==
  /\ reader[r].pc = "has"
  /\ reader' = [reader EXCEPT ![r] = NoRead]
  /\ UNCHANGED <<controller, keyboard, isReadInput, toggleInput, frame, told, updated>>

GameReads == \E r \in Readers : Read(r) \/ TestRead(r) \/ TestToggle(r) \/ ReadReturns(r)

-----------------------------------------------------------------------------
(* Properties.                                                             *)

InputTypeOK ==
  /\ controller \in [now: SUBSET Buttons, before: SUBSET Buttons, given: SUBSET Buttons]
  /\ keyboard \in [now: SUBSET Keys, before: SUBSET Keys]
  /\ isReadInput \in BOOLEAN /\ toggleInput \in BOOLEAN /\ updated \in BOOLEAN
  /\ frame \in {"out", "pad", "read", "keys", "toggle", "events"}
  /\ told \subseteq Keys \cup Buttons
  /\ reader \in [Readers -> [pc: {"game", "asked", "toggled", "has"}, blanked: BOOLEAN, early: BOOLEAN]]

(* Presses and releases add up: between frames ImGui holds exactly the     *)
(* keys down that the last sample had, however they changed in between.    *)
ImGuiInStep == frame = "out" => told = keyboard.now

(* The game gets the pads hid reports.  Only a read that began before the  *)
(* first update of the render thread ended may come back blank: between    *)
(* its two flags' stores the hook believes that the GUI has the input.     *)
PadsReachGame ==
  \A r \in Readers : reader[r].pc = "has" /\ reader[r].blanked => reader[r].early

(* The GUI's own read through the hook is never blanked.                   *)
OwnReadWhole == controller.now = controller.given

=============================================================================
