--------------------------- MODULE NvnGlueProofs -----------------------------
(* Theorems about NvnGlue and Input, for any number of threads, queues,    *)
(* command buffers, keys, buttons and readers.                             *)
EXTENDS NvnGlue, FiniteSetTheorems, TLAPS

USE DEF NeedsInit, Started, DrawsGui, Drawn, Blanks, ToggleCleared, Sampled

-----------------------------------------------------------------------------
(* Input.                                                                  *)

(* What ImGui was told lags a sample behind between ReadKeys and           *)
(* SendEvents; input is never toggled once an update ended, so that a read *)
(* that began then meets toggleInput FALSE.                                *)
InputInv ==
  /\ InputTypeOK
  /\ told = IF frame \in {"toggle", "events"} THEN keyboard.before ELSE keyboard.now
  /\ frame = "pad" => isReadInput
  /\ frame = "events" \/ updated => ~toggleInput
  /\ \A r \in Readers : reader[r].pc \in {"asked", "toggled"} =>
       ~reader[r].blanked /\ (~reader[r].early => ~toggleInput)
  /\ PadsReachGame
  /\ OwnReadWhole

LEMMA InputStart == InputInit => InputInv
<1> SUFFICES ASSUME InputInit PROVE InputInv
  OBVIOUS
<1>1. reader \in [Readers -> [pc: {"game", "asked", "toggled", "has"}, blanked: BOOLEAN, early: BOOLEAN]]
  BY DEF InputInit, NoRead
<1>2. \A r \in Readers : reader[r].pc = "game"
  BY DEF InputInit, NoRead
<1>3. controller.now = {} /\ controller.given = {} /\ keyboard.now = {}
  BY DEF InputInit
<1>4. InputTypeOK
  BY <1>1 DEF InputInit, InputTypeOK
<1> QED BY <1>2, <1>3, <1>4 DEF InputInit, InputInv, PadsReachGame, OwnReadWhole

LEMMA InputStays == InputInv /\ UNCHANGED inputVars => InputInv'
  BY DEF InputInv, InputTypeOK, inputVars, PadsReachGame, OwnReadWhole

(* The steps of the render thread leave the readers alone, and those of a  *)
(* reader everything else.                                                 *)
LEMMA FrameKeeps ==
  ASSUME InputInv, UpdatePadState \/ FrameStep
  PROVE  InputInv'
<1> USE DEF InputInv, InputTypeOK, PadsReachGame, OwnReadWhole
<1>1. CASE UpdatePadState
  BY <1>1 DEF UpdatePadState
<1>2. CASE ReadPad
  BY <1>2 DEF ReadPad
<1>3. CASE EndRead
  BY <1>3 DEF EndRead
<1>4. CASE ReadKeys
  BY <1>4 DEF ReadKeys
<1>5. CASE ClearToggle
  BY <1>5 DEF ClearToggle
<1>6. CASE SendEvents
  <2>1. told' = Told(keyboard, told) /\ told = keyboard.before
    BY <1>6 DEF SendEvents, ToldAll
  <2>2. told' = keyboard.now
    BY <2>1 DEF Told, Pressed, Released
  <2> QED BY <1>6, <2>2 DEF SendEvents
<1> QED BY <1>1, <1>2, <1>3, <1>4, <1>5, <1>6 DEF FrameStep

LEMMA ReadsKeep ==
  ASSUME InputInv, GameReads
  PROVE  InputInv'
<1> USE DEF InputInv, InputTypeOK, PadsReachGame, OwnReadWhole
<1> PICK r \in Readers : Read(r) \/ TestRead(r) \/ TestToggle(r) \/ ReadReturns(r)
  BY DEF GameReads
<1>1. CASE Read(r)
  BY <1>1 DEF Read
<1>2. CASE TestRead(r)
  <2>1. reader' \in [Readers -> [pc: {"game", "asked", "toggled", "has"}, blanked: BOOLEAN, early: BOOLEAN]]
    BY <1>2 DEF TestRead
  <2> QED BY <1>2, <2>1 DEF TestRead
<1>3. CASE TestToggle(r)
  <2>1. reader' \in [Readers -> [pc: {"game", "asked", "toggled", "has"}, blanked: BOOLEAN, early: BOOLEAN]]
    <3>1. /\ reader \in [Readers -> [pc: {"game", "asked", "toggled", "has"}, blanked: BOOLEAN, early: BOOLEAN]]
          /\ toggleInput \in BOOLEAN
      OBVIOUS
    <3>2. reader' = [reader EXCEPT ![r].pc = "has", ![r].blanked = toggleInput]
      BY <1>3 DEF TestToggle
    <3> QED BY ONLY <3>1, <3>2, r \in Readers
  <2>2. /\ \A s \in Readers \ {r} : reader'[s] = reader[s]
        /\ reader'[r].pc = "has" /\ reader'[r].blanked = toggleInput /\ reader'[r].early = reader[r].early
    BY <1>3 DEF TestToggle
  <2>3. toggleInput => reader[r].early
    BY <1>3 DEF TestToggle
  <2> QED BY <1>3, <2>1, <2>2, <2>3 DEF TestToggle
<1>4. CASE ReadReturns(r)
  <2>1. reader' \in [Readers -> [pc: {"game", "asked", "toggled", "has"}, blanked: BOOLEAN, early: BOOLEAN]]
    BY <1>4 DEF ReadReturns, NoRead
  <2> QED BY <1>4, <2>1 DEF ReadReturns, NoRead
<1> QED BY <1>1, <1>2, <1>3, <1>4

-----------------------------------------------------------------------------
(* A substitute, step by step.                                             *)

Presenting == {"present", "new", "frame", "render", "real"}
Pcs == {"game", "queue", "buffer", "test"} \cup Presenting \cup InitPcs
Attaching == {"context", "check", "attach"}
Behind == {"load", "input", "started"}

(* What a step of thread t does to where the threads are.                  *)
LEMMA GotoFacts ==
  ASSUME call \in [Threads -> [pc: Pcs, obj: Queues \cup Bufs \cup {Null}]],
         NEW t \in Threads, NEW p \in Pcs, Goto(t, p)
  PROVE  /\ call' \in [Threads -> [pc: Pcs, obj: Queues \cup Bufs \cup {Null}]]
         /\ call'[t].pc = p
         /\ \A u \in Threads \ {t} : call'[u] = call[u]
  BY DEF Goto

LEMMA CallFacts ==
  ASSUME NEW O, call \in [Threads -> [pc: Pcs, obj: O]], NEW t \in Threads, NEW p \in Pcs, NEW x \in O,
         call' = [call EXCEPT ![t] = [pc |-> p, obj |-> x]]
  PROVE  /\ call' \in [Threads -> [pc: Pcs, obj: O]]
         /\ call'[t].pc = p /\ call'[t].obj = x
         /\ \A u \in Threads \ {t} : call'[u] = call[u]
  OBVIOUS

(* The objects that the driver was asked for, whatever it answered.        *)
Known == ready \cup denied

(* The driver's functions come before its objects, and its objects, or its *)
(* refusal, before the handles; only the presenter presents, one at a time.*)
Captured ==
  /\ got \subseteq Bootstrap \cup Procs /\ temp = got
  /\ Known \subseteq {"device"} \cup Queues \cup Bufs
  /\ nvnDevice \in BOOLEAN /\ (nvnDevice => "device" \in Known)
  /\ nvnQueue \in (Queues \cap Known) \cup {Null}
  /\ nvnCmdBuf \in (Bufs \cap Known) \cup {Null}
  /\ call \in [Threads -> [pc: Pcs, obj: Queues \cup Bufs \cup {Null}]]
  /\ Known \cap (Queues \cup Bufs) # {} => Procs \subseteq got
  /\ \A t \in Threads :
       /\ call[t].pc # "game" => Procs \subseteq got
       /\ call[t].pc = "queue" => call[t].obj \in Queues \cap Known
       /\ call[t].pc = "buffer" => call[t].obj \in Bufs \cap Known
       /\ call[t].pc \in Presenting => t = Presenter /\ presented = 0
  /\ presented \in 0..1
  /\ overlapped \in BOOLEAN /\ due \in BOOLEAN

(* Whoever moves on inside a substitute keeps it.                          *)
LEMMA MoveKeepsCaptured ==
  ASSUME Captured, NEW t \in Threads, NEW p \in Pcs \ {"queue", "buffer"}, Goto(t, p),
         call[t].pc # "game",
         p \in Presenting => call[t].pc \in Presenting,
         UNCHANGED <<got, temp, ready, denied, nvnDevice, presented, due>>,
         nvnQueue' \in (Queues \cap Known) \cup {Null},
         nvnCmdBuf' \in (Bufs \cap Known) \cup {Null},
         overlapped' \in BOOLEAN
  PROVE  Captured'
<1>0. Known' = Known
  BY DEF Known
<1>1. /\ call' \in [Threads -> [pc: Pcs, obj: Queues \cup Bufs \cup {Null}]]
      /\ call'[t].pc = p
      /\ \A u \in Threads \ {t} : call'[u] = call[u]
  BY GotoFacts DEF Captured
<1>2. \A u \in Threads :
       /\ call'[u].pc # "game" => Procs \subseteq got
       /\ call'[u].pc = "queue" => call'[u].obj \in Queues \cap Known
       /\ call'[u].pc = "buffer" => call'[u].obj \in Bufs \cap Known
       /\ call'[u].pc \in Presenting => u = Presenter /\ presented = 0
  <2> TAKE u \in Threads
  <2>1. CASE u = t
    BY <1>0, <1>1, <2>1 DEF Captured
  <2>2. CASE u # t
    BY <1>0, <1>1, <2>2 DEF Captured
  <2> QED BY <2>1, <2>2
<1> QED BY <1>0, <1>1, <1>2 DEF Captured

LEMMA CallKeepsCaptured ==
  ASSUME Captured, NEW t \in Threads, NEW x \in Queues \cup Bufs \cup {Null}, NEW p \in {"queue", "buffer", "present"},
         call' = [call EXCEPT ![t] = [pc |-> p, obj |-> x]],
         Known \subseteq Known', Known' \subseteq {"device"} \cup Queues \cup Bufs, Procs \subseteq got,
         p = "queue" => x \in Queues \cap Known', p = "buffer" => x \in Bufs \cap Known',
         p = "present" => t = Presenter /\ presented' = 0,
         p # "present" => presented' = presented,
         UNCHANGED <<got, temp, nvnDevice, nvnQueue, nvnCmdBuf, overlapped>>, due' \in BOOLEAN
  PROVE  Captured'
<1>0. p \in Pcs
  BY DEF Pcs, Presenting
<1>1. /\ call' \in [Threads -> [pc: Pcs, obj: Queues \cup Bufs \cup {Null}]]
      /\ call'[t].pc = p /\ call'[t].obj = x
      /\ \A u \in Threads \ {t} : call'[u] = call[u]
  BY <1>0, CallFacts DEF Captured
<1>2. \A u \in Threads :
       /\ call'[u].pc = "queue" => call'[u].obj \in Queues \cap Known'
       /\ call'[u].pc = "buffer" => call'[u].obj \in Bufs \cap Known'
       /\ call'[u].pc \in Presenting => u = Presenter /\ presented' = 0
  <2> TAKE u \in Threads
  <2>1. CASE u = t
    BY <1>1, <2>1 DEF Captured, Presenting
  <2>2. CASE u # t
    BY <1>1, <2>2 DEF Captured
  <2> QED BY <2>1, <2>2
<1>3. presented' \in 0..1
  BY DEF Captured
<1> QED BY <1>1, <1>2, <1>3 DEF Captured

(* The steps inside InitImGui, and those of the render thread.             *)
LEMMA InitKeepsCaptured ==
  ASSUME Captured, NEW t \in Threads, InitStep(t)
  PROVE  Captured'
<1> USE DEF At, Captured, Known, glue, gui, Pcs, InitPcs, Presenting
<1>1. CASE CmdBufCapture(t)
  <2>1. Goto(t, "test") /\ nvnCmdBuf' \in (Bufs \cap Known) \cup {Null}
    BY <1>1 DEF CmdBufCapture
  <2> QED BY <1>1, <2>1, MoveKeepsCaptured DEF CmdBufCapture
<1>2. CASE TestInit(t)
  BY <1>2, MoveKeepsCaptured DEF TestInit
<1>3. CASE TestHandles(t)
  BY <1>3, MoveKeepsCaptured DEF TestHandles
<1>4. CASE Refused(t)
  BY <1>4, MoveKeepsCaptured DEF Refused
<1>5. CASE CreateContext(t)
  BY <1>5, MoveKeepsCaptured DEF CreateContext
<1>6. CASE CheckBackend(t)
  BY <1>6, MoveKeepsCaptured DEF CheckBackend, End
<1>7. CASE Attach(t)
  BY <1>7, MoveKeepsCaptured DEF Attach
<1>8. CASE Load(t)
  BY <1>8, MoveKeepsCaptured DEF Load, End
<1>9. CASE InitInput(t)
  BY <1>9, MoveKeepsCaptured DEF InitInput
<1>10. CASE StoreStarted(t)
  BY <1>10, MoveKeepsCaptured DEF StoreStarted
<1> QED BY <1>1, <1>2, <1>3, <1>4, <1>5, <1>6, <1>7, <1>8, <1>9, <1>10 DEF InitStep

LEMMA PresentKeepsCaptured ==
  ASSUME Captured, NEW t \in Threads, PresentStep(t)
  PROVE  Captured'
<1> USE DEF At, Captured, Known, glue, gui, Pcs, InitPcs, Presenting
<1>1. CASE TestDraw(t)
  BY <1>1, MoveKeepsCaptured DEF TestDraw
<1>2. CASE NewFrame(t)
  BY <1>2, MoveKeepsCaptured DEF NewFrame, End
<1>3. CASE FrameInput(t)
  BY <1>3, MoveKeepsCaptured DEF FrameInput
<1>4. CASE Render(t)
  BY <1>4, MoveKeepsCaptured DEF Render, End
<1>5. CASE RealPresent(t)
  <2>1. CASE "nvnQueuePresentTexture" \notin temp
    BY <1>5, <2>1 DEF RealPresent, End
  <2>2. CASE "nvnQueuePresentTexture" \in temp
    <3>1. Goto(t, "game") /\ presented' = presented + 1 /\ presented = 0 /\ t = Presenter
      BY <1>5, <2>2 DEF RealPresent
    <3>2. /\ call' \in [Threads -> [pc: Pcs, obj: Queues \cup Bufs \cup {Null}]]
          /\ call'[t].pc = "game"
          /\ \A u \in Threads \ {t} : call'[u] = call[u]
      BY <3>1, GotoFacts
    <3>3. \A u \in Threads : call'[u].pc \notin Presenting
      BY <3>1, <3>2
    <3>4. \A u \in Threads :
            /\ call'[u].pc # "game" => Procs \subseteq got
            /\ call'[u].pc = "queue" => call'[u].obj \in Queues \cap Known
            /\ call'[u].pc = "buffer" => call'[u].obj \in Bufs \cap Known
      <4> TAKE u \in Threads
      <4>1. CASE u = t
        BY <3>2, <4>1
      <4>2. CASE u # t
        BY <3>2, <4>2
      <4> QED BY <4>1, <4>2
    <3>5. presented' \in 0..1
      BY <3>1
    <3> QED BY <1>5, <2>2, <3>2, <3>3, <3>4, <3>5 DEF RealPresent
  <2> QED BY <2>1, <2>2
<1> QED BY <1>1, <1>2, <1>3, <1>4, <1>5 DEF PresentStep

(* The driver answers: the object is one that it was asked for.            *)
LEMMA AskedFacts ==
  ASSUME Captured, NEW x \in {"device"} \cup Queues \cup Bufs, Asked(x)
  PROVE  /\ Known' = Known \cup {x}
         /\ Known' \subseteq {"device"} \cup Queues \cup Bufs
         /\ x \in Known' /\ Known \subseteq Known'
<1>1. Known' = Known \cup {x}
  BY DEF Asked, Known
<1> QED BY <1>1 DEF Captured

LEMMA CapturedStays == Captured /\ UNCHANGED glueVars => Captured'
  BY DEF Captured, Known, glueVars, glue

LEMMA NextKeepsCaptured ==
  ASSUME Captured, [Next]_vars
  PROVE  Captured'
<1> USE DEF At, Captured, Known, glue, gui
<1>1. ASSUME NEW f \in Bootstrap \cup Procs, Obtain(f) PROVE Captured'
  BY <1>1 DEF Obtain, Known
<1>2. CASE DeviceInit
  <2>1. Known' = Known \cup {"device"} /\ Known' \subseteq {"device"} \cup Queues \cup Bufs
    BY <1>2, AskedFacts DEF DeviceInit
  <2> QED BY <1>2, <2>1, ObjectsAssumption DEF DeviceInit
<1>3. ASSUME NEW t \in Threads, NEW q \in Queues, QueueInit(t, q) PROVE Captured'
  <2>1. CASE "nvnQueueInitialize" \in temp
    BY <1>3, <2>1, AskedFacts, CallKeepsCaptured DEF QueueInit, Enter
  <2>2. CASE "nvnQueueInitialize" \notin temp
    BY <1>3, <2>2, CapturedStays DEF QueueInit, Enter, End, glueVars
  <2> QED BY <2>1, <2>2
<1>4. ASSUME NEW t \in Threads, NEW b \in Bufs, CmdBufInit(t, b) PROVE Captured'
  <2>1. CASE "nvnCommandBufferInitialize" \in temp
    BY <1>4, <2>1, AskedFacts, CallKeepsCaptured DEF CmdBufInit, Enter
  <2>2. CASE "nvnCommandBufferInitialize" \notin temp
    BY <1>4, <2>2, CapturedStays DEF CmdBufInit, Enter, End, glueVars
  <2> QED BY <2>1, <2>2
<1>5. ASSUME NEW t \in Threads, NEW q \in Queues, Present(t, q) PROVE Captured'
  <2>1. Known' = Known /\ q \in Known /\ Procs \subseteq got
    BY <1>5 DEF Present, Known
  <2> QED BY <1>5, <2>1, CallKeepsCaptured DEF Present, Goto
<1>6. ASSUME NEW t \in Threads, QueueCapture(t) PROVE Captured'
  BY <1>6, MoveKeepsCaptured DEF QueueCapture, Pcs, Presenting
<1>7. ASSUME NEW t \in Threads, SetViewport(t) PROVE Captured'
  BY <1>7, CapturedStays DEF SetViewport, End, vars, glueVars
<1>8. CASE InputStep \/ Gone \/ UNCHANGED vars
  BY <1>8, CapturedStays DEF InputStep, Gone, vars, glueVars
<1> QED BY <1>1, <1>2, <1>3, <1>4, <1>5, <1>6, <1>7, <1>8, InitKeepsCaptured, PresentKeepsCaptured DEF Next

-----------------------------------------------------------------------------
(* ImGui's start.                                                          *)

Backends == [made: BOOLEAN, device: BOOLEAN, queue: Queues \cup {Null},
             cmdBuf: Bufs \cup {Null}, isInitialized: BOOLEAN]

(* What is behind each test inside the substitutes stays so: handles,      *)
(* context and backend are never taken back.                               *)
Begun ==
  /\ context \in BOOLEAN /\ hasInitImGui \in BOOLEAN
  /\ userData \in Threads \cup {Null}
  /\ backend \in [Threads -> Backends]
  /\ outcome \in {"none", "already", "noFile", "unready"}
  /\ hasInitImGui => userData # Null
  /\ userData # Null => context /\ backend[userData].made
  /\ \A t \in Threads : backend[t].made =>
       /\ backend[t].device /\ "device" \in Known
       /\ backend[t].queue \in Known /\ backend[t].cmdBuf \in Known
  /\ \A t \in Threads :
       /\ call[t].pc \in Attaching \cup Behind => HasHandles
       /\ call[t].pc \in {"check", "attach"} \cup Behind => context
       /\ call[t].pc \in {"new", "frame", "render"} \cup Behind => userData # Null
       /\ call[t].pc \in Behind => backend[t].made

LEMMA MoveKeepsBegun ==
  ASSUME Captured, Begun, NEW t \in Threads, NEW p \in Pcs, Goto(t, p),
         HasHandles => HasHandles', UNCHANGED <<ready, denied>>, outcome' = outcome,
         userData' \in Threads \cup {Null}, userData # Null => userData' # Null,
         hasInitImGui' \in BOOLEAN, hasInitImGui' => userData' # Null,
         context' \in BOOLEAN, context => context',
         backend' \in [Threads -> Backends],
         userData' # Null => context' /\ backend'[userData'].made,
         \A u \in Threads : backend'[u].made =>
           backend'[u].device /\ "device" \in Known /\ backend'[u].queue \in Known /\ backend'[u].cmdBuf \in Known,
         p \in Attaching \cup Behind => HasHandles',
         p \in {"check", "attach"} \cup Behind => context',
         p \in {"new", "frame", "render"} \cup Behind => userData' # Null,
         \A u \in Threads : backend[u].made => backend'[u].made,
         p \in Behind => backend'[t].made
  PROVE  Begun'
<1>1. /\ call'[t].pc = p
      /\ \A u \in Threads \ {t} : call'[u] = call[u]
  BY GotoFacts DEF Captured
<1>2. \A u \in Threads :
       /\ call'[u].pc \in Attaching \cup Behind => HasHandles'
       /\ call'[u].pc \in {"check", "attach"} \cup Behind => context'
       /\ call'[u].pc \in {"new", "frame", "render"} \cup Behind => userData' # Null
       /\ call'[u].pc \in Behind => backend'[u].made
  <2> TAKE u \in Threads
  <2>1. CASE u = t
    BY <1>1, <2>1
  <2>2. CASE u # t
    BY <1>1, <2>2 DEF Begun
  <2> QED BY <2>1, <2>2
<1>3. outcome' \in {"none", "already", "noFile", "unready"} /\ Known' = Known
  BY DEF Begun, Known
<1> QED BY <1>2, <1>3 DEF Begun

(* A step that leaves ImGui alone, and one that ends the process.          *)
LEMMA BegunStays ==
  ASSUME Begun, UNCHANGED <<gui, hasInitImGui, call, nvnQueue, nvnCmdBuf>>,
         nvnDevice => nvnDevice', Known \subseteq Known', nvnDevice' \in BOOLEAN,
         outcome' \in {"none", "already", "noFile", "unready"}
  PROVE  Begun'
  BY DEF Begun, gui, HasHandles

LEMMA PlainMoveKeepsBegun ==
  ASSUME Captured, Begun, NEW t \in Threads, NEW p \in Pcs, Goto(t, p),
         HasHandles => HasHandles',
         UNCHANGED <<ready, denied, hasInitImGui, outcome, gui>>,
         p \in Attaching \cup Behind => HasHandles,
         p \in {"check", "attach"} \cup Behind => context,
         p \in {"new", "frame", "render"} \cup Behind => userData # Null,
         p \in Behind => backend[t].made
  PROVE  Begun'
<1>1. UNCHANGED <<context, userData, backend>>
  BY DEF gui
<1> QED BY <1>1, MoveKeepsBegun DEF Begun

(* What a backend was given, the driver was asked for: it is never null,   *)
(* and not initialised only if the driver refused it.                      *)
LEMMA HandlesKnown ==
  ASSUME Captured, Begun, NEW t \in Threads, backend[t].made
  PROVE  Null \notin Handles(t) /\ Unready(t) \subseteq denied
<1>1. Handles(t) \subseteq Known
  BY DEF Begun, Handles
<1>2. Null \notin Known
  BY NullAssumption DEF Captured
<1> QED BY <1>1, <1>2 DEF Unready, Known

LEMMA HandlesStay ==
  /\ UNCHANGED glue => HasHandles' = HasHandles
  /\ UNCHANGED <<nvnDevice, nvnQueue, nvnCmdBuf>> => HasHandles' = HasHandles
  BY DEF HasHandles, glue

LEMMA InitKeepsBegun ==
  ASSUME Captured, Begun, NEW t \in Threads, InitStep(t)
  PROVE  Begun'
<1>0. \A p \in InitPcs \cup {"game", "test"} : p \in Pcs
  BY DEF Pcs
<1> USE HandlesStay DEF At, glue, InitPcs, Attaching, Behind
<1>1. CASE CmdBufCapture(t)
  <2>1. nvnCmdBuf' # Null /\ (HasHandles => HasHandles')
    BY <1>1, NullAssumption DEF CmdBufCapture, HasHandles, Captured
  <2> QED BY <1>0, <1>1, <2>1, PlainMoveKeepsBegun DEF CmdBufCapture
<1>2. CASE TestInit(t)
  BY <1>0, <1>2, PlainMoveKeepsBegun DEF TestInit
<1>3. CASE TestHandles(t)
  BY <1>0, <1>3, PlainMoveKeepsBegun DEF TestHandles
<1>4. CASE Refused(t)
  <2>1. UNCHANGED <<context, userData, backend, outcome, ready, denied>> /\ hasInitImGui' = FALSE /\ Goto(t, "game")
    BY <1>4 DEF Refused, gui
  <2>2. HasHandles' = HasHandles /\ "game" \notin Attaching \cup Behind
    BY <1>4 DEF Refused
  <2> QED BY <1>0, <2>1, <2>2, MoveKeepsBegun DEF Begun
<1>5. CASE CreateContext(t)
  BY <1>0, <1>5, MoveKeepsBegun DEF CreateContext, Begun
<1>6. CASE CheckBackend(t)
  <2>1. CASE userData # Null
    BY <1>6, <2>1, BegunStays DEF CheckBackend, End, Captured, Known
  <2>2. CASE userData = Null
    BY <1>0, <1>6, <2>2, PlainMoveKeepsBegun DEF CheckBackend, Begun
  <2> QED BY <2>1, <2>2
<1>7. CASE Attach(t)
  <2>1. HasHandles /\ context
    BY <1>7 DEF Attach, Begun
  <2>2. Attached(t) \in Backends /\ Attached(t).made
        /\ Attached(t).device /\ "device" \in Known /\ Attached(t).queue \in Known /\ Attached(t).cmdBuf \in Known
    BY <2>1 DEF Attached, Backends, HasHandles, Captured
  <2>3. /\ backend' \in [Threads -> Backends] /\ backend'[t] = Attached(t)
        /\ \A u \in Threads \ {t} : backend'[u] = backend[u]
    BY <1>7, <2>2 DEF Attach, Begun
  <2>4. userData' = t /\ t # Null
    BY <1>7, NullAssumption DEF Attach
  <2>5. \A u \in Threads : backend'[u].made =>
          backend'[u].device /\ "device" \in Known /\ backend'[u].queue \in Known /\ backend'[u].cmdBuf \in Known
    BY <2>2, <2>3 DEF Begun
  <2> QED BY <1>0, <1>7, <2>1, <2>2, <2>3, <2>4, <2>5, MoveKeepsBegun DEF Attach, Begun
<1>8. CASE Load(t)
  <2>1. CASE End("noFile") \/ End("unready")
    BY <2>1, BegunStays DEF End, Captured, Known
  <2>2. ASSUME NEW ok \in BOOLEAN, backend' = [backend EXCEPT ![t].isInitialized = ok], Goto(t, "input"),
               UNCHANGED <<glue, context, userData, outcome>>
        PROVE  Begun'
    <3>1. backend' \in [Threads -> Backends]
      BY <2>2 DEF Begun, Backends
    <3>2. \A u \in Threads :
            /\ backend'[u].made = backend[u].made /\ backend'[u].device = backend[u].device
            /\ backend'[u].queue = backend[u].queue /\ backend'[u].cmdBuf = backend[u].cmdBuf
      BY <2>2 DEF Begun, Backends
    <3>3. call[t].pc = "load"
      BY <1>8 DEF Load
    <3>4. UNCHANGED <<context, userData, outcome, hasInitImGui, ready, denied>> /\ HasHandles' = HasHandles
      BY <2>2
    <3>5. HasHandles /\ context /\ userData # Null
      BY <3>3 DEF Begun
    <3>6. \A u \in Threads : backend'[u].made =>
            backend'[u].device /\ "device" \in Known /\ backend'[u].queue \in Known /\ backend'[u].cmdBuf \in Known
      BY <3>2 DEF Begun
    <3>7. userData \in Threads /\ context' /\ backend'[userData'].made
      BY <3>2, <3>4, <3>5 DEF Begun
    <3>8. backend'[t].made /\ \A u \in Threads : backend[u].made => backend'[u].made
      BY <3>2, <3>3 DEF Begun
    <3> QED BY <1>0, <2>2, <3>1, <3>4, <3>5, <3>6, <3>7, <3>8, MoveKeepsBegun DEF Begun
  <2> QED BY <1>8, <2>1, <2>2 DEF Load
<1>9. CASE InitInput(t)
  BY <1>0, <1>9, PlainMoveKeepsBegun DEF InitInput, Begun
<1>10. CASE StoreStarted(t)
  <2>1. UNCHANGED <<context, userData, backend>> /\ userData # Null
    BY <1>10 DEF StoreStarted, gui, Begun
  <2> QED BY <1>0, <1>10, <2>1, MoveKeepsBegun DEF StoreStarted, Begun
<1> QED BY <1>1, <1>2, <1>3, <1>4, <1>5, <1>6, <1>7, <1>8, <1>9, <1>10 DEF InitStep

LEMMA PresentKeepsBegun ==
  ASSUME Captured, Begun, NEW t \in Threads, PresentStep(t)
  PROVE  Begun'
<1>0. \A p \in Presenting \cup {"game"} : p \in Pcs
  BY DEF Pcs
<1> USE HandlesStay DEF At, glue, InitPcs, Attaching, Behind, Presenting
<1>1. CASE TestDraw(t)
  BY <1>0, <1>1, PlainMoveKeepsBegun DEF TestDraw, Begun
<1>2. CASE NewFrame(t)
  <2>1. context /\ userData # Null
    BY <1>2 DEF NewFrame, Begun
  <2> QED BY <1>0, <1>2, <2>1, PlainMoveKeepsBegun DEF NewFrame
<1>3. CASE FrameInput(t)
  <2>1. CASE frame = "out"
    BY <1>0, <1>3, <2>1, PlainMoveKeepsBegun DEF FrameInput, Begun
  <2>2. CASE frame # "out"
    BY <1>3, <2>2, BegunStays DEF FrameInput, Begun, Captured, Known
  <2> QED BY <2>1, <2>2
<1>4. CASE Render(t)
  <2>1. Null \notin Handles(userData)
    BY <1>4, HandlesKnown DEF Render, Begun
  <2>2. CASE End("unready")
    BY <2>2, BegunStays DEF End, Captured, Known
  <2>3. CASE ~End("unready")
    BY <1>0, <1>4, <2>1, <2>3, PlainMoveKeepsBegun DEF Render
  <2> QED BY <2>2, <2>3
<1>5. CASE RealPresent(t)
  <2>1. "nvnQueuePresentTexture" \in temp
    BY <1>5 DEF RealPresent, Captured, Procs
  <2> QED BY <1>0, <1>5, <2>1, PlainMoveKeepsBegun DEF RealPresent
<1> QED BY <1>1, <1>2, <1>3, <1>4, <1>5 DEF PresentStep

LEMMA NextKeepsBegun ==
  ASSUME Captured, Begun, [Next]_vars
  PROVE  Begun'
<1> USE HandlesStay DEF At, glue
<1>1. ASSUME NEW f \in Bootstrap \cup Procs, Obtain(f) PROVE Begun'
  BY <1>1, BegunStays DEF Obtain, Begun, Captured, Known
<1>2. CASE DeviceInit
  BY <1>2, AskedFacts, BegunStays DEF DeviceInit, Begun
<1>3. ASSUME NEW t \in Threads, NEW x \in Queues \cup Bufs \cup {Null}, NEW p \in {"queue", "buffer", "present"},
             call' = [call EXCEPT ![t] = [pc |-> p, obj |-> x]], Known \subseteq Known',
             UNCHANGED <<nvnDevice, nvnQueue, nvnCmdBuf, hasInitImGui, gui, outcome>>
      PROVE  Begun'
  <2>1. p \in Pcs /\ p \notin InitPcs \cup Attaching \cup Behind \cup {"new", "frame", "render"}
    BY DEF Pcs, InitPcs, Attaching, Behind, Presenting
  <2>2. call'[t].pc = p /\ \A u \in Threads \ {t} : call'[u] = call[u]
    BY <1>3, <2>1, CallFacts DEF Captured
  <2>3. \A u \in Threads :
         /\ call'[u].pc \in Attaching \cup Behind => HasHandles'
         /\ call'[u].pc \in {"check", "attach"} \cup Behind => context'
         /\ call'[u].pc \in {"new", "frame", "render"} \cup Behind => userData' # Null
         /\ call'[u].pc \in Behind => backend'[u].made
    <3> TAKE u \in Threads
    <3>1. CASE u = t
      BY <2>1, <2>2, <3>1 DEF Attaching
    <3>2. CASE u # t
      BY <1>3, <2>2, <3>2 DEF Begun, gui
    <3> QED BY <3>1, <3>2
  <2> QED BY <1>3, <2>3 DEF Begun, gui
<1>4. ASSUME NEW t \in Threads, NEW q \in Queues, QueueInit(t, q) PROVE Begun'
  BY <1>3, <1>4, AskedFacts DEF QueueInit, Enter, Captured, Procs
<1>5. ASSUME NEW t \in Threads, NEW b \in Bufs, CmdBufInit(t, b) PROVE Begun'
  BY <1>3, <1>5, AskedFacts DEF CmdBufInit, Enter, Captured, Procs
<1>6. ASSUME NEW t \in Threads, NEW q \in Queues, Present(t, q) PROVE Begun'
  BY <1>3, <1>6 DEF Present, Goto, Known
<1>7. ASSUME NEW t \in Threads, QueueCapture(t) PROVE Begun'
  <2>1. nvnQueue' # Null /\ (HasHandles => HasHandles')
    BY <1>7, NullAssumption DEF QueueCapture, HasHandles, Captured
  <2>2. "game" \in Pcs
    BY DEF Pcs
  <2> QED BY <1>7, <2>1, <2>2, PlainMoveKeepsBegun DEF QueueCapture, Attaching, Behind
<1>8. ASSUME NEW t \in Threads, SetViewport(t) PROVE Begun'
  <2>1. hasInitImGui => context
    BY DEF Begun
  <2> QED BY <1>8, <2>1, BegunStays DEF SetViewport, vars, glueVars, Begun, Captured, Known
<1>9. CASE InputStep \/ Gone \/ UNCHANGED vars
  BY <1>9, BegunStays DEF InputStep, Gone, vars, glueVars, Begun, Captured, Known
<1> QED BY <1>1, <1>2, <1>4, <1>5, <1>6, <1>7, <1>8, <1>9, InitKeepsBegun, PresentKeepsBegun DEF Next

-----------------------------------------------------------------------------
(* What the driver refused.                                                *)

RefusedInv ==
  outcome = "unready" =>
    \E t \in Threads : backend[t].made /\ Unready(t) # {} /\ Unready(t) \subseteq denied

(* The process may end that way where a backend is used, and nothing moves *)
(* after it.                                                               *)
LEMMA NextKeepsRefused ==
  ASSUME Captured, Begun, RefusedInv, [Next]_vars
  PROVE  RefusedInv'
<1>1. ASSUME NEW t \in Threads, backend[t].made, Unready(t) # {}, UNCHANGED <<glue, gui>>
      PROVE  RefusedInv'
  <2>1. Unready(t)' = Unready(t) /\ denied' = denied /\ backend' = backend
    BY <1>1 DEF Unready, Handles, glue, gui
  <2> QED BY <1>1, <2>1, HandlesKnown DEF RefusedInv
<1>2. ASSUME NEW t \in Threads, InitStep(t), outcome' = "unready" PROVE RefusedInv'
  <2>1. Load(t) /\ End("unready")
    BY <1>2 DEF InitStep, CmdBufCapture, TestInit, TestHandles, Refused, CreateContext, CheckBackend, Attach,
                Load, InitInput, StoreStarted, End, At
  <2>2. "device" \in Unready(t) /\ call[t].pc = "load"
    BY <2>1 DEF Load, At, End
  <2>3. backend[t].made
    BY <2>2 DEF Begun, Behind
  <2> QED BY <1>1, <2>1, <2>2, <2>3 DEF End
<1>3. ASSUME NEW t \in Threads, PresentStep(t), outcome' = "unready" PROVE RefusedInv'
  <2>1. Render(t) /\ End("unready")
    BY <1>3 DEF PresentStep, TestDraw, NewFrame, FrameInput, Render, RealPresent, End, At
  <2>2. /\ backend[userData].isInitialized /\ Unready(userData) # {}
        /\ call[t].pc = "render"
    BY <2>1 DEF Render, Unready, End, At
  <2>3. userData \in Threads /\ backend[userData].made
    BY <2>2 DEF Begun
  <2> QED BY <1>1, <2>1, <2>2, <2>3 DEF End
<1>4. ASSUME outcome' = "unready", outcome = "unready" PROVE UNCHANGED vars
  BY <1>4 DEF Next, Obtain, DeviceInit, InputStep, Gone, QueueInit, CmdBufInit, Enter, Present, SetViewport,
         QueueCapture, InitStep, CmdBufCapture, TestInit, TestHandles, Refused, CreateContext, CheckBackend,
         Attach, Load, InitInput, StoreStarted, PresentStep, TestDraw, NewFrame, FrameInput, Render,
         RealPresent, At
<1>5. UNCHANGED vars => RefusedInv'
  BY DEF RefusedInv, Unready, Handles, vars, glueVars, glue, gui
<1>6. CASE outcome' = "unready" /\ outcome # "unready"
  BY <1>2, <1>3, <1>6 DEF Next, Obtain, DeviceInit, InputStep, Gone, QueueInit, CmdBufInit, Enter, Present,
         SetViewport, QueueCapture, End, vars, glueVars
<1> QED BY <1>4, <1>5, <1>6 DEF RefusedInv

-----------------------------------------------------------------------------
(* One start.                                                              *)

(* The test of hasInitImGui excludes a second thread only together with    *)
(* all that the flag stands for: a backend is there exactly when the flag  *)
(* is set or its maker is on the way to set it.                            *)
OnceInv ==
  ~overlapped =>
    /\ outcome # "already"
    /\ \A t, u \in Threads : InInit(t) /\ InInit(u) => t = u
    /\ hasInitImGui => \A t \in Threads : ~InInit(t)
    /\ \A t \in Threads : backend[t].made => userData = t
    /\ userData # Null /\ ~hasInitImGui => call[userData].pc \in Behind

(* A step of a thread that neither is nor gets inside InitImGui.           *)
LEMMA OutsideKeepsOnce ==
  ASSUME Begun, OnceInv, NEW t \in Threads, ~InInit(t), ~InInit(t)',
         \A u \in Threads \ {t} : call'[u] = call[u],
         UNCHANGED <<gui, hasInitImGui>>,
         overlapped => overlapped', outcome' # "already"
  PROVE  OnceInv'
<1> SUFFICES ASSUME ~overlapped' PROVE OnceInv'
  BY DEF OnceInv
<1>1. ~overlapped
  OBVIOUS
<1>2. \A u \in Threads : InInit(u)' = InInit(u)
  BY DEF InInit
<1>3. userData # Null /\ ~hasInitImGui => call'[userData].pc \in Behind
  BY <1>1 DEF OnceInv, InInit, InitPcs, Behind, Begun
<1> QED BY <1>1, <1>2, <1>3 DEF OnceInv, gui

LEMMA OnceStays ==
  ASSUME OnceInv, UNCHANGED <<gui, hasInitImGui, call, overlapped>>, outcome' # "already"
  PROVE  OnceInv'
  BY DEF OnceInv, InInit, gui

(* Inside InitImGui, unless two threads are, there is nobody else, and the *)
(* backend is this thread's and made behind the test for it.               *)
LEMMA AloneInside ==
  ASSUME Begun, OnceInv, ~overlapped, NEW t \in Threads, InInit(t)
  PROVE  /\ \A u \in Threads \ {t} : ~InInit(u)
         /\ ~hasInitImGui
         /\ userData # Null => userData = t /\ call[t].pc \in Behind
  BY DEF Begun, OnceInv, InInit, InitPcs, Behind

LEMMA InsideKeepsOnce ==
  ASSUME Captured, Begun, OnceInv, ~overlapped, NEW t \in Threads, NEW p \in Pcs, InInit(t), Goto(t, p),
         p \in InitPcs \cup {"game"},
         UNCHANGED overlapped, outcome' # "already",
         hasInitImGui' => p = "game",
         \A u \in Threads : backend'[u].made => userData' = u,
         userData' # Null => userData' = t /\ (p \in Behind \/ hasInitImGui')
  PROVE  OnceInv'
<1>1. /\ call'[t].pc = p
      /\ \A u \in Threads \ {t} : call'[u] = call[u]
  BY GotoFacts DEF Captured
<1>2. \A u \in Threads \ {t} : ~InInit(u)'
  BY <1>1, AloneInside DEF InInit
<1>3. p = "game" => ~InInit(t)'
  BY <1>1 DEF InInit, InitPcs
<1> QED BY <1>1, <1>2, <1>3 DEF OnceInv

LEMMA InitKeepsOnce ==
  ASSUME Captured, Begun, OnceInv, NEW t \in Threads, InitStep(t)
  PROVE  OnceInv'
<1> SUFFICES ASSUME ~overlapped' PROVE OnceInv'
  BY DEF OnceInv
<1>0. ~overlapped /\ \A p \in InitPcs \cup {"game", "test"} : p \in Pcs
  <2>1. overlapped' = overlapped \/ TestInit(t)
    BY DEF InitStep, CmdBufCapture, TestHandles, Refused, CreateContext,
           CheckBackend, Attach, Load, InitInput, StoreStarted, End
  <2>2. ~overlapped
    BY <2>1 DEF TestInit
  <2> QED BY <2>2 DEF Pcs
<1>a. \A u \in Threads : backend[u].made => userData = u
  BY <1>0 DEF OnceInv
<1>b. ASSUME InInit(t) PROVE ~hasInitImGui /\ (userData # Null => userData = t /\ call[t].pc \in Behind)
  BY <1>0, <1>b, AloneInside
<1> USE <1>0 DEF At, glue, gui, InitPcs, Behind
<1>1. CASE CmdBufCapture(t)
  <2>1. call[t].pc = "buffer" /\ call'[t].pc = "test" /\ \A u \in Threads \ {t} : call'[u] = call[u]
    BY <1>1, GotoFacts DEF CmdBufCapture, Captured
  <2> QED BY <1>1, <2>1, OutsideKeepsOnce DEF CmdBufCapture, InInit
<1>2. CASE TestInit(t)
  <2>1. CASE hasInitImGui
    <3>1. call[t].pc = "test" /\ call'[t].pc = "game" /\ \A u \in Threads \ {t} : call'[u] = call[u]
      BY <1>2, <2>1, GotoFacts DEF TestInit, Captured
    <3> QED BY <1>2, <3>1, OutsideKeepsOnce DEF TestInit, InInit
  <2>2. CASE ~hasInitImGui
    <3>1. call[t].pc = "test" /\ call'[t].pc = "handles" /\ \A u \in Threads \ {t} : call'[u] = call[u]
      BY <1>2, <2>2, GotoFacts DEF TestInit, Captured
    <3>2. \A u \in Threads : ~InInit(u)
      BY <1>2, <2>2 DEF TestInit
    <3>3. \A u \in Threads \ {t} : ~InInit(u)'
      BY <3>1, <3>2 DEF InInit
    <3>4. userData = Null /\ userData' = Null /\ backend' = backend /\ hasInitImGui' = hasInitImGui
      BY <1>2, <2>2, <3>2 DEF OnceInv, InInit, Begun, TestInit
    <3>5. outcome' # "already"
      BY <1>2 DEF TestInit
    <3> QED BY <2>2, <3>3, <3>4, <3>5, <1>a DEF OnceInv
  <2> QED BY <2>1, <2>2
<1>3. CASE TestHandles(t)
  BY <1>3, <1>a, <1>b, InsideKeepsOnce DEF TestHandles, InInit
<1>4. CASE Refused(t)
  BY <1>4, <1>a, <1>b, InsideKeepsOnce DEF Refused, InInit
<1>5. CASE CreateContext(t)
  BY <1>5, <1>a, <1>b, InsideKeepsOnce DEF CreateContext, InInit
<1>6. CASE CheckBackend(t)
  <2>1. userData = Null
    BY <1>6, <1>b DEF CheckBackend, InInit
  <2> QED BY <1>6, <2>1, <1>a, <1>b, InsideKeepsOnce DEF CheckBackend, InInit
<1>7. CASE Attach(t)
  <2>1. userData = Null /\ ~hasInitImGui
    BY <1>7, <1>b DEF Attach, InInit
  <2>2. \A u \in Threads : backend'[u].made => u = t
    BY <1>7, <1>a, <2>1, NullAssumption DEF Attach, Begun
  <2> QED BY <1>7, <2>1, <2>2, InsideKeepsOnce DEF Attach, InInit
<1>8. CASE Load(t)
  <2>1. CASE End("noFile") \/ End("unready")
    BY <2>1, OnceStays DEF End
  <2>2. ASSUME NEW ok \in BOOLEAN, backend' = [backend EXCEPT ![t].isInitialized = ok], Goto(t, "input"),
               UNCHANGED <<glue, context, userData, outcome, overlapped>>
        PROVE  OnceInv'
    <3>1. \A u \in Threads : backend'[u].made = backend[u].made
      BY <2>2 DEF Begun, Backends
    <3>2. InInit(t) /\ outcome' # "already" /\ hasInitImGui' = hasInitImGui
      BY <1>8, <2>2 DEF Load, InInit
    <3> QED BY <2>2, <3>1, <3>2, <1>a, <1>b, InsideKeepsOnce
  <2> QED BY <1>8, <2>1, <2>2 DEF Load
<1>9. CASE InitInput(t)
  BY <1>9, <1>a, <1>b, InsideKeepsOnce DEF InitInput, InInit
<1>10. CASE StoreStarted(t)
  BY <1>10, <1>a, <1>b, InsideKeepsOnce DEF StoreStarted, InInit
<1> QED BY <1>1, <1>2, <1>3, <1>4, <1>5, <1>6, <1>7, <1>8, <1>9, <1>10 DEF InitStep

LEMMA NextKeepsOnce ==
  ASSUME Captured, Begun, OnceInv, [Next]_vars
  PROVE  OnceInv'
<1> USE DEF At, glue
<1>1. ASSUME UNCHANGED <<gui, hasInitImGui, call, overlapped>>, outcome' # "already" \/ outcome' = outcome PROVE OnceInv'
  BY <1>1 DEF OnceInv, InInit, gui
<1>2. ASSUME NEW t \in Threads, NEW p \in Pcs \ InitPcs, call[t].pc \notin InitPcs,
             call' = [call EXCEPT ![t] = [pc |-> p, obj |-> call'[t].obj]] \/ Goto(t, p),
             UNCHANGED <<gui, hasInitImGui, overlapped>>, outcome' # "already"
      PROVE  OnceInv'
  <2>1. call'[t].pc = p /\ \A u \in Threads \ {t} : call'[u] = call[u]
    BY <1>2 DEF Captured, Goto
  <2>2. ~InInit(t) /\ ~InInit(t)'
    BY <1>2, <2>1 DEF InInit
  <2> QED BY <1>2, <2>1, <2>2, OutsideKeepsOnce
<1>3. \A p \in {"game", "queue", "buffer", "present", "new", "frame", "render", "real"} : p \in Pcs \ InitPcs
  BY DEF Pcs, InitPcs, Presenting
<1>4. ASSUME NEW f \in Bootstrap \cup Procs, Obtain(f) PROVE OnceInv'
  BY <1>1, <1>4 DEF Obtain
<1>5. CASE DeviceInit
  BY <1>1, <1>5 DEF DeviceInit
<1>6. ASSUME NEW t \in Threads, NEW x \in Queues \cup Bufs \cup {Null}, NEW p \in {"queue", "buffer", "present"},
             call[t].pc = "game", call' = [call EXCEPT ![t] = [pc |-> p, obj |-> x]],
             UNCHANGED <<gui, hasInitImGui, overlapped>>, outcome' # "already"
      PROVE  OnceInv'
  <2>1. call'[t].obj = x
    BY <1>6, <1>3, CallFacts DEF Captured
  <2> QED BY <1>2, <1>3, <1>6, <2>1
<1>7. ASSUME NEW t \in Threads, NEW q \in Queues, QueueInit(t, q) PROVE OnceInv'
  BY <1>6, <1>7 DEF QueueInit, Enter, Captured, Procs
<1>8. ASSUME NEW t \in Threads, NEW b \in Bufs, CmdBufInit(t, b) PROVE OnceInv'
  BY <1>6, <1>8 DEF CmdBufInit, Enter, Captured, Procs
<1>9. ASSUME NEW t \in Threads, NEW q \in Queues, Present(t, q) PROVE OnceInv'
  BY <1>2, <1>3, <1>9 DEF Present, InitPcs
<1>10. ASSUME NEW t \in Threads, QueueCapture(t) PROVE OnceInv'
  BY <1>2, <1>3, <1>10 DEF QueueCapture, InitPcs
<1>11. ASSUME NEW t \in Threads, PresentStep(t) PROVE OnceInv'
  <2>1. CASE TestDraw(t)
    BY <1>2, <1>3, <2>1 DEF TestDraw, InitPcs
  <2>2. CASE NewFrame(t)
    BY <1>1, <1>2, <1>3, <2>2 DEF NewFrame, End, InitPcs
  <2>3. CASE FrameInput(t)
    BY <1>1, <1>2, <1>3, <2>3 DEF FrameInput, InitPcs
  <2>4. CASE Render(t)
    BY <1>1, <1>2, <1>3, <2>4 DEF Render, End, InitPcs
  <2>5. CASE RealPresent(t)
    BY <1>1, <1>2, <1>3, <2>5 DEF RealPresent, End, InitPcs
  <2> QED BY <1>11, <2>1, <2>2, <2>3, <2>4, <2>5 DEF PresentStep
<1>12. ASSUME NEW t \in Threads, SetViewport(t) PROVE OnceInv'
  BY <1>1, <1>12 DEF SetViewport, End, vars, glueVars
<1>13. CASE InputStep \/ Gone \/ UNCHANGED vars
  BY <1>1, <1>13 DEF InputStep, Gone, vars, glueVars
<1> QED BY <1>4, <1>5, <1>7, <1>8, <1>9, <1>10, <1>11, <1>12, <1>13, InitKeepsOnce DEF Next

LEMMA OnceGivesStartedOnce ==
  ASSUME Begun, OnceInv
  PROVE  StartedOnce
<1> SUFFICES ASSUME ~overlapped PROVE StartedOnce
  BY DEF StartedOnce
<1> DEFINE Makers == {t \in Threads : backend[t].made}
<1>1. Cardinality(Makers) <= 1
  <2>1. CASE Makers = {}
    BY <2>1, FS_EmptySet
  <2>2. CASE Makers # {}
    <3>1. PICK t \in Makers : TRUE
      BY <2>2
    <3>2. Makers = {t}
      BY <3>1 DEF OnceInv
    <3>3. Cardinality({t}) = 1
      BY FS_Singleton
    <3> QED BY <3>2, <3>3
  <2> QED BY <2>1, <2>2
<1>2. (\A t \in Threads : ~InInit(t)) => (hasInitImGui <=> userData # Null)
  BY DEF OnceInv, Begun, InInit, InitPcs, Behind
<1> QED BY <1>1, <1>2 DEF StartedOnce, OnceInv

-----------------------------------------------------------------------------
(* The start is not missed.                                                *)

(* On the way to a start that will not be refused.                         *)
Heading(t) == call[t].pc \in ({"buffer", "test"} \cup InitPcs) \ {"refused"}

(* What is known stays known, a thread that tests the handles has brought  *)
(* a command buffer, and from the moment a start is due ImGui runs or      *)
(* somebody is heading for it.  A thread on its way to store FALSE may be  *)
(* left from before: whoever is heading then has the start to itself.      *)
SoonInv ==
  /\ due => nvnDevice /\ nvnQueue # Null
  /\ \A t \in Threads : call[t].pc \in {"test", "handles"} => nvnCmdBuf # Null
  /\ due /\ ~overlapped => hasInitImGui \/ \E t \in Threads : Heading(t)

LEMMA SoonStays ==
  ASSUME SoonInv, due' = due,
         nvnDevice => nvnDevice', nvnQueue # Null => nvnQueue' # Null, nvnCmdBuf # Null => nvnCmdBuf' # Null,
         \A t \in Threads : call'[t].pc \in {"test", "handles"} =>
           call[t].pc \in {"test", "handles"} \/ nvnCmdBuf' # Null,
         due /\ ~overlapped' =>
           /\ ~overlapped
           /\ hasInitImGui => hasInitImGui'
           /\ \A t \in Threads : Heading(t) => Heading(t)' \/ hasInitImGui'
  PROVE  SoonInv'
<1>1. due' /\ ~overlapped' => hasInitImGui' \/ \E t \in Threads : Heading(t)'
  BY DEF SoonInv
<1> QED BY <1>1 DEF SoonInv

(* A thread that is neither heading nor gets there.                        *)
LEMMA AsideKeepsSoon ==
  ASSUME Captured, SoonInv, NEW t \in Threads, NEW p \in Pcs \ {"test", "handles"}, ~Heading(t),
         call'[t].pc = p, \A u \in Threads \ {t} : call'[u] = call[u],
         UNCHANGED <<nvnDevice, nvnCmdBuf, hasInitImGui, overlapped, due>>,
         nvnQueue # Null => nvnQueue' # Null
  PROVE  SoonInv'
<1>1. \A u \in Threads : Heading(u) => Heading(u)'
  BY DEF Heading
<1>2. \A u \in Threads : call'[u].pc \in {"test", "handles"} => call[u].pc \in {"test", "handles"}
  OBVIOUS
<1> QED BY <1>1, <1>2, SoonStays

(* A step inside InitImGui or on the way there.                            *)
LEMMA HeadingKeepsSoon ==
  ASSUME Captured, SoonInv, NEW t \in Threads, NEW p \in Pcs, Goto(t, p),
         UNCHANGED <<nvnDevice, nvnQueue, due>>,
         nvnCmdBuf # Null => nvnCmdBuf' # Null,
         p \in {"test", "handles"} => nvnCmdBuf' # Null,
         due /\ ~overlapped' =>
           /\ ~overlapped
           /\ hasInitImGui => hasInitImGui'
           /\ p \in ({"buffer", "test"} \cup InitPcs) \ {"refused"} \/ hasInitImGui' \/ ~Heading(t)
  PROVE  SoonInv'
<1>1. call'[t].pc = p /\ \A u \in Threads \ {t} : call'[u] = call[u]
  BY GotoFacts DEF Captured
<1>2. \A u \in Threads : call'[u].pc \in {"test", "handles"} =>
        call[u].pc \in {"test", "handles"} \/ nvnCmdBuf' # Null
  BY <1>1
<1>3. due /\ ~overlapped' => \A u \in Threads : Heading(u) => Heading(u)' \/ hasInitImGui'
  BY <1>1 DEF Heading
<1> QED BY <1>2, <1>3, SoonStays

LEMMA InitKeepsSoon ==
  ASSUME Captured, Begun, OnceInv, SoonInv, NEW t \in Threads, InitStep(t)
  PROVE  SoonInv'
<1>0. \A p \in InitPcs \cup {"game", "test"} : p \in Pcs
  BY DEF Pcs
<1> USE <1>0 DEF At, glue, gui, InitPcs
<1>1. CASE CmdBufCapture(t)
  <2>1. call[t].obj \in Bufs /\ call[t].obj # Null
    BY <1>1, NullAssumption DEF CmdBufCapture, Captured
  <2> QED BY <1>1, <2>1, HeadingKeepsSoon DEF CmdBufCapture
<1>2. CASE TestInit(t)
  <2>1. nvnCmdBuf # Null /\ call[t].pc = "test"
    BY <1>2 DEF TestInit, SoonInv
  <2>2. CASE hasInitImGui
    BY <1>2, <2>1, <2>2, HeadingKeepsSoon DEF TestInit
  <2>3. CASE ~hasInitImGui
    BY <1>2, <2>1, <2>3, HeadingKeepsSoon DEF TestInit
  <2> QED BY <2>2, <2>3
<1>3. CASE TestHandles(t)
  <2>1. due => HasHandles
    BY <1>3 DEF TestHandles, SoonInv, HasHandles
  <2>2. CASE HasHandles
    BY <1>3, <2>2, HeadingKeepsSoon DEF TestHandles
  <2>3. CASE ~HasHandles
    BY <1>3, <2>1, <2>3, HeadingKeepsSoon DEF TestHandles
  <2> QED BY <2>2, <2>3
<1>4. CASE Refused(t)
  <2>1. ~overlapped => ~hasInitImGui
    BY <1>4, AloneInside DEF Refused, InInit
  <2>2. ~Heading(t)
    BY <1>4 DEF Refused, Heading
  <2> QED BY <1>4, <2>1, <2>2, HeadingKeepsSoon DEF Refused
<1>5. CASE CreateContext(t)
  BY <1>5, HeadingKeepsSoon DEF CreateContext
<1>6. CASE CheckBackend(t)
  <2>1. CASE userData # Null
    BY <1>6, <2>1, SoonStays DEF CheckBackend, End, Heading
  <2>2. CASE userData = Null
    BY <1>6, <2>2, HeadingKeepsSoon DEF CheckBackend
  <2> QED BY <2>1, <2>2
<1>7. CASE Attach(t)
  BY <1>7, HeadingKeepsSoon DEF Attach
<1>8. CASE Load(t)
  <2>1. CASE End("noFile") \/ End("unready")
    BY <2>1, SoonStays DEF End, Heading
  <2>2. CASE ~(End("noFile") \/ End("unready"))
    BY <1>8, <2>2, HeadingKeepsSoon DEF Load
  <2> QED BY <2>1, <2>2
<1>9. CASE InitInput(t)
  BY <1>9, HeadingKeepsSoon DEF InitInput
<1>10. CASE StoreStarted(t)
  BY <1>10, HeadingKeepsSoon DEF StoreStarted, Started
<1> QED BY <1>1, <1>2, <1>3, <1>4, <1>5, <1>6, <1>7, <1>8, <1>9, <1>10 DEF InitStep

LEMMA NextKeepsSoon ==
  ASSUME Captured, Begun, OnceInv, SoonInv, [Next]_vars
  PROVE  SoonInv'
<1> USE DEF At, glue
<1>1. ASSUME UNCHANGED <<nvnQueue, nvnCmdBuf, hasInitImGui, call, overlapped, due>>, nvnDevice => nvnDevice'
      PROVE  SoonInv'
  BY <1>1, SoonStays DEF Heading
<1>2. ASSUME NEW t \in Threads, NEW p \in {"game"} \cup Presenting, Goto(t, p),
             call[t].pc \in {"game", "queue"} \cup Presenting,
             UNCHANGED <<nvnDevice, nvnCmdBuf, hasInitImGui, overlapped, due>>, nvnQueue # Null => nvnQueue' # Null
      PROVE  SoonInv'
  <2>1. call'[t].pc = p /\ \A u \in Threads \ {t} : call'[u] = call[u]
    BY <1>2, GotoFacts DEF Captured, Pcs
  <2>2. ~Heading(t)
    BY <1>2 DEF Heading, Presenting, InitPcs
  <2>3. p \in Pcs \ {"test", "handles"}
    BY <1>2 DEF Pcs, Presenting
  <2> QED BY <1>2, <2>1, <2>2, <2>3, AsideKeepsSoon
<1>3. ASSUME NEW t \in Threads, NEW x \in Queues \cup Bufs \cup {Null}, NEW p \in {"queue", "present"},
             call[t].pc = "game", call' = [call EXCEPT ![t] = [pc |-> p, obj |-> x]],
             UNCHANGED <<nvnDevice, nvnQueue, nvnCmdBuf, hasInitImGui, overlapped, due>>
      PROVE  SoonInv'
  <2>1. p \in Pcs \ {"test", "handles"}
    BY <1>3 DEF Pcs, Presenting
  <2>2. call'[t].pc = p /\ \A u \in Threads \ {t} : call'[u] = call[u]
    BY <1>3, <2>1, CallFacts DEF Captured
  <2>3. ~Heading(t)
    BY <1>3 DEF Heading, InitPcs
  <2> QED BY <1>3, <2>1, <2>2, <2>3, AsideKeepsSoon
<1>4. ASSUME NEW f \in Bootstrap \cup Procs, Obtain(f) PROVE SoonInv'
  BY <1>1, <1>4 DEF Obtain
<1>5. CASE DeviceInit
  BY <1>1, <1>5 DEF DeviceInit
<1>6. ASSUME NEW t \in Threads, NEW q \in Queues, QueueInit(t, q) PROVE SoonInv'
  BY <1>3, <1>6 DEF QueueInit, Enter, Captured, Procs
<1>7. ASSUME NEW t \in Threads, NEW b \in Bufs, CmdBufInit(t, b) PROVE SoonInv'
  <2>1. /\ call[t].pc = "game" /\ call' = [call EXCEPT ![t] = [pc |-> "buffer", obj |-> b]]
        /\ due' = (due \/ (nvnDevice /\ nvnQueue # Null))
        /\ UNCHANGED <<nvnDevice, nvnQueue, nvnCmdBuf, hasInitImGui, overlapped>>
    BY <1>7 DEF CmdBufInit, Enter, Captured, Procs
  <2>2. call'[t].pc = "buffer" /\ \A u \in Threads \ {t} : call'[u] = call[u]
    BY <2>1, CallFacts DEF Captured, Pcs
  <2>3. Heading(t)'
    BY <2>2 DEF Heading
  <2> QED BY <2>1, <2>2, <2>3 DEF SoonInv
<1>8. ASSUME NEW t \in Threads, NEW q \in Queues, Present(t, q) PROVE SoonInv'
  BY <1>2, <1>8 DEF Present, Presenting
<1>9. ASSUME NEW t \in Threads, QueueCapture(t) PROVE SoonInv'
  <2>1. call[t].obj # Null
    BY <1>9, NullAssumption DEF QueueCapture, Captured
  <2> QED BY <1>2, <1>9, <2>1 DEF QueueCapture
<1>10. ASSUME NEW t \in Threads, PresentStep(t) PROVE SoonInv'
  <2>1. CASE TestDraw(t)
    BY <1>2, <2>1 DEF TestDraw, Presenting
  <2>2. CASE NewFrame(t)
    BY <1>1, <1>2, <2>2 DEF NewFrame, End, Presenting
  <2>3. CASE FrameInput(t)
    BY <1>1, <1>2, <2>3 DEF FrameInput, Presenting
  <2>4. CASE Render(t)
    BY <1>1, <1>2, <2>4 DEF Render, Drawn, End, Presenting
  <2>5. CASE RealPresent(t)
    BY <1>1, <1>2, <2>5 DEF RealPresent, End, Presenting
  <2> QED BY <1>10, <2>1, <2>2, <2>3, <2>4, <2>5 DEF PresentStep
<1>11. ASSUME NEW t \in Threads, SetViewport(t) PROVE SoonInv'
  BY <1>1, <1>11 DEF SetViewport, End, vars, glueVars
<1>12. CASE InputStep \/ Gone \/ UNCHANGED vars
  BY <1>1, <1>12 DEF InputStep, Gone, vars, glueVars
<1> QED BY <1>4, <1>5, <1>6, <1>7, <1>8, <1>9, <1>10, <1>11, <1>12, InitKeepsSoon DEF Next

-----------------------------------------------------------------------------
(* The theorems.                                                           *)

LEMMA NextKeepsInput ==
  ASSUME InputInv, [Next]_vars
  PROVE  InputInv'
<1>1. (UpdatePadState \/ FrameStep) \/ GameReads \/ UNCHANGED inputVars
  BY DEF Next, Obtain, DeviceInit, InputStep, Gone, QueueInit, CmdBufInit, Enter, Present, SetViewport, QueueCapture,
         InitStep, CmdBufCapture, TestInit, TestHandles, Refused, CreateContext, CheckBackend, Attach, Load,
         InitInput, StoreStarted, PresentStep, TestDraw, NewFrame, FrameInput, Render, RealPresent, End, vars
<1> QED BY <1>1, FrameKeeps, ReadsKeep, InputStays

IInv == InputInv /\ Captured /\ Begun /\ RefusedInv /\ OnceInv /\ SoonInv

(* The six parts together are inductive.                                  *)
THEOREM Invariant == Spec => []IInv
<1>1. Init => IInv
  <2> SUFFICES ASSUME Init PROVE IInv
    OBVIOUS
  <2>1. \A t \in Threads : call[t].pc = "game" /\ ~backend[t].made
    BY DEF Init, Outside, NoBackend
  <2>2. call \in [Threads -> [pc: Pcs, obj: Queues \cup Bufs \cup {Null}]]
    BY DEF Init, Outside, Pcs
  <2>3. backend \in [Threads -> Backends]
    BY DEF Init, NoBackend, Backends
  <2>4. Captured
    <3>0. nvnDevice \in BOOLEAN /\ ~nvnDevice /\ overlapped \in BOOLEAN /\ due \in BOOLEAN
      BY Zenon DEF Init
    <3>1. nvnQueue = Null /\ nvnCmdBuf = Null /\ presented \in 0..1
      BY DEF Init
    <3>2. got = {} /\ temp = {} /\ ready = {} /\ denied = {}
      BY DEF Init
    <3>3. \A t \in Threads : call[t].pc = "game"
      BY <2>1
    <3> QED BY <2>2, <3>0, <3>1, <3>2, <3>3 DEF Captured, Known, Presenting
  <2>5. Begun
    BY <2>1, <2>3 DEF Init, Begun, Attaching, Behind
  <2>6. OnceInv
    BY <2>1 DEF Init, OnceInv, InInit, InitPcs
  <2>7. SoonInv
    BY <2>1 DEF Init, SoonInv
  <2>8. RefusedInv
    BY DEF Init, RefusedInv
  <2> QED BY <2>4, <2>5, <2>6, <2>7, <2>8, InputStart DEF Init, IInv
<1>2. IInv /\ [Next]_vars => IInv'
  BY NextKeepsInput, NextKeepsCaptured, NextKeepsBegun, NextKeepsRefused, NextKeepsOnce, NextKeepsSoon DEF IInv
<1> QED BY <1>1, <1>2, PTL DEF Spec

(* Types, for any number of threads, objects, keys and readers.            *)
THEOREM TypeCorrect == Spec => []TypeOK
<1>1. IInv => TypeOK
  BY DEF IInv, InputInv, Captured, Known, Begun, Backends, TypeOK, Pcs, Presenting
<1> QED BY <1>1, Invariant, PTL

(* However many threads initialise command buffers: one start, and no      *)
(* "Already Initialized Imgui Backend!", unless two were inside it at      *)
(* once.                                                                   *)
THEOREM StartIsOnce == Spec => []StartedOnce
<1>1. IInv => StartedOnce
  BY OnceGivesStartedOnce DEF IInv
<1> QED BY <1>1, Invariant, PTL

(* In whatever order threads capture a device, a queue and command         *)
(* buffers: once they are known, no cmdBufInit leaves without a start.     *)
THEOREM StartsAsSoon == Spec => []StartsWhenComplete
<1>1. IInv => StartsWhenComplete
  BY DEF IInv, SoonInv, Heading, StartsWhenComplete
<1> QED BY <1>1, Invariant, PTL

(* No substitute and no frame uses what is not there, overlap or not, and  *)
(* an object is used uninitialised only if the driver was asked for it and *)
(* refused, whichever objects it refuses.                                  *)
THEOREM NothingIsMissing == Spec => []NothingMissing
<1>1. IInv => NothingMissing
  BY DEF IInv, Begun, RefusedInv, NothingMissing
<1> QED BY <1>1, Invariant, PTL

(* Edges of keys and mouse buttons add up frame by frame, and the GUI's own *)
(* read is never blanked (InputHelper::updatePadState, newFrame).          *)
THEOREM InputIsWhole == Spec => []InputWhole
<1>1. IInv => ImGuiInStep /\ OwnReadWhole
  BY DEF IInv, InputInv, ImGuiInStep
<1>2. TypeOK /\ ImGuiInStep /\ OwnReadWhole => InputWhole
  BY DEF InputWhole
<1> QED BY <1>1, <1>2, Invariant, TypeCorrect, PTL

(* The game's reads are blanked only if they began before the first update *)
(* had ended, whatever the render thread and other readers do between a    *)
(* hooked call and its two tests (disableButtons).                         *)
THEOREM PadsAreGiven == Spec => []PadsReachGame
<1>1. IInv => PadsReachGame
  BY DEF IInv, InputInv
<1> QED BY <1>1, Invariant, PTL

=============================================================================
