------------------------------ MODULE NvnGlue -------------------------------
(***************************************************************************)
(* How the GUI gets into the game's rendering: program/imgui_nvn.cpp and   *)
(* InitBackend of imgui_backend/imgui_impl_nvn.cpp.                        *)
(*                                                                         *)
(* The game asks the driver for its functions by name and is given         *)
(* substitutes for some.  They remember the device, the queue and the      *)
(* command buffer that the game initialises last; the first initialisation *)
(* of a command buffer that finds all three starts ImGui on them.  From    *)
(* then on every present draws the GUI first.                              *)
(*                                                                         *)
(* The driver nvn and Dear ImGui are external.  The game has the functions *)
(* before it calls them, and it presents from one thread; it initialises   *)
(* queues and command buffers on any, in any order, each once.  The driver *)
(* may refuse its objects; the substitutes keep the pointer whatever it    *)
(* answered.  What is drawn is the business of ImguiBackend, and the input *)
(* of a frame is that of Input.                                            *)
(*                                                                         *)
(* Next to some definitions stands a faulty variant that no action uses:   *)
(* TLC is given it in place of the definition, to see that a property      *)
(* fails then.                                                             *)
(***************************************************************************)
EXTENDS Input, FiniteSets

CONSTANTS
  Threads,      \* threads of the game that render
  Presenter,    \* the one that presents
  Queues, Bufs, \* the queues and command buffers it initialises
  Refusable,    \* objects the driver may refuse
  Null          \* the null pointer

ASSUME PresenterAssumption == Presenter \in Threads
ASSUME NullAssumption == Null \notin {"device"} \cup Threads \cup Queues \cup Bufs
ASSUME ObjectsAssumption == "device" \notin Queues \cup Bufs

VARIABLES
  got,        \* the driver's functions that the game has, substituted or not
  temp,       \* those whose originals imgui_nvn.cpp has
  ready,      \* driver: the objects that are initialised
  denied,     \* driver: those that it refused to initialise
  nvnDevice, nvnQueue, nvnCmdBuf,
  hasInitImGui,
  context,    \* ImGui has a current context
  userData,   \* its BackendRendererUserData: the thread that set it, or Null
  backend,    \* per thread, the NvnBackendData it made
  call,       \* per thread, the substitute it is in, and what it has to capture
  outcome,    \* why the process ended, or "none"
  presented,  \* driver: presents it got from this call of presentTexture
  overlapped, \* history: two threads were inside InitImGui at once
  due         \* history: a cmdBufInit began with a device and a queue known

glue     == <<got, temp, ready, denied, nvnDevice, nvnQueue, nvnCmdBuf, hasInitImGui>>
gui      == <<context, userData, backend>>
glueVars == <<glue, gui, call, outcome, presented, overlapped, due>>
vars     == <<glueVars, inputVars>>

\* By the bootstrap loader, and by getProc.
Bootstrap == {"nvnDeviceInitialize", "nvnDeviceGetProcAddress"}
Procs == {"nvnQueueInitialize", "nvnCommandBufferInitialize",
          "nvnCommandBufferSetViewport", "nvnQueuePresentTexture"}

Outside == [pc |-> "game", obj |-> Null]
NoBackend == [made |-> FALSE, device |-> FALSE, queue |-> Null, cmdBuf |-> Null, isInitialized |-> FALSE]

Init ==
  /\ InputInit
  /\ got = {} /\ temp = {} /\ ready = {} /\ denied = {}
  /\ nvnDevice = FALSE /\ nvnQueue = Null /\ nvnCmdBuf = Null
  /\ hasInitImGui = FALSE
  /\ context = FALSE /\ userData = Null
  /\ backend = [t \in Threads |-> NoBackend]
  /\ call = [t \in Threads |-> Outside]
  /\ outcome = "none"
  /\ presented = 0
  /\ overlapped = FALSE /\ due = FALSE

At(t, pc) == outcome = "none" /\ call[t].pc = pc
Goto(t, pc) == call' = [call EXCEPT ![t] = [pc |-> pc, obj |-> Null]]
End(why) == outcome' = why /\ UNCHANGED <<glue, gui, call, presented, overlapped, due, inputVars>>

\* Inside InitImGui, up to the store of what it returns.
InitPcs == {"handles", "refused", "context", "check", "attach", "load", "input", "started"}
InInit(t) == call[t].pc \in InitPcs

-----------------------------------------------------------------------------
(* NvnBootstrapHook and getProc: the original is remembered, and the game  *)
(* gets the substitute.                                                    *)

Obtain(f) ==
  /\ outcome = "none" /\ f \notin got
  /\ f \in Procs => "nvnDeviceGetProcAddress" \in got
  /\ got' = got \cup {f}
  /\ temp' = temp \cup {f}
  /\ UNCHANGED <<ready, denied, nvnDevice, nvnQueue, nvnCmdBuf, hasInitImGui, gui, call, outcome,
                 presented, overlapped, due, inputVars>>

(* The driver initialises an object or refuses to, and is asked but once.  *)
Asked(x) ==
  /\ x \notin ready \cup denied
  /\ \/ ready' = ready \cup {x} /\ UNCHANGED denied
     \/ x \in Refusable /\ denied' = denied \cup {x} /\ UNCHANGED ready

(* deviceInit, which also loads the driver's functions for the backend.    *)
(* Nobody else can use the device until it returns.                        *)
DeviceInit ==
  /\ outcome = "none" /\ Bootstrap \subseteq got
  /\ Asked("device")
  /\ nvnDevice' = TRUE
  /\ UNCHANGED <<got, temp, nvnQueue, nvnCmdBuf, hasInitImGui, gui, call, outcome,
                 presented, overlapped, due, inputVars>>

(* A call of the game: the driver's function first.                        *)
Enter(t, f, pc, x) ==
  /\ At(t, "game") /\ Procs \subseteq got
  /\ IF f \notin temp THEN End("null")
     ELSE /\ call' = [call EXCEPT ![t] = [pc |-> pc, obj |-> x]]
          /\ due' = (due \/ (pc = "buffer" /\ nvnDevice /\ nvnQueue # Null))
          /\ Asked(x)
          /\ UNCHANGED <<got, temp, nvnDevice, nvnQueue, nvnCmdBuf, hasInitImGui, gui, outcome,
                         presented, overlapped, inputVars>>

QueueInit(t, q) == Enter(t, "nvnQueueInitialize", "queue", q)

QueueCapture(t) ==
  /\ At(t, "queue")
  /\ nvnQueue' = call[t].obj
  /\ Goto(t, "game")
  /\ UNCHANGED <<got, temp, ready, denied, nvnDevice, nvnCmdBuf, hasInitImGui, gui, outcome,
                 presented, overlapped, due, inputVars>>

CmdBufInit(t, b) == Enter(t, "nvnCommandBufferInitialize", "buffer", b)

CmdBufIntoQueue(t) ==
  /\ At(t, "buffer")
  /\ nvnQueue' = call[t].obj
  /\ Goto(t, "test")
  /\ UNCHANGED <<got, temp, ready, denied, nvnDevice, nvnCmdBuf, hasInitImGui, gui, outcome,
                 presented, overlapped, due, inputVars>>
CmdBufCapture(t) ==
  /\ At(t, "buffer")
  /\ nvnCmdBuf' = call[t].obj
  /\ Goto(t, "test")
  /\ UNCHANGED <<got, temp, ready, denied, nvnDevice, nvnQueue, hasInitImGui, gui, outcome,
                 presented, overlapped, due, inputVars>>

-----------------------------------------------------------------------------
(* InitImGui, in cmdBufInit of thread t.                                   *)

NeedsInitAlways == TRUE
NeedsInit == ~hasInitImGui

TestInit(t) ==
  /\ At(t, "test")
  /\ Goto(t, IF NeedsInit THEN "handles" ELSE "game")
  /\ overlapped' = (overlapped \/ (NeedsInit /\ \E u \in Threads : InInit(u)))
  /\ UNCHANGED <<glue, gui, outcome, presented, due, inputVars>>

HasHandles == nvnDevice /\ nvnQueue # Null /\ nvnCmdBuf # Null

TestHandles(t) ==
  /\ At(t, "handles")
  /\ Goto(t, IF HasHandles THEN "context" ELSE "refused")
  /\ UNCHANGED <<glue, gui, outcome, presented, overlapped, due, inputVars>>

(* False is stored then, whatever another thread stored meanwhile.         *)
Refused(t) ==
  /\ At(t, "refused")
  /\ hasInitImGui' = FALSE
  /\ Goto(t, "game")
  /\ UNCHANGED <<got, temp, ready, denied, nvnDevice, nvnQueue, nvnCmdBuf, gui, outcome,
                 presented, overlapped, due, inputVars>>

(* CreateContext leaves a context that is current already in place.        *)
CreateContext(t) ==
  /\ At(t, "context")
  /\ context' = TRUE
  /\ Goto(t, "check")
  /\ UNCHANGED <<glue, userData, backend, outcome, presented, overlapped, due, inputVars>>

(* "Already Initialized Imgui Backend!"                                    *)
CheckBackend(t) ==
  /\ At(t, "check")
  /\ IF userData # Null THEN End("already")
     ELSE Goto(t, "attach") /\ UNCHANGED <<glue, gui, outcome, presented, overlapped, due, inputVars>>

Attached(t) ==
  [made |-> TRUE, device |-> nvnDevice, queue |-> nvnQueue, cmdBuf |-> nvnCmdBuf, isInitialized |-> FALSE]

Attach(t) ==
  /\ At(t, "attach")
  /\ backend' = [backend EXCEPT ![t] = Attached(t)]
  /\ userData' = t
  /\ Goto(t, "load")
  /\ UNCHANGED <<glue, context, outcome, presented, overlapped, due, inputVars>>

(* What a backend was given and the driver has not initialised.            *)
Handles(t) == {IF backend[t].device THEN "device" ELSE Null, backend[t].queue, backend[t].cmdBuf}
Unready(t) == Handles(t) \ ready

(* The font, the shaders, the pools: a file that is not there aborts, what *)
(* the driver refuses leaves the backend uninitialized, and anything may   *)
(* come of a device that is not.                                           *)
Load(t) ==
  /\ At(t, "load")
  /\ \/ End("noFile")
     \/ "device" \in Unready(t) /\ End("unready")
     \/ \E ok \in BOOLEAN :
          /\ backend' = [backend EXCEPT ![t].isInitialized = ok]
          /\ Goto(t, "input")
          /\ UNCHANGED <<glue, context, userData, outcome, presented, overlapped, due, inputVars>>

(* initKBM and setPort.                                                    *)
InitInput(t) ==
  /\ At(t, "input")
  /\ Goto(t, "started")
  /\ UNCHANGED <<glue, gui, outcome, presented, overlapped, due, inputVars>>

StartForgotten == hasInitImGui
Started == TRUE

StoreStarted(t) ==
  /\ At(t, "started")
  /\ hasInitImGui' = Started
  /\ Goto(t, "game")
  /\ UNCHANGED <<got, temp, ready, denied, nvnDevice, nvnQueue, nvnCmdBuf, gui, outcome,
                 presented, overlapped, due, inputVars>>

InitStep(t) ==
  \/ CmdBufCapture(t) \/ TestInit(t) \/ TestHandles(t) \/ Refused(t) \/ CreateContext(t)
  \/ CheckBackend(t) \/ Attach(t) \/ Load(t) \/ InitInput(t) \/ StoreStarted(t)

-----------------------------------------------------------------------------
(* presentTexture and setViewport.                                         *)

Present(t, q) ==
  /\ t = Presenter /\ q \in ready
  /\ At(t, "game")
  /\ Goto(t, "present")
  /\ presented' = 0
  /\ UNCHANGED <<glue, gui, outcome, overlapped, due, inputVars>>

DrawsAlways == TRUE
DrawsGui == hasInitImGui

TestDraw(t) ==
  /\ At(t, "present")
  /\ Goto(t, IF DrawsGui THEN "new" ELSE "real")
  /\ UNCHANGED <<glue, gui, outcome, presented, overlapped, due, inputVars>>

(* procDraw: newFrame asserts that there is a backend, and goes on through *)
(* the input of the frame.                                                 *)
NewFrame(t) ==
  /\ At(t, "new")
  /\ IF ~context \/ userData = Null THEN End("null")
     ELSE /\ UpdatePadState
          /\ Goto(t, "frame")
          /\ UNCHANGED <<glue, gui, outcome, presented, overlapped, due>>

FrameInput(t) ==
  /\ At(t, "frame")
  /\ IF frame = "out"
     THEN Goto(t, "render") /\ UNCHANGED inputVars
     ELSE FrameStep /\ UNCHANGED call
  /\ UNCHANGED <<glue, gui, outcome, presented, overlapped, due>>

NothingPresented == "game"
Drawn == "real"

(* renderDrawData draws if the backend is initialized, on its own objects: *)
(* with one that the driver never initialised anything may come of it.     *)
Render(t) ==
  /\ At(t, "render")
  /\ LET uses == IF backend[userData].isInitialized THEN Handles(userData) ELSE {} IN
       IF Null \in uses THEN End("null")
       ELSE \/ uses \ ready # {} /\ End("unready")
            \/ /\ Goto(t, Drawn)
               /\ UNCHANGED <<glue, gui, outcome, presented, overlapped, due, inputVars>>

RealPresent(t) ==
  /\ At(t, "real")
  /\ IF "nvnQueuePresentTexture" \notin temp THEN End("null")
     ELSE /\ presented' = presented + 1
          /\ Goto(t, "game")
          /\ UNCHANGED <<glue, gui, outcome, overlapped, due, inputVars>>

PresentStep(t) ==
  TestDraw(t) \/ NewFrame(t) \/ FrameInput(t) \/ Render(t) \/ RealPresent(t)

(* setViewport tells ImGui the size, which is left out here.               *)
SetViewport(t) ==
  /\ At(t, "game") /\ Procs \subseteq got
  /\ IF hasInitImGui /\ ~context THEN End("null") ELSE UNCHANGED vars

-----------------------------------------------------------------------------

Gone == outcome # "none" /\ UNCHANGED vars

InputStep == outcome = "none" /\ GameReads /\ UNCHANGED glueVars

Next ==
  \/ \E f \in Bootstrap \cup Procs : Obtain(f)
  \/ DeviceInit \/ InputStep \/ Gone
  \/ \E t \in Threads :
       \/ \E q \in Queues : QueueInit(t, q) \/ Present(t, q)
       \/ \E b \in Bufs : CmdBufInit(t, b)
       \/ SetViewport(t) \/ QueueCapture(t) \/ InitStep(t) \/ PresentStep(t)

Spec == Init /\ [][Next]_vars

(* A thread in presentTexture waits for nothing.                           *)
FairSpec == Spec /\ WF_vars(PresentStep(Presenter))

-----------------------------------------------------------------------------
(* Properties.                                                             *)

TypeOK ==
  /\ InputTypeOK
  /\ got \subseteq Bootstrap \cup Procs /\ temp \subseteq Bootstrap \cup Procs
  /\ ready \cup denied \subseteq {"device"} \cup Queues \cup Bufs
  /\ nvnDevice \in BOOLEAN /\ nvnQueue \in Queues \cup {Null} /\ nvnCmdBuf \in Bufs \cup {Null}
  /\ hasInitImGui \in BOOLEAN /\ context \in BOOLEAN
  /\ userData \in Threads \cup {Null}
  /\ backend \in [Threads -> [made: BOOLEAN, device: BOOLEAN, queue: Queues \cup {Null},
                             cmdBuf: Bufs \cup {Null}, isInitialized: BOOLEAN]]
  /\ call \in [Threads -> [pc: {"game", "queue", "buffer", "test", "present", "new", "frame",
                               "render", "real"} \cup InitPcs,
                          obj: Queues \cup Bufs \cup {Null}]]
  /\ outcome \in {"none", "null", "already", "noFile", "unready"}
  /\ presented \in 0..1
  /\ overlapped \in BOOLEAN /\ due \in BOOLEAN

(* ImGui is started once.  The test of hasInitImGui and its store are far  *)
(* apart and without a lock: two threads that initialise command buffers   *)
(* at once can both pass it.  Unless they do there is one backend, nobody  *)
(* meets "Already Initialized Imgui Backend!", and what has started stays. *)
StartedOnce ==
  ~overlapped =>
    /\ outcome # "already"
    /\ Cardinality({t \in Threads : backend[t].made}) <= 1
    /\ (\A t \in Threads : ~InInit(t)) => (hasInitImGui <=> userData # Null)

(* It is started as soon as it can be: when a command buffer was begun     *)
(* with a device and a queue known, and nobody is in cmdBufInit any more,  *)
(* ImGui runs or the process has ended, in whatever order threads went.    *)
StartsWhenComplete ==
  /\ due /\ ~overlapped /\ outcome = "none"
  /\ \A t \in Threads : call[t].pc \notin {"buffer", "test"} \cup InitPcs
  => hasInitImGui

(* No substitute calls an original that imgui_nvn.cpp does not have, and   *)
(* no frame is begun without a context and a backend, or drawn with null   *)
(* for a handle.  A device, a queue or a command buffer that is not        *)
(* initialised may be used, for nobody looks at what the driver answers:   *)
(* but only one that the driver was asked for, and refused.                *)
NothingMissing ==
  /\ outcome # "null"
  /\ outcome = "unready" =>
       \E t \in Threads : backend[t].made /\ Unready(t) # {} /\ Unready(t) \subseteq denied

(* The pads and the keyboard pass through the hooks whole on their way to  *)
(* the GUI, and presses and releases add up in ImGui, while the game reads *)
(* the same pads and the glue is started by whatever thread.               *)
InputWhole == TypeOK /\ ImGuiInStep /\ OwnReadWhole

(* Each present of the game reaches the driver, whatever the GUI does.     *)
PresentsReachDriver ==
  call[Presenter].pc = "present" ~> (presented = 1 \/ outcome # "none")

=============================================================================
