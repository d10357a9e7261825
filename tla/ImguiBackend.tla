---------------------------- MODULE ImguiBackend -----------------------------
(***************************************************************************)
(* How a frame of the GUI is drawn: setupShaders, setupFont and            *)
(* renderDrawData of imgui_backend/imgui_impl_nvn.cpp, and MemoryBuffer.   *)
(*                                                                         *)
(* All of a frame's vertices go into one buffer of memory that the GPU     *)
(* reads, and all of its indices into another; a frame that needs more     *)
(* than they have gets new ones.  Commands that name places in them are    *)
(* recorded and submitted; the GPU (external) runs them later, and reads   *)
(* the memory as it is then.  Nothing waits for the GPU.                   *)
(*                                                                         *)
(* Dear ImGui (external) gives one of Frames at a time.  A command with an *)
(* empty clip rectangle is one that is not visible; the scaling of the     *)
(* rectangle, the matrix and the render state are left out, as is the test *)
(* shader, which nothing turns on.  The size of a vertex is VtxUnits, that *)
(* of an index one unit.                                                   *)
(*                                                                         *)
(* Next to some definitions stands a faulty variant that no action uses:   *)
(* TLC is given it in place of the definition, to see that a property      *)
(* fails then.                                                             *)
(***************************************************************************)
EXTENDS Naturals, FiniteSets, Sequences

CONSTANTS
  Frames,      \* the draw data that ImGui may give
  VtxUnits,    \* sizeof(ImDrawVert)
  Page,        \* what the size of a buffer is a multiple of
  MaxFrames,   \* bound: frames of a run
  None         \* no value: no texture, memory nobody wrote, no buffer

ASSUME UnitsAssumption == VtxUnits \in Nat \ {0} /\ Page \in Nat \ {0} /\ None \notin Nat

(* What Dear ImGui gives: a command's indices are some of its list's, and   *)
(* name vertices of its list.                                              *)
ASSUME FramesAssumption ==
  /\ MaxFrames \in Nat
  /\ \A frame \in Frames :
       /\ Len(frame.lists) \in Nat /\ DOMAIN frame.lists = 1..Len(frame.lists)
       /\ \A i \in DOMAIN frame.lists :
            LET list == frame.lists[i] IN
            /\ Len(list.vtx) \in Nat /\ DOMAIN list.vtx = 1..Len(list.vtx)
            /\ Len(list.idx) \in Nat /\ DOMAIN list.idx = 1..Len(list.idx)
            /\ Len(list.cmds) \in Nat /\ DOMAIN list.cmds = 1..Len(list.cmds)
            /\ \A c \in DOMAIN list.cmds :
                 LET cmd == list.cmds[c] IN
                 /\ cmd.visible \in BOOLEAN
                 /\ cmd.elems \in Nat /\ cmd.idxOffset \in Nat /\ cmd.vtxOffset \in Nat
                 /\ cmd.idxOffset + cmd.elems <= Len(list.idx)
                 /\ \A n \in 1..cmd.elems :
                      /\ list.idx[cmd.idxOffset + n] \in Nat
                      /\ cmd.vtxOffset + list.idx[cmd.idxOffset + n] < Len(list.vtx)

VARIABLES
  backend,     \* "new", "half" (the driver refused something) or "ready"
  vtxBuffer, idxBuffer,
  memory,      \* heap: the buffers' memory that is not freed, by number
  made,        \* how many were allocated
  draw,        \* the call of renderDrawData
  queue,       \* driver: what is submitted and not yet executed
  gpu,         \* how far the GPU is with the first of them, and what is bound
  screen,      \* what the GPU executed last
  count,       \* frames begun
  outcome      \* why the process ended, or "none"

vars == <<backend, vtxBuffer, idxBuffer, memory, made, draw, queue, gpu, screen, count, outcome>>

NoBuffer == [id |-> None, size |-> 0, ready |-> FALSE, data |-> <<>>]
NoDraw == [pc |-> "out", frame |-> None, next |-> 1, cmd |-> 0, vtxOffset |-> 0, idxOffset |-> 0,
           bound |-> None, commands |-> <<>>]
NoGpu == [done |-> 0, tex |-> None, id |-> None, at |-> 0, size |-> 0, picture |-> <<>>]

Init ==
  /\ backend = "new"
  /\ vtxBuffer = NoBuffer /\ idxBuffer = NoBuffer
  /\ memory = {} /\ made = 0
  /\ draw = NoDraw
  /\ queue = <<>> /\ gpu = NoGpu
  /\ screen = [frame |-> None, picture |-> <<>>, touched |-> FALSE]
  /\ count = 0
  /\ outcome = "none"

-----------------------------------------------------------------------------
(* InitBackend: every step of setupShaders and setupFont may be refused by *)
(* the driver, and what comes after a refusal is not done.                 *)

InitBackend ==
  /\ backend = "new"
  /\ backend' \in {"half", "ready"}
  /\ UNCHANGED <<vtxBuffer, idxBuffer, memory, made, draw, queue, gpu, screen, count, outcome>>

-----------------------------------------------------------------------------
(* MemoryBuffer.                                                           *)

AlignedNot(size) == size
Aligned(size) == ((size + Page - 1) \div Page) * Page

(* The buffer that a frame needs.  The driver may refuse the pool, which   *)
(* then says any size, or the buffer in it, which is then not ready.       *)
Buffers(size) ==
  LET new == [id |-> made + 1, size |-> Aligned(size), ready |-> TRUE,
              data |-> [u \in 1..Aligned(size) |-> None]]
  IN {new, [new EXCEPT !.ready = FALSE]}
       \cup {[new EXCEPT !.ready = FALSE, !.size = any] : any \in {0, 3 * Page}}

\* Commands that are submitted still name the memory.
Touch(q) == [i \in DOMAIN q |-> [q[i] EXCEPT !.touched = TRUE]]

FreedNothing(b) == memory
Freed(b) == memory \ {b.id}

-----------------------------------------------------------------------------
(* renderDrawData.                                                         *)

TotalVtxSize(frame) ==
  VtxUnits * Cardinality(UNION {{i} \X DOMAIN frame.lists[i].vtx : i \in DOMAIN frame.lists})
TotalIdxSize(frame) ==
  Cardinality(UNION {{i} \X DOMAIN frame.lists[i].idx : i \in DOMAIN frame.lists})

Begin(frame) ==
  /\ draw.pc = "out" /\ backend # "new"
  /\ count < MaxFrames
  /\ count' = count + 1
  /\ draw' = IF frame.valid /\ frame.lists # <<>> /\ backend = "ready"
             THEN [NoDraw EXCEPT !.pc = "vtx", !.frame = frame]
             ELSE draw
  /\ UNCHANGED <<backend, vtxBuffer, idxBuffer, memory, made, queue, gpu, screen, outcome>>

EnoughByCount(b, size) == b.size * VtxUnits >= size
Enough(b, size) == b.size >= size

(* The buffer that is too small is finalized first.                        *)
Grow(b, new, size) ==
  IF b.id # None /\ Enough(b, size)
  THEN new = b /\ UNCHANGED <<memory, made, queue>>
  ELSE /\ new \in Buffers(size)
       /\ made' = made + 1
       /\ memory' = Freed(b) \cup {made + 1}
       /\ queue' = IF b.id = None THEN queue ELSE Touch(queue)

GrowVtx ==
  /\ draw.pc = "vtx"
  /\ \E new \in Buffers(TotalVtxSize(draw.frame)) \cup {vtxBuffer} :
       /\ Grow(vtxBuffer, new, TotalVtxSize(draw.frame))
       /\ vtxBuffer' = new
  /\ draw' = [draw EXCEPT !.pc = "idx"]
  /\ UNCHANGED <<backend, idxBuffer, gpu, screen, count, outcome>>

GrowIdx ==
  /\ draw.pc = "idx"
  /\ \E new \in Buffers(TotalIdxSize(draw.frame)) \cup {idxBuffer} :
       /\ Grow(idxBuffer, new, TotalIdxSize(draw.frame))
       /\ idxBuffer' = new
  /\ draw' = [draw EXCEPT !.pc = "test"]
  /\ UNCHANGED <<backend, vtxBuffer, gpu, screen, count, outcome>>

EitherReady == vtxBuffer.ready \/ idxBuffer.ready
BothReady == vtxBuffer.ready /\ idxBuffer.ready

TestReady ==
  /\ draw.pc = "test"
  /\ draw' = IF BothReady THEN [draw EXCEPT !.pc = "record"] ELSE NoDraw
  /\ UNCHANGED <<backend, vtxBuffer, idxBuffer, memory, made, queue, gpu, screen, count, outcome>>

(* memcpy of values, each so many units long, to an offset.                *)
Written(b, offset, values, units) ==
  [b EXCEPT !.data = [u \in DOMAIN @ |->
     IF u - 1 \in {offset + units * (i - 1) : i \in DOMAIN values}
     THEN values[((u - 1 - offset) \div units) + 1] ELSE @[u]]]
Fits(b, offset, values, units) == offset + units * Len(values) <= b.size

List == draw.frame.lists[draw.next]

(* A list is copied behind those before it, where its vertices are bound.  *)
RecordList ==
  /\ draw.pc = "record" /\ draw.cmd = 0 /\ draw.next <= Len(draw.frame.lists)
  /\ outcome = "none"
  /\ IF ~(Fits(vtxBuffer, draw.vtxOffset, List.vtx, VtxUnits) /\ Fits(idxBuffer, draw.idxOffset, List.idx, 1))
     THEN outcome' = "overrun" /\ UNCHANGED <<vtxBuffer, idxBuffer, draw, queue>>
     ELSE /\ vtxBuffer' = Written(vtxBuffer, draw.vtxOffset, List.vtx, VtxUnits)
          /\ idxBuffer' = Written(idxBuffer, draw.idxOffset, List.idx, 1)
          /\ draw' = [draw EXCEPT !.cmd = 1, !.commands = Append(@,
                        [op |-> "vertices", id |-> vtxBuffer.id, at |-> draw.vtxOffset,
                         size |-> Len(List.vtx) * VtxUnits])]
          /\ queue' = Touch(queue)
          /\ outcome' = outcome
  /\ UNCHANGED <<backend, memory, made, gpu, screen, count>>

(* What is recorded for one command of ImGui: the texture is bound when it *)
(* is another one.                                                         *)
BindsOnce(bound, tex) == bound = None
Binds(bound, tex) == bound # tex

Recorded(cmd) ==
  LET drawing == [op |-> "draw", id |-> idxBuffer.id, at |-> cmd.idxOffset + draw.idxOffset,
                  elems |-> cmd.elems, base |-> cmd.vtxOffset]
  IN IF Binds(draw.bound, cmd.tex) THEN <<[op |-> "texture", tex |-> cmd.tex], drawing>> ELSE <<drawing>>

RecordCommand ==
  /\ draw.pc = "record" /\ draw.cmd # 0 /\ draw.cmd <= Len(List.cmds)
  /\ LET cmd == List.cmds[draw.cmd] IN
     draw' = IF cmd.visible
             THEN [draw EXCEPT !.cmd = @ + 1, !.bound = cmd.tex, !.commands = @ \o Recorded(cmd)]
             ELSE [draw EXCEPT !.cmd = @ + 1]
  /\ UNCHANGED <<backend, vtxBuffer, idxBuffer, memory, made, queue, gpu, screen, count, outcome>>

NextList ==
  /\ draw.pc = "record" /\ draw.cmd # 0 /\ draw.cmd > Len(List.cmds)
  /\ draw' = [draw EXCEPT !.next = @ + 1, !.cmd = 0,
                 !.vtxOffset = @ + Len(List.vtx) * VtxUnits, !.idxOffset = @ + Len(List.idx)]
  /\ UNCHANGED <<backend, vtxBuffer, idxBuffer, memory, made, queue, gpu, screen, count, outcome>>

SubmitCommands ==
  /\ draw.pc = "record" /\ draw.cmd = 0 /\ draw.next > Len(draw.frame.lists)
  /\ queue' = Append(queue, [frame |-> draw.frame, commands |-> draw.commands, touched |-> FALSE])
  /\ draw' = NoDraw
  /\ UNCHANGED <<backend, vtxBuffer, idxBuffer, memory, made, gpu, screen, count, outcome>>

-----------------------------------------------------------------------------
(* The GPU: it executes what is submitted, one command after another, and  *)
(* reads the memory as it is.  Whatever texture was bound before them is   *)
(* the game's.                                                             *)

Junk == <<"junk">>

Read(b, id, offset) ==
  IF b.id = id /\ b.ready /\ offset + 1 \in DOMAIN b.data THEN b.data[offset + 1] ELSE None

VertexAt(command, n) ==
  LET index == Read(idxBuffer, command.id, command.at + n)
      offset == (command.base + index) * VtxUnits
  IN IF index = None \/ offset >= gpu.size THEN None
     ELSE Read(vtxBuffer, gpu.id, gpu.at + offset)
Drawn(command) == [tex |-> gpu.tex, vertices |-> [n \in 1..command.elems |-> VertexAt(command, n - 1)]]

Execute ==
  /\ queue # <<>> /\ gpu.done < Len(Head(queue).commands)
  /\ LET command == Head(queue).commands[gpu.done + 1] IN
     \/ /\ command.op = "texture"
        /\ gpu' = [gpu EXCEPT !.done = @ + 1, !.tex = command.tex]
     \/ /\ command.op = "vertices"
        /\ gpu' = [gpu EXCEPT !.done = @ + 1, !.id = command.id, !.at = command.at, !.size = command.size]
     \/ /\ command.op = "draw"
        /\ gpu' = [gpu EXCEPT !.done = @ + 1, !.picture = Append(@, Drawn(command))]
  /\ UNCHANGED <<backend, vtxBuffer, idxBuffer, memory, made, draw, queue, screen, count, outcome>>

Complete ==
  /\ queue # <<>> /\ gpu.done = Len(Head(queue).commands)
  /\ screen' = [frame |-> Head(queue).frame, touched |-> Head(queue).touched,
                picture |-> IF backend = "ready" THEN gpu.picture ELSE Junk]
  /\ queue' = Tail(queue) /\ gpu' = NoGpu
  /\ UNCHANGED <<backend, vtxBuffer, idxBuffer, memory, made, draw, count, outcome>>

-----------------------------------------------------------------------------

Finished ==
  /\ (count = MaxFrames /\ draw.pc = "out") \/ outcome # "none"
  /\ UNCHANGED vars

Next ==
  \/ InitBackend
  \/ \E frame \in Frames : Begin(frame)
  \/ GrowVtx \/ GrowIdx \/ TestReady
  \/ RecordList \/ RecordCommand \/ NextList \/ SubmitCommands
  \/ Execute \/ Complete \/ Finished

Spec == Init /\ [][Next]_vars

-----------------------------------------------------------------------------
(* Properties.                                                             *)

BufferOK(b) ==
  /\ b.id \in memory \cup {None}
  /\ b.size \in Nat /\ b.ready \in BOOLEAN
  /\ b.ready => b.size % Page = 0 /\ Len(b.data) = b.size

TypeOK ==
  /\ backend \in {"new", "half", "ready"}
  /\ BufferOK(vtxBuffer) /\ BufferOK(idxBuffer)
  /\ memory \subseteq 1..made
  /\ made \in 0..(2 * MaxFrames) /\ count \in 0..MaxFrames
  /\ draw.pc \in {"out", "vtx", "idx", "test", "record"} /\ draw.frame \in Frames \cup {None}
  /\ \A i \in DOMAIN queue : queue[i].frame \in Frames
  /\ outcome \in {"none", "overrun"}

(* What ImGui asked for: every visible command, in the order of the lists, *)
(* with its own texture and the vertices its indices name in its own list. *)
Shown(frame) ==
  {p \in UNION {{i} \X DOMAIN frame.lists[i].cmds : i \in DOMAIN frame.lists} :
     frame.lists[p[1]].cmds[p[2]].visible}
Before(p, q) == p[1] < q[1] \/ (p[1] = q[1] /\ p[2] < q[2])
Rank(frame, p) == Cardinality({q \in Shown(frame) : Before(q, p)}) + 1

Wanted(frame, p) ==
  LET list == frame.lists[p[1]]
      cmd  == list.cmds[p[2]]
  IN [tex |-> cmd.tex,
      vertices |-> [n \in 1..cmd.elems |-> list.vtx[cmd.vtxOffset + list.idx[cmd.idxOffset + n] + 1]]]

Shows(picture, frame) ==
  /\ Len(picture) = Cardinality(Shown(frame))
  /\ \A p \in Shown(frame) : picture[Rank(frame, p)] = Wanted(frame, p)

(* The GPU draws what ImGui asked for, from buffers that grew, were kept   *)
(* from a larger frame or replaced after a refusal, unless the next frame  *)
(* wrote to them or freed them before it was through with these commands.  *)
DrawsFrame == screen.frame # None /\ ~screen.touched => Shows(screen.picture, screen.frame)

(* The lists together never write past the memory of a buffer.             *)
InBounds == outcome = "none"

(* The buffers of a backend in use are what the driver gave it, as large   *)
(* as the backend takes them for, and hold all that is written to them.    *)
BuffersSound == TypeOK /\ InBounds

(* The heap has the memory of the two buffers and nothing else, whatever   *)
(* the driver refused.                                                     *)
NoLeak == memory = {vtxBuffer.id, idxBuffer.id} \ {None}

=============================================================================
