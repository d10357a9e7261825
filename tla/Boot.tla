-------------------------------- MODULE Boot --------------------------------
(***************************************************************************)
(* The start of the program: the linker (Rtld), then exl_module_init of    *)
(* lib/init/init.cpp, which finds the modules and regions of the process   *)
(* (MemLayout), and gives the patchers their view of the game's code, the  *)
(* first time the process asks for its own handle (ProcHandle).  From then *)
(* on the threads of the game run: they call through the linkage tables    *)
(* and may ask for the handle.                                             *)
(*                                                                         *)
(* What exl_main then does is in the modules of its parts (HookEngine,     *)
(* NvnGlue, DbgGui).  Faulty variants next to definitions are for TLC only.*)
(***************************************************************************)
EXTENDS Rtld, MemLayout, ProcHandle

CONSTANT BootThread

ASSUME BootAssumption == BootThread \in Threads

VARIABLES
  loader,  \* "game", or "self" in a program built to be the entrypoint
  phase

vars == <<link, layout, machine, mesosphere, handles, loader, phase>>

Init ==
  /\ RtldInit /\ LayoutInit /\ HandleInit
  /\ loader \in {"game", "self"} /\ (loader = "self" => Len(program.modules) = 1)
  /\ phase = "link"

-----------------------------------------------------------------------------
LinkModule ==
  /\ phase = "link"
  /\ \E m \in Modules : IF loader = "game" THEN LinkStep(m) ELSE DynamicSelf(m)
  /\ UNCHANGED <<layout, machine, mesosphere, handles, loader, phase>>

StartInit ==
  /\ phase = "link" /\ (Linked \/ asserted)
  /\ phase' = IF asserted THEN "aborted" ELSE "scan"
  /\ UNCHANGED <<link, layout, machine, mesosphere, handles, loader>>

(* FindModules.  The entrypoint build knows its own place in the table.    *)
Scan ==
  /\ phase = "scan"
  /\ IF TableFull
     THEN phase' = "aborted" /\ UNCHANGED <<scan, modules, self>>
     ELSE /\ ScanRange
          /\ phase' = IF ~Wrapped(NextRange) THEN "scan"
                      ELSE IF loader = "self" \/ SelfFound' THEN "regions" ELSE "aborted"
  /\ UNCHANGED <<link, regions, virtmem, machine, mesosphere, handles, loader>>

SetRegions ==
  /\ phase = "regions"
  /\ IF CanFindRegions THEN FindRegions /\ phase' = "virtmem" ELSE phase' = "aborted" /\ UNCHANGED regions
  /\ UNCHANGED <<link, scan, modules, self, virtmem, machine, mesosphere, handles, loader>>

SetVirtmem ==
  /\ phase = "virtmem"
  /\ IF CanFindRegions THEN VirtmemSetup /\ phase' = "patcher" ELSE phase' = "aborted" /\ UNCHANGED virtmem
  /\ UNCHANGED <<link, scan, modules, self, regions, machine, mesosphere, handles, loader>>

(* The view is made with svcMapProcessMemory(proc_handle::Get(), ...).     *)
InitPatcherWithoutHandle ==
  /\ phase = "patcher"
  /\ phase' = IF HasModule(MainModuleIdx) THEN "running" ELSE "aborted"
  /\ UNCHANGED <<link, layout, machine, mesosphere, handles, loader>>

InitPatcherImpl ==
  /\ phase = "patcher"
  /\ IF HasModule(MainModuleIdx)
     THEN Enter(BootThread) /\ phase' = "handle"
     ELSE phase' = "aborted" /\ UNCHANGED handles
  /\ UNCHANGED <<link, layout, machine, mesosphere, loader>>

Main ==
  /\ phase = "handle" /\ At(BootThread, "out")
  /\ phase' = "running"
  /\ UNCHANGED <<link, layout, machine, mesosphere, handles, loader>>

BootStep ==
  LinkModule \/ StartInit \/ Scan \/ SetRegions \/ SetVirtmem \/ InitPatcherImpl \/ Main

Ask(t) ==
  /\ phase = "running" /\ Enter(t)
  /\ UNCHANGED <<link, layout, machine, mesosphere, loader, phase>>

GetStep(t) ==
  /\ phase # "aborted" /\ (Client(t) \/ Server(t))
  /\ UNCHANGED <<link, layout, machine, mesosphere, loader, phase>>

MakeCall(t) ==
  /\ phase = "running" /\ (CallSome(t) \/ CallStep(t))
  /\ UNCHANGED <<layout, machine, mesosphere, handles, loader, phase>>

(* An abort ends the process, and so does a call to address zero.          *)
Over ==
  /\ phase = "aborted" \/ refused
  /\ UNCHANGED vars

Next == BootStep \/ Over \/ (\E t \in Threads : Ask(t) \/ GetStep(t)) \/ (\E t \in Callers : MakeCall(t))

(* A thread that can run does: the kernel schedules them preemptively.     *)
Fairness ==
  /\ WF_vars(BootStep)
  /\ \A t \in Threads : WF_vars(GetStep(t))

Spec == Init /\ [][Next]_vars /\ Fairness

-----------------------------------------------------------------------------
(* Why the program may stop before its main.                               *)
AbortExplained ==
  \/ asserted \/ refused
  \/ Cardinality({k \in DOMAIN space : IsModule(k)}) >= MaxModules
  \/ BehindBroken(own)
  \/ ~CanFindRegions
  \/ ~HasModule(MainModuleIdx)

(* The scan comes to its end, the wait for the thread that receives the    *)
(* handle too, and main is reached unless one of its reasons keeps it.     *)
BootEnds == <>(phase = "running" \/ (AbortExplained /\ (phase = "aborted" \/ refused)))
=============================================================================
