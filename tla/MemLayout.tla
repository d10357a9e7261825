----------------------------- MODULE MemLayout -----------------------------
(***************************************************************************)
(* How the program finds the modules of its process and the regions of its *)
(* address space: lib/util/sys/mem_layout.cpp and virtmemSetup.            *)
(*                                                                         *)
(* The kernel describes the address space range by range, from address     *)
(* zero to where it wraps.  A module is a range of code, one of constants  *)
(* and one of data, in that order; the scan walks the ranges once, and a   *)
(* range that does not go on with the module begun discards it.  Modules   *)
(* are found by their place in the table: the loader first, the game       *)
(* second, the SDK last.                                                   *)
(*                                                                         *)
(* A range is its number in the kernel's order, an address a multiple of   *)
(* 2 MiB.  Faulty variants next to definitions are for TLC only.           *)
(***************************************************************************)
EXTENDS Integers, Sequences

CONSTANTS
  MaxModules,  \* s_MaxModules
  Spaces,      \* address spaces, each the kinds of its ranges in their order
  Kernels      \* what kinds of kernel answer

ASSUME ModulesAssumption == MaxModules \in Nat \ {0}

(* The first range is not a module's, and ranges alike are one range.      *)
ASSUME SpacesAssumption ==
  \A s \in Spaces :
    /\ s \in Seq({"rx", "r", "rw", "other"}) /\ Len(s) > 1 /\ s[1] = "other"
    /\ \A i \in 1..Len(s)-1 : s[i] # s[i+1] \/ s[i] = "other"

VARIABLES
  space,    \* the ranges of the process, "rx", "r", "rw" or "other"
  own,      \* the range __module_start is in
  kernel,   \* "regions", or one without queries for them, of 36 or 32 bits, or neither
  scan,     \* the range queried last, and the ranges of the module begun
  modules,  \* s_ModuleInfos, up to s_ModuleCount
  self,     \* s_SelfModuleIdx
  regions,  \* s_Alias, s_Heap, s_Aslr and s_Stack, [start, size]
  virtmem   \* g_AliasRegion, g_HeapRegion, g_AslrRegion and g_StackRegion, [start, end]

layout  == <<scan, modules, self, regions, virtmem>>
machine == <<space, own, kernel>>

Names == {"alias", "heap", "aslr", "stack"}

LayoutInit ==
  /\ space \in Spaces /\ kernel \in Kernels
  /\ own \in {k \in DOMAIN space : k + 2 \in DOMAIN space
                /\ space[k] = "rx" /\ space[k+1] = "r" /\ space[k+2] = "rw"}
  /\ scan = [at |-> 0, begun |-> <<>>]
  /\ modules = <<>> /\ self = -1
  /\ regions = [n \in Names |-> [start |-> 0, size |-> 0]]
  /\ virtmem = [n \in Names |-> [start |-> 0, end |-> 0]]

-----------------------------------------------------------------------------
(* FindModules, one iteration.                                             *)

Parts == <<"rx", "r", "rw">>

(* A range that does not go on is not tried as the start of another.       *)
BegunLeniently(k) == IF space[k] = Parts[Len(scan.begun) + 1] THEN Append(scan.begun, k) ELSE scan.begun
Begun(k) == IF space[k] = Parts[Len(scan.begun) + 1] THEN Append(scan.begun, k) ELSE <<>>

TableFull  == MaxModules <= Len(modules)
NextRange  == IF scan.at = Len(space) THEN 1 ELSE scan.at + 1
WrappedAtEnd(k) == k > Len(space)
Wrapped(k) == k < scan.at

ScanRange ==
  LET begun == Begun(NextRange)
  IN IF Len(begun) < 3
     THEN /\ scan' = [at |-> NextRange, begun |-> begun]
          /\ UNCHANGED <<modules, self>>
     ELSE /\ scan' = [at |-> NextRange, begun |-> <<>>]
          /\ modules' = Append(modules, begun)
          /\ self' = IF begun[1] = own THEN Len(modules) ELSE self

SelfFound == self # -1 /\ modules # <<>>

(* GetModuleInfo asserts that there is one.                                *)
MainModuleIdx    == 1
HasModule(index) == index < Len(modules)

-----------------------------------------------------------------------------
(* FindRegions and virtmemSetup: what the kernel tells of a region, and    *)
(* what its refusal of an unmapping tells where it does not.               *)

KernelRegion == [alias |-> [start |-> 5000, size |-> 3], heap |-> [start |-> 6000, size |-> 4],
                 aslr |-> [start |-> 64, size |-> 262080], stack |-> [start |-> 7000, size |-> 5]]

Exposes(n) == n \in {"alias", "heap"} \/ kernel = "regions"
CanInfer   == kernel \in {"legacy36", "legacy32"}
Inferred   == IF kernel = "legacy32"
              THEN [aslr |-> [low |-> 1, high |-> 2048], stack |-> [low |-> 1, high |-> 512]]
              ELSE [aslr |-> [low |-> 64, high |-> 32768], stack |-> [low |-> 64, high |-> 1024]]

CanFindRegions == Exposes("aslr") \/ CanInfer

(* util::Range is a start and a size, and is given libnx's end for a size. *)
InferredRange(n) == [start |-> Inferred[n].low, size |-> Inferred[n].high]
Found(n) == IF Exposes(n) THEN KernelRegion[n] ELSE InferredRange(n)
FindRegions == regions' = [n \in Names |-> Found(n)]

HardcodedSwapped(n) == [start |-> Inferred["stack"].low, end |-> Inferred["stack"].high]
Hardcoded(n) == [start |-> Inferred[n].low, end |-> Inferred[n].high]
InitWithInfo(n) == [start |-> KernelRegion[n].start, end |-> KernelRegion[n].start + KernelRegion[n].size]
VirtmemSetup == virtmem' = [n \in Names |-> IF Exposes(n) THEN InitWithInfo(n) ELSE Hardcoded(n)]

-----------------------------------------------------------------------------
(* The scan is inside the address space, the tables inside their bounds.   *)
LayoutTypeOK ==
  /\ scan.at \in 0..Len(space) /\ Len(scan.begun) <= 2
  /\ Len(modules) <= MaxModules /\ self \in -1..Len(modules)-1

IsModule(k) == k + 2 \in DOMAIN space /\ \A i \in 1..3 : space[k+i-1] = Parts[i]

(* Ranges before a module that begin one and do not finish it: the range   *)
(* that breaks it off may be the module's own first.                       *)
BehindBroken(k) == k > 2 /\ space[k-2] = "rx" /\ space[k-1] = "r"

(* The table holds modules of the process only, whole and in the order of  *)
(* their addresses, and none of those scanned is missing from it, except   *)
(* right behind one that was broken off.                                   *)
Scanned(k) == k + 2 <= scan.at

ModulesFound ==
  /\ LayoutTypeOK
  /\ \A i \in DOMAIN modules :
       /\ IsModule(modules[i][1]) /\ modules[i] = [j \in 1..3 |-> modules[i][1] + j - 1]
       /\ \A j \in 1..i-1 : modules[j][3] < modules[i][1]
  /\ \A k \in DOMAIN space : IsModule(k) /\ Scanned(k) /\ ~BehindBroken(k) =>
       \E i \in DOMAIN modules : modules[i][1] = k
  /\ self # -1 => modules[self + 1][1] = own

(* Both parts of the program look for addresses in the same regions.  The  *)
(* ranges of mem_layout.cpp reach further where they had to be inferred.   *)
RegionsAgree ==
  \A n \in Names : virtmem[n].end # 0 =>
    /\ regions[n].start = virtmem[n].start
    /\ regions[n].start + regions[n].size
         = virtmem[n].end + (IF Exposes(n) THEN 0 ELSE virtmem[n].start)

(* What the program finds out about its own address space is so: the       *)
(* modules are the process's, and both users of the regions agree.         *)
LayoutSound == ModulesFound /\ RegionsAgree
=============================================================================
