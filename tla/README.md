# A verification project for Peepa

Peepa is an in-process mod for Super Mario Bros. Wonder. It is loaded as one more module of
the game's process, built on exlaunch (`src/src/lib`), patches the game's code while the game
starts, and draws a debug GUI over the game's frames (`src/src/program`,
`src/src/imgui_backend`, `src/src/helpers`). This directory holds TLA+ modules that model its
own logic, TLC configurations that check them on small instances, and TLAPS proofs of what
matters most for every instance. Paths below are relative to the repository's source
directory `src/src`.

## 1. The system: inventory

| Component | State it keeps | Operations | Talks to | Hard behaviour | What makes it correct |
|---|---|---|---|---|---|
| Boot (`lib/init`, `program/main.cpp`) | what is initialised | `exl_init`, `__init_array`, `exl_main`, the heap and framework callbacks | every component | order of callbacks of the game | nothing is used before it is set up |
| Exception path (`program/ExceptionHandler.*`) | `exceptionInfo`, `handlerStack`, per-thread catch stack | install, phases one to four, `tryCatch`, `pushCatch`, `popCatch` | kernel, rtld's text through RwPages, DbgGui, abort | threads faulting at once, faults in handlers, registers moved in groups | a resumed thread has its own registers; one owner of the globals |
| virtmem (`lib/nx/kernel/virtmem.c`) | reservation list, regions | find, add, remove | kernel tables | no lock; the game maps too | disjoint reservations, a well-formed list |
| RwPages (`lib/util/sys/rw_pages.*`) | claims | construct, destroy, move | virtmem, kernel | map range by range, abort on refusal | the alias shows the code, exactly, for as long as it lives |
| Hook engine (`lib/hook/nx64/hook_impl.cpp`, `inline_impl.cpp`, `lib/hook/*.hpp`) | trampoline index, pools | `Initialize`, `AllocForTrampoline`, `Hook`, `HookFuncImpl`, `HookInline` | Jit, RwPages, threads running the hooked code | live code patched word by word, shared counters | a thread in hooked code reaches the callback or the original, nothing else |
| Relocation (`hook_impl.cpp` `__fix_*`) | context of one conversion | one fixer per instruction class | hook engine | bit widths, ranges, branches into the moved code | the moved code does what the original did |
| Patchers (`lib/patch`) | stream position, one RwPages | write, seek, flush | RwPages | | writes land where asked |
| Log (`pe/Util/Log.cpp`) | heap, pointer array, free size | `initializeLog`, `addLog`, the Log window's walk | sead heap | any thread logs, the exception path too; no lock | a bounded log of whole entries in order |
| nvn glue (`program/imgui_nvn.cpp`) | captured device, queue, buffer; hooks | `getProc`, the substitutes, `presentTexture`, input gating | graphics driver, ImGui | call order is the game's | ImGui starts once, with everything it needs |
| ImGui backend (`imgui_backend`) | buffers, pools, textures | init, `renderDrawData`, resize | GPU | grow while the GPU reads, partial init | what is drawn from is alive |
| DbgGui (`pe/DbgGui`) | window flags, components, actor list | draw, update, actor hooks | log, input, heaps | actors die under the list | no dangling actor is drawn |
| Files (`helpers/fsHelper.cpp`, `pe/Hacks/FSHacks`) | mount flag | read, write, exist, redirect of `OpenFile` | nn::fs | one step of several fails | handles are closed; results are told |
| Input (`helpers/InputHelper.cpp`) | previous and current pads | update, queries | hid | edges | press and release exactly once |
| Memory layout (`lib/util/sys/mem_layout.cpp`) | module table | `FindModules`, `FindRegions`, stack inference | kernel | a scan over ranges the game decides | each module gets its three sections |
| Process handle (`lib/util/sys/cur_proc_handle.cpp`) | cached handle | `Get` | kernel, IPC to itself with a second thread | two ways to get it | one valid handle |
| Dynamic linking (`lib/reloc`) | module list, relocations | initialise, relocate, resolve, lazy bind | game's rtld | order of modules, tables with an implicit addend | each symbol bound once, to the right module |
| Instruction encoders (`lib/armv8`) | none | constructors of instructions | hooks, patches | bit fields | encodings |
| System calls, caches, payload reboot (`lib/nx`, `lib/diag`) | | thin wrappers | kernel | | |

How they meet: code is patched through **RwPages**, which finds room through **virtmem**; the
**hook engine** and `installExceptionHandler` are its users. Assertions everywhere end in
`AbortImpl`, a deliberate fault, which the **exception path** answers. The exception path, the
file redirect and every hook write to the **log**, which the **GUI** shows on the render thread
that the **nvn glue** hooks.

Threads: the game's threads run all hooked code; the mod has none of its own but one that
`proc_handle::Get` starts for an IPC exchange. Nothing in the mod takes a lock.

## 2. The modules

Each component has a module; where it is proved about there is a `...Proofs` module that extends
it and TLAPS, and an `MC...` module that gives its constants their values for TLC. "Faulty
variants" stand next to some definitions (`AcceptingAny` by `Accepting`): a plausible bug in the
same lines, which no action uses. TLC is given each in place of its definition to see that the
property it belongs to fails then (`PROJECT.json`, "mutants").

| Module | Models | Extends / instantiates |
|---|---|---|
| `ExceptionHandler` | `program/ExceptionHandler.cpp`, `.s`, the abort of `lib/diag/abort.cpp`, the handler that `pe/DbgGui/DbgGui.cpp` installs | |
| `RwPages` | `lib/util/sys/rw_pages.*` on `lib/nx/kernel/virtmem.c`; the kernel's table and the game as environment | instantiates `AliasMap` |
| `AliasMap` | what `lib/util/sys/rw_pages.*` promises: who holds which page, without threads, list and half-done operations | |
| `A64` | the processor, as far as relocation counts on it (external) | |
| `HookReloc` | `__fix_instructions` and the fixers of `lib/hook/nx64/hook_impl.cpp` | instantiates `A64` three times |
| `HookEngine` | `Hook`, `HookFuncImpl`, `AllocForTrampoline`, `HookInline`, the assembly entry, `OrigRef`; the game's threads | |
| `Input` | `helpers/InputHelper.cpp`, the input of `imgui_backend`'s `newFrame`, the five `nn::hid` hooks of `program/imgui_nvn.cpp` | |
| `NvnGlue` | the substitutes of `program/imgui_nvn.cpp`, `InitImGui`, the order of `InitBackend`, `procDraw` | extends `Input` |
| `ImguiBackend` | `renderDrawData`, `MemoryBuffer`, the outcome of `setupShaders` and `setupFont`; the GPU as environment | |
| `Svc` | `lib/nx/kernel/svc.s` against `svc.h`, `lib/nx/smc.c` | |
| `Encoders` | the constructors of `lib/armv8`, and the architecture's layout (external) | |
| `Patchers` | `lib/patch`, `lib/replace`, the flushes of `lib/nx/arm/cache.s`; caches as environment | extends `Encoders` |
| `Rtld` | `lib/reloc`: `ModuleObject`, symbol search, lazy binding, `exl_dynamic` | |
| `MemLayout` | `lib/util/sys/mem_layout.cpp`, `virtmemSetup` | |
| `ProcHandle` | `lib/util/sys/cur_proc_handle.cpp` | |
| `Boot` | `lib/init/init.cpp` | extends `Rtld`, `MemLayout`, `ProcHandle` |
| `PeepaLog` | `pe/Util/Log.cpp`, the walk of `pe/DbgGui/Windows/Log.cpp` | |
| `ActorBrowser` | the hooks, the list and the walk of `pe/DbgGui/Windows/ActorBrowser.cpp` | |
| `FsHelper` | `helpers/fsHelper.cpp`, the redirect of `pe/Hacks/FSHacks.cpp` | |
| `DbgGui` | `program/main.cpp`'s callbacks, `pe/DbgGui/DbgGui.cpp`, its windows | extends `PeepaLog`, `ActorBrowser`, `FsHelper` |

The proofs are in `ThreadProofs` (exceptions and hooked calls), `RwPagesProofs`, `HookRelocProofs`, `NvnGlueProofs`,
`ImguiBackendProofs`, `PatchersProofs`, `BootProofs` and `DbgGuiProofs`.

### ExceptionHandler

State: the globals `exceptionInfo` and the entry of the exception vector, per thread the chain of
`CatchStackFrame`s, the register file and the phase. A register group holds *the activation whose
value it has*, `<<t, d>>` for code of thread `t` under `d` calls of `tryCatch`: what matters about
a register here is whether it is the thread's own and of the right depth. There are three groups
because the code moves three: phase one moves x0-x8, lr, sp and pc through the kernel's frame,
phases two and four move x9-x28 and x29 in assembly, `tryCallCatch` sets x29 but (a finding, section 5) not
x19-x28. One action per phase and per verdict; `TryCatch`, `TryReturns`, `PopCatch` for the
assembly of `tryCatch`; `InstallBranch` and `InstallPointer` for the two patches of rtld's text.
The kernel delivers exceptions of a process one at a time until `svcReturnFromException`, so
phase one is atomic and phases two to four are not.

The code guards the globals with one test, `exceptionState == SecondChance`, and only up to the
verdict. A fault of another thread between a verdict and its return trap is *accepted*, and
overwrites both. The variable `overtaken` records that; the properties say what holds until it
happens, and `MCExceptionHandlerWindow.cfg` shows what it leads to (a thread resumes with the
registers of another). It is not listed as a finding because no comment denies it in so many words.

### RwPages

State: what each page of the address space shows (kernel), the reservation nodes that `malloc` has and
`g_Reservations` (virtmem), the claims, and per thread the statement it is at. The virtmem mutex is
an empty function in this build, so every statement that touches the table or the list is a step.
`ForEachMemRange` is one step per kernel range. The game maps and unmaps pages at any time.
`Construct` to `Compare` are the constructor in order, with each of its aborts; `Destroy` to
`UnlinkPrev` the destructor; `MoveConstruct` and `MoveAssign` the two moves, from any constructed object, one that was moved
from before included. The second leaves `m_Owner` of the target what it was, and what the target held is never unmapped. So
an owner may come to have an empty claim (its destructor asks the kernel to unmap nothing, is refused and aborts, `UnmapRange`), an
object that is no owner may come to hold one that it never undoes, and an object assigned to itself keeps its claim as such a non-owner.
The random address is any candidate. `Walk`, the nodes that following the list from its head meets, is the least
set that has the head and each node's next, which is what the loops of `virtmem.c` visit.

`AliasMap` is what all of this is for, seen from outside: what each page shows, which object holds it, and which objects were moved
from (shells). Only free pages are mapped, only a holder that is no shell unmaps, a move hands over everything an object holds. A page
loses its holder without being unmapped in two cases: a move assignment overwrites its holder's claim, or its holder is destroyed as a
shell, to which an assignment has given it. `ImplementsAliasMap` maps a claim and the half-done rounds of its thread (`Holds`) to the holder. Run `rw` checks
it for one thread; the theorem is for any number.

### A64 and HookReloc

`A64` is a processor over words that are records: an opcode class, a field, a register, two low
bits, a size. `HookReloc` is the conversion of one function's first instructions, one action per
fixer, with the fix map, the alignment NOPs, the range tests, the masks, the missing sign
extensions. When the conversion ends the same processor runs the trampoline: `CPU` is `A64` over the
words written, `Original` is `A64` over the words of the function, and `KeepsMeaning` says that the
first implements the second under a refinement mapping (`Home`: which original address an address
of the trampoline stands for; registers that hold such addresses are mapped with it, X17 is left
out). So the abstract specification of the relocation is *the original program*.

`Handled` says of which windows that is true. Sign extensions are missing in the fixers, low bits get lost, an adrp's place is entered
as that of its writable alias: each conjunct names one of these (section 5 and the configurations that go with it), or keeps the row
apart from the function and what it names. It is a little stronger than need be: an adrp may be named when a NOP goes in front of it. TLC evaluates that the windows of the run are within it (`MCHandled`), and the theorems about
the meaning have it as their hypothesis.

### HookEngine

State: the words of each function and, separately, what an instruction cache may still hold of
them, the pools, the `OrigRef`s, and per thread the place it executes, X17, and a history of the
callbacks and instructions its call has run. `Take` to `WriteCallback` are one hook's installation
in the order of the stores, and a far hook is four or five stores of which a thread may fetch any
mixture. `HookReloc`'s subject is abstracted to: an instruction of the function is moved as it is,
and the words of an earlier hook are relocated as the branch or the load they are. Two things the code leaves to whoever
installs hooks: a hook of several stores is installed before the game runs (`FarAtBoot`; `main.cpp` does so, and the two hooks of
`ActorBrowser.cpp`, which come later, are of functions in the module next to this one), and an inline hook is the first of its
function (`InlineFirst`; its entry branches to the trampoline's second word, and the program itself has no inline hook).

### Input and NvnGlue

`Input` samples once a frame: the previous and the current state of the pad and of the keyboard (a mouse
button is told as a key is), what ImGui was told is down, and the two flags without a lock by which the
hooks of `nn::hid` tell the GUI's own read from the game's. `frame` is the statement of `newFrame` the
render thread is at; a reader is a thread of the game between the hooked call and the two tests of
`disableButtons`. `NvnGlue` extends it: the render thread's `newFrame` is part of its `procDraw`.

State of `NvnGlue`: which of the driver's functions the game has (and of which the originals are known),
which objects the driver has initialised (`ready`) or refused (`denied`), the three captured handles, `hasInitImGui`, ImGui's context and
`BackendRendererUserData`, and per thread the substitute it is in, statement by statement: the test of
`hasInitImGui` and its store are ten steps apart. History: `overlapped` (two threads were inside `InitImGui`
at once) and `due` (a `cmdBufInit` began with a device and a queue known). The substitutes capture a handle whatever the driver
answered, so that ImGui may start and draw on an object that was refused: of such use anything may come, and
`NothingMissing` says that it is the only way to use what is not there. The game is taken to keep to the
rules of nvn: a device before its queues, no driver call before the functions are there, one presenter.

When two threads do overlap, both outcomes are in the model: the second one meets "Already Initialized
Imgui Backend!", or stores the FALSE of a failed attempt over the TRUE of a successful one. `StartedOnce` and
`StartsWhenComplete` say what holds as long as they do not.

### ImguiBackend

State: the two `MemoryBuffer`s with their memory unit by unit, the memory that is on the heap, the call of
`renderDrawData` (the growth of either buffer, the test, the copy of a list, each of its commands, the end of the
list, the submission), what is submitted and not yet executed, how far the GPU is with it and what is bound there, and the
last picture. The GPU runs a submission at any later time, command by command beside the CPU, and reads
the memory as it is *then*; a submission whose memory the CPU wrote or freed meanwhile is marked `touched`, and
`DrawsFrame` speaks of the others: the code has no fence, so that more cannot be said. What it asks
for is the abstract meaning of draw data (each visible command, `Shown`, at its `Rank`, with its texture and the vertices
that its indices name in its own list, `Wanted`), written without buffers, offsets or bindings. How much there is of a frame is
the number of places in its lists, which the code adds up. The driver may refuse a
pool, whose size is then anything, or a buffer.

### Svc

`svc.s` is executed instruction by instruction: a wrapper is a sequence of the few instructions it is made of
(stores to the stack, the call, loads, stores through a pointer of 32 or 64 bits), and a register or a word of
memory holds *where its value came from*. The other side is `Prototypes`, what `svc.h` tells callers: the number
of the call, which parameters are outputs and how wide they are. The kernel may leave anything in the registers it
is not said to set. `smc.c` is on top of it, with a monitor that obeys or refuses. Three numbers are
documented one too low, `svcGetProcessInfo` stores half of the u64 it promises, and three wrappers have no prototype:
`DocumentedLow`, `StoresHalf` and `Declared` say which, and the properties are about the others.

### Encoders and Patchers

`Encoders` has each constructor of `lib/armv8` that a file of the build includes, as the sequence of fields it writes
into a set of bits, base class first; beside it stands the architecture's layout of the same instructions, written from
their encoding and not from the code. `Patchers` is `lib/patch` over memory with two caches that write back and fill
at any time: a patcher holds a range it has written and flushes it, line by line, when it seeks or goes away.

### Rtld, MemLayout, ProcHandle and Boot

`Rtld` is `lib/reloc`: the tags of a dynamic section, the two passes over a table split at a count, the symbol search
over the load list, and lazy binding by whatever thread calls first, with the registers `dl_trampoline.s` keeps. Its state is
memory by address, the state of each module, and per caller the call. A pass over a table writes all the words its entries ask for in
one step: tables that tools make ask for words of their own, so that their order does not matter (`WellMade`, `WellLoaded`, an
assumption on `Programs` that TLC evaluates). In this build (`EXL_AS_MODULE`) the game's
loader links with its own copy of this linker, whose globals `nn::ro::detail` the program uses; the program linked by itself
(`exl_dynamic`) is in the model as the other value of `loader`. Two oddities of the code are in the model and excluded from
`LinkSound` by name: a module with a correct `DT_RELAENT` asserts (the test is `!=`), and slots of a `DT_REL` table bound at
once get the symbol added to the stub's offset (`OddSlot`).

`MemLayout` walks the kernel's ranges as `FindModules` does and keeps the module half found; `BehindBroken` names the modules
that the scan misses because a range that broke another module off was theirs. Regions are the kernel's or inferred, by
`mem_layout.cpp` and by `virtmemSetup` each for itself; the inferred ones of the first reach further because a size is
passed where an end is due. `ProcHandle` is `Get` with the query of Mesosphere and the exchange with a second thread call by
call, each of which may be refused. `Boot` composes the three in the order of `exl_module_init`; the first `Get` happens
there, and other threads can ask only after it.

### PeepaLog, ActorBrowser, FsHelper and DbgGui

`PeepaLog` keeps the heap's free bytes, the list, its capacity, the lines that were ever asked for (each with the bytes it costs, at
least those it needs), and per thread the log function it is in, between the allocation, each round of the eviction, the push and the write;
`walk` is the log window's walk. The heap may refuse a line whenever it likes, since its free bytes may lie apart. A refused line is a
null pointer that `addLog` stores through without a look: the thread faults, the handler that the GUI installs skips the store and reports it
(which logs once more, on the same thread), and `addLog` goes on to evict, to list the null and to write through it, a second fault.
The null is popped and freed like any line, and the window that walks over it faults as well (`ReadsNull`). Before there is a handler, and at
a fault while one is reported, the process is given up (`GiveUp`). `failed`
is history: the lines that were refused for lack of bytes, with what other threads held then. `ActorBrowser` is the list between two hooks
and a walk by index. `FsHelper` is each file operation, one system call a step, each of which may fail, the
mount of the card, the deletion of the old file and the opening of a copy that exists among them; `wrong` says what failed in an operation. A file is the
version of its contents, `torn` the handles that failed writes leave open. `DbgGui` composes the three with the game's
start and with a frame, window after window; `goto` is the address a window leaves for the memory editor, `asked` and `viewed`
what a player wanted and got. What the windows show of the game is left out.

Known and in the model: a line longer than half the heap is refused, or evicts everything and goes on popping from
an empty list, for ever (`PopFront` of no line); two threads that log at once can leave a line out of a full list,
so that it is never freed; an entry that does not exist leaves `isFileExist`'s type as the stack had it, and the redirect may
then fail for nothing (`junk`); the hook of `OpenFile` tries to mount the card once and goes on whether or not that succeeded, and the helpers'
own calls of `OpenFile` pass that hook too (`MountOnce`).

## 3. The runs

Each finishes within five minutes with two workers, most of them in one or two.

| Run | Configuration | Properties | Question and answer |
|---|---|---|---|
| `exc` | two threads, `tryCatch` twice nested | `PathSound`, `SkipIsTransparent`, `VerdictHonoured`, `FaultAnswered` | In every interleaving of faults, aborts, faults in handlers, nested catches and returns: one owner of the handler stack, the state tells where it is, every thread resumes with its own registers, verdicts are honoured, every fault is answered. |
| `exc_callee` | depth 1 | `CaughtReloadsCallee` | *Violated:* "caught exceptions will do this bit on their own". The caller of `tryCatch` gets x19-x28 of the code that faulted. |
| `rw` | one thread, two objects, three reservations, three pages | `VirtmemSound`, `AbortsExplained`, `OperationEnds`, `ImplementsAliasMap` | Aliases reserved, list well formed, aborts explained, with moves from and to any object, orphans, range ends and page ends; constructors and destructors end; every step is one of `AliasMap` or changes no alias. |
| `rw_two` | two threads, two objects, three pages | `AliasSound`, `UnmapNeverRefused` | Without a lock, claims stay exact because the kernel refuses a mapping over another, and a destructor is refused only the empty claim that an assignment from a moved-from object left it. The list is not well formed here, and is not claimed to be. |
| `reloc` | windows of two, three and five instructions, trampolines near, half-way and far | `RowSound`, `LiteralsAligned`, `KeepsMeaning` | The moved code does what the original did, fits its row, and loads only aligned literals. |
| `hook` | twelve hooks of six functions, one thread | `CallsWhole`, `HooksRun`, `HookSound`, `CallsEnd` | Calls are whole, run the callbacks of a consistent set of hooks, end, and fault only in the window in which a hook is live before its `OrigRef` or entry is written. |
| `nvn` | two threads, a device, a queue and two command buffers, of which the driver may refuse the device and the queue, one reader of pads | `StartedOnce`, `StartsWhenComplete`, `NothingMissing`, `InputWhole`, `PadsReachGame`, `PresentsReachDriver` | ImGui starts once and as soon as it can, unless two threads are inside its start at once; no substitute calls what is not there, and only what the driver refused is used without having been initialised; each present reaches the driver. ImGui's keys are those of the last sample; the game's pads are blanked only within the first update. |
| `backend` | four frames of five kinds | `DrawsFrame`, `BuffersSound`, `NoLeak` | The GPU draws what ImGui asked for from buffers that grow, are refused, are replaced; nothing is written past them, and none is lost. |
| `svc` | every wrapper, every function of `smc.c` | `KernelIsAskedFor`, `OutputsDelivered`, `SmcTellsFailure` | The call that the prototype documents is made with the caller's arguments; each output lands where, and as wide as, the prototype says; failure of the monitor is told. |
| `patch` | four words in lines of two, two writes, thirty instructions one at a time and three with branches | `PatchInv`, `FlushedIsFetched`, `WrittenAsAsked` | What was flushed is what is fetched, whatever the caches do; every word is the instruction asked for, but that an `adrp` backwards goes 4 GB ahead; an assembly patch keeps what it replaced. |
| `boot` | eight programs, eager and lazy, two callers; about 600 address spaces under four kernels | `LayoutSound`, `HandleSound`, `LinkSound`, `BootEnds` | Words and calls mean what the tables say, whoever binds a slot; the modules and regions found are the process's; one handle, and nothing left of how it was got; the start ends in `main` or for a reason that is named. |
| `gui` | two threads and the handler, three lines, two actors, two files | `LogKept`, `FrameSound`, `GotoServed`, `FilesSound` | Heap and list of the log agree, whatever is refused; a frame shows lines and actors that exist, or faults on a refused line; a Goto is served; files and handles are what the operations say, and nothing is lost unless a call failed. |

Nine further configurations are kept beside them and show known behaviour. Each ends in a counterexample. Three are
statements of the code that do not hold (section 5): `MCHookEngineInline.cfg` (`InlineCallsWhole`),
`MCHookRelocBranches.cfg` (`TakesBranch`), `MCRwPagesStraddle.cfg` (`ComparisonHolds`). The others are behaviour that no
comment plainly denies or that another run shows already: `MCExceptionHandlerWindow.cfg`
(`TrapRestoresOwnThread`), `MCExceptionHandlerAbort.cfg` (`AbortDoesNotReturn`: with the handler
that the GUI installs, code behind an abort does run), `MCRwPagesMutex.cfg`
(`FindAndMapExclusive`), `MCHookRelocAddresses.cfg` (`AddressLoaded`), `MCHookRelocLiterals.cfg`
(`LiteralLoaded`: a literal in front of the function is looked for 4 GB behind it) and `MCHookEngineRows.cfg`
(`RowsInPool`: one row more than the pool has is handed out).

### Bounds, and why they are enough

- `ExceptionHandler`: two threads are what a race over one global takes; the guard is on the global
  and a third thread meets nothing that a second does not. Depth 2 has a frame with a parent that has
  a parent. The theorems have no bound.
- `RwPages`: a claim of two pages over a range end makes `ForEachMemRange` go round twice; two
  objects and a reservation that a move assignment has orphaned make a list of three, whose middle is taken out;
  three pages leave room for three claims of a page, or for one of two pages and one, and the game takes any that is free. No page is in `Avoid`
  but in `MCRwPagesStraddle.cfg`. `MaxTries` is 1 for `RANDOM_MAX_ATTEMPTS` = 512 (2 in
  the side configurations): a failed try changes nothing but the count, and the theorems hold for every number. In `rw_two` requests that straddle a page are left out (they abort, which `rw` has).
- `HookReloc`: fields of 26, 19 and 14 bits become 9, 8 and 7, and a page 64 words, such that
  each range test has targets on both sides of it and the row still fits in every field
  (`ReachAssumption`). Windows of two have every pair of classes with targets before, in and behind the
  window; windows of three branch among each other, so that the fix map holds two entries for one
  instruction; five is `MaxInstructions`. Left out of `MCWindows` are the inputs for which the code is wrong
  (a conditional branch, literal or adr before the instruction, a near literal with a negative offset, an adr
  with low bits in reach, a branch to an adrp of the window): the configurations of section 5 have those.
- `HookEngine`: threads only read what is installed and write nothing another reads, so one thread
  meets everything that any of them does. The hooks of functions out of a branch's reach are all
  before the game runs: writing several words under a running thread cannot be whole, and `main.cpp`
  does not do it. The list ends with an inline hook that finds the entry pool full and aborts.
  `MaxTrace` is above the longest call.
- `NvnGlue`: two threads are what a race over one flag takes. `Refusable` has the device and the queue; a refused
  buffer takes the path of a refused queue and is left to the theorem, which holds for any `Refusable`; the driver is asked once for each object, so that a second attempt after a refusal is left out. With two command buffers, one can be initialised
  before the queue is known and one after, or both at once. One key and one button: edges of different
  keys do not meet. One reader is between its two tests at any point of the render thread.
- `ImguiBackend`: a page of six units and a vertex of two, so that the number of vertices and their size are on
  different sides of a page; frames with two textures, a command that is clipped, a vertex offset, lists that follow
  each other, a frame that grows only one of the buffers, a smaller one after a larger one, an empty one and an
  invalid one. Four frames let a buffer be made, refused, replaced and grown.
- `Svc`: none; a wrapper is at most a dozen instructions, and wrappers share nothing.
- `Patchers`: lines of two words are crossed by every write of two, and a second write meets what the first left in the
  caches; the text of four words has a first, a middle and a last. Each constructor is a run of its own, because words do not
  meet. The theorem has no bound.
- `Boot`: a table of three modules is full with loader, game and SDK. `MCSpaces` has every sequence of up to four blocks,
  whole modules, halves of modules and free ranges, in between a free range at zero and one at the end. The eight programs have
  both kinds of tables, with eager and lazy slots, symbols that are weak, hidden, defined twice or nowhere, and a name given by
  hand. Linking and layout do not meet, so that programs run in one address space (`HomeSpace`) and address spaces are run with
  a program that makes no calls. Two callers race for one slot; two handles are what one exchange can leave.
- `DbgGui`: in a heap of 16 bytes a line of 1 costs 4 and one of 6, which is longer than the margin lets pass, 9: two of those do not fit, and
  two lines of which one is short do. `LineMax` 2 lets lines give way by count as well as by bytes; three lines wrap the list once, and any of them
  may be refused. While the game's thread logs, the windows that have nothing to do with it stay as they are (`Toggled`), and while it plays
  only one line is logged, so that what does not meet is not multiplied. Two actors, of which the second
  comes while the list is walked. Two paths tell an operation's own file from another's; operations on files come before the
  windows are made, since neither reads what the other writes. The bounds run out, so deadlock is not checked.

### Fairness, and why the code justifies it

`ExceptionHandler`: weak fairness of a thread's phases two to four and of `popCatch`, since none of
them waits for anything and the kernel schedules runnable threads. No fairness of faults, calls, or
the installation. `RwPages`: weak fairness of a thread's next statement inside a constructor or
destructor, for the same reason; none for the game. `HookReloc`: of the conversion, a loop that ends, and of
the processor. `HookEngine`: of a thread's step in a call it has begun, *not* of the installation, so that
`CallsEnd` holds wherever an installation stands still. `NvnGlue`: of the presenter's steps inside
`presentTexture`, which waits for nothing. `Boot`: of the start's next step, of a thread's step inside `Get` and of the thread that
`Get` starts, all of which the kernel schedules; none of calls through the linkage table. `ImguiBackend`, `Svc`, `Patchers` and
`DbgGui`: none, they have no liveness property. Deadlock is checked except in `reloc`, where the processor stops when it leaves the
trampoline, and in `gui`.

## 4. What is proved

For all values of the constants that satisfy the named assumptions (each of which TLC evaluates):

- **`ThreadProofs`**, exceptions. `TypeCorrect`. `PathSafe`: `PathSound`, that is the types with `HandlerStackExclusive`,
  `StateTracksOwner`, `OwnContext`, `CatchChain` and `ParkedContext`, for any number of threads and any
  nesting. The exclusion alone is not inductive: that phase one refuses a fault needs the state to tell where the
  owner is, what a thread resumes with needs what was parked, and that needs the catch chain to be the
  nesting. The five together are. `SkipTransparent` and `VerdictIsHonoured` follow step by step.
- **`RwPagesProofs`**. `TypeCorrect`. `HeldExactly`: `AliasSound`. The property one wants
  (`AliasIsExact`) is about finished claims; it is inductive only with the parts of half-done maps and unmaps
  (`Holds`), with bounds of a claim once it is found, and with one operation per object. The argument is
  that a page is held by at most one object because the kernel refuses to map over a page in use, so no lock
  is needed for it. `UnmapsSucceed` (`UnmapNeverRefused`) is a corollary: an
  unmap that has a page to undo finds it; the empty claim, which has none, is named in the property, since `operator=` can make an owner of one. So too, step by step, is `AliasMapIsImplemented`: `RwPages` refines `AliasMap`,
  for any number of threads and without the lock. `Holder` and `Shells` are functions of the claims and of where each thread
  is: a round of `ForEachMemRange` is `Map` or `Unmap`, a move is `Hand` or `ShellMoves`, the end of a non-owner is `ShellEnds`, and all else, the list included,
  changes no alias. One lemma per action says who holds what after it (`MapHolds` to `MoveHolds`), and `HolderNext` turns that
  into the next `Holder`.
  What the missing lock costs the reservations is split in two. For any number of threads, `ReservationsHaveOwners` and
  `CodeStaysReserved`: a node in use is that of one constructor, of one claim, or forgotten by a move assignment or with a non-owner (`OwnInv`), and a page
  that shows code is held by an object or lies in a forgotten reservation (`CodeInv`); no node is freed twice.
  For one thread (`OneThread`, a hypothesis: the body of `virtmemLock` is empty while `virtmem.h` asks its callers to hold it, and the
  program patches from one thread), `OneThreadKeepsVirtmem` is `VirtmemSound` and `OneThreadAborts` is `AbortsExplained`. `ListInv` says that the
  nodes a walk visits are those in use but one about to be pushed, and that the list is doubly linked once the one link still to be
  written, or written ahead, is put back; `SpaceInv` that a slice found stays clear of the reservations; `FreeInv` that what is
  still to be mapped is free unless the game took a page of it. Nothing about lists is proved by induction over data: the least set that is
  closed under next is compared before and after a step.
- **`HookRelocProofs`**. `TypeCorrect`, in which the hard part is that `process_fix_map` empties the map
  by the end and that every field written fits its width. `RowIsEnough`: nine words an instruction, of which the
  largest is NOPs, a load, a branch and a quadruple word literal, and five for the way back, are within ten times
  `MaxInstructions` because `MaxInstructions >= 5`: the arithmetic behind the comment "please fix
  MaxInstructions!".
  `MeaningIsKept` is the safety part of `KeepsMeaning`: the trampoline implements the original code, for any `Handled` window, any place of the
  trampoline and any widths of the fields. What the conversion has written is described by a set of the words at which a
  *sequence* begins (`ShapeInv`): from one to the next lie NOPs (`PadCore`), one relocated word (`NearCore`), a load and a branch with the
  literal they use (`FarCore`), or the way back (`BackCore`), and `Sequel` is what the sequence of an instruction is.
  A branch to an instruction still to come is in the fix map or has been completed with the place where that one's sequence begins, which is why
  the map has to be in the invariant. The processor then `Stands` at the start of a sequence, with X17 free, or is `Midway` in one or `Leaving`
  by the last, with what it has loaded in X17; in each case `Home` and `HomeValue` say where the original is. The refinement is
  then by case, one lemma for each kind of sequence and place in it: the original stutters until the last
  word of a sequence, and takes its step there. Places are compared as numbers (`AddrOf`, `Lies`), and of a sequence of words only
  its n-th is ever spoken of; nothing needs induction over what was written.
  `LiteralsAreAligned` (`LiteralsAligned`) reads from the same invariant which NOPs lie in front of each literal.
- **`ThreadProofs`**, hooked calls. This is about `HookEngine`, for every list of hooks, every number of threads, every size of the pools and any lag of the
  instruction cache: `EveryCallIsWhole` (`CallsWhole`), `EveryHookRuns` (`HooksRun`) and `HooksAreSound` (`HookSound`). The invariant
  `EngineInv` has two parts. `MemoryInv`: all memory is a function of how many hooks are installed, words of functions (`TextOf`),
  trampolines (`RowOf`, `TrampolineOf`) and entries (`EntryOf`) alike, with what the hook at work has written so far besides. `CallsInv`: the
  place where a thread is says what its call has yet to run (`Ahead`), and what it has run and has yet to run are together the callbacks and
  instructions of the first v hooks, for a v not smaller than the hooks complete when it began (`Split`). A hook that goes live then moves
  only calls that are at the first word, whose v it may raise. That a history is long enough to hold any call (`MaxTrace`) is itself proved,
  by counting the events there are. `EveryCallIsWhole` asks `FarAtBoot`: while four stores are made one after the other a thread
  may run any mixture of them. `HooksAreSound` asks `InlineFirst` too: moved behind another hook's words, the second word of the trampoline is
  no instruction. An inline hook's call may lose an instruction (section 5), which is why `CallsWhole` is about functions without one.
- **`NvnGlueProofs`**. `TypeCorrect`; `NothingIsMissing`, also when two threads start ImGui at once; `StartIsOnce`;
  `StartsAsSoon` (`StartsWhenComplete`); `InputIsWhole` (`InputWhole`); `PadsAreGiven` (`PadsReachGame`). The invariant has six parts.
  `InputInv`: what ImGui was told lags one sample behind while `newFrame` is between the keyboard and the events, and input is
  never toggled after the first update, so that a read that begins then cannot be blanked. `Captured`: the driver's functions
  come before its objects, and a handle is one the driver was asked for, ready or refused (`Known`); `RefusedInv`: so is each handle of a
  backend, and a start or a frame that used one in vain used a refused one. `Begun`: what is behind a test inside a substitute stays
  true, because handles, context and backend are never taken back. `OnceInv`: the test of `hasInitImGui`
  keeps a second thread out only because a backend exists exactly when the flag is set or its maker is on the
  way to set it; that is what has to be carried along, and the store of FALSE by a refused start is harmless only
  for this reason. `SoonInv`: from the moment a start is due somebody is *heading* for it, on a path that no refusal lies on,
  because a thread that tests the handles has brought the command buffer itself; a thread that is still on its way to store FALSE
  does not count, and whoever tests the flag meanwhile is an overlap.
- **`ImguiBackendProofs`**. `NothingLeaks`: memory is numbered as it is allocated, so that a new buffer's is no other's; with
  that `NoLeak` is inductive. `BuffersHoldFrames` (`BuffersSound`): a buffer that has been looked at for a frame and is ready is as large as the
  whole frame (`RoomInv`), and the offsets are what the lists before have taken (`DrawInv`), so that each list fits; that a list and the ones
  before it are no more than the total is a fact about numbers of places, not about a sum.
  `FrameIsDrawn` (`DrawsFrame`), for any frames, any lag of the GPU and any refusals. What is recorded is described by a *route*:
  what is bound and which of ImGui's commands were drawn, after each of the GPU's commands (`Route`, `Leads`); it starts with nothing and a
  draw command may stand only where all earlier visible commands, and no others, are drawn and its texture and vertices are bound (`Serves`).
  `RecordInv` says that what is recorded so far has a route to the command at hand and that the lists copied so far are in the
  buffers, behind each other (`Holds`); `QueueInv` the same of whole frames that were submitted and not touched, whose buffers are the present ones
  because growing one touches everything; `GpuInv` that the GPU is on such a route with the picture of what was drawn so far. That route and not the
  commands' form is carried along, so nothing needs induction over draw data, and a picture's length is the number of places before the next.
- **`PatchersProofs`**. `FlushedIsSeen` (`FlushedIsFetched`), for any line sizes and any alias. While a flush runs, the words
  behind it are clean (first pass) and then fresh (second pass), and what the patcher takes over next is excepted on both sides; the
  lemmas are the arithmetic of lines that need not start where a range does. `OriginalIsKept` (`PatchInv`) adds the bounds of patchers and
  flushes. `WordsAreAsAsked` (`WrittenAsAsked`): every word was written for what it was last asked to be, by whichever patcher.
  An `adrp` backwards is the exception that `Meant` names: its word is the instruction asked for but for the
  sign of the distance. Two hypotheses are about the words themselves, and TLC evaluates them for the instance it runs (`MCHypotheses`): `EncodersAreRight`, each encoder
  makes its instruction at each place (up to that sign), and `AssemblyIsNew`, the words of the assembly patch are not already there.
- **`BootProofs`**. `HandleIsSound`: nobody asks before the start does, the start asks alone, and whoever asks later finds the
  handle; in between, each statement of the exchange has exactly the handles it made (`Exchange`). `LayoutIsSound`: what the scan
  has begun is the part of a module that ends where the scan is, so that a module behind it is in the table unless it follows on one
  that was broken off (`Due`). `LinkIsSound` (`LinkSound`), for any modules and callers: at each stage of a module its object says what
  its dynamic section does, its words are as loaded or as asked, and its slots hold the stub, their meaning, or the odd sum of a table bound at
  once. A step for one module leaves the words of the others alone, because entries ask for words of their own. A call through the stub
  finds its own entry again from the slot's address, and whoever binds the slot meanwhile writes the same word.
- **`DbgGuiProofs`**. `GotoIsServed`, `FrameIsSound`, `FilesAreSound`. Each part of the GUI has an invariant over its own variables
  that steps of the others leave alone. For the frame: what is listed is a line that is there, once, or the null of a refused one; what makes room for itself is not
  yet listed, and while nobody logs the walk's end stays within the list; for actors: between its two callbacks a living actor need
  not be listed, and only then is one listed that is not alive. For files: an operation has one handle of its own
  besides those of torn writes, and touches one path; what a step may miss without a failed call or junk is a file that was not there. `LogIsKept` (`LogKept`), with threads that log without a lock: free bytes and the
  bytes of lines not yet freed make up the heap, and the heap is short of the margin by no more than lines in flight have yet to make up for
  (`HeapInv`); that is why a line that fits the margin lacks bytes only beside others, refused lines before it notwithstanding: they took nothing.

Assumptions, apart from types and finite sizes: `ReachAssumption`, `MaxInstructions >= 5`, a 19-bit displacement that is within 32 bits, X17 among
the registers, and `ldrsw` of a single word (`HookReloc`); functions of more
than five words, which a hook covers at most (`SizesAssumption`);
ranges of the kernel that are alike are one range, and the first is not a module's (`SpacesAssumption`, as `svcQueryMemory` reports
them); modules as linkers make them (`ProgramsAssumption`: words of their own, one stub, tables within their module); draw data whose lists are
finite and whose commands use indices and vertices of their own list (`FramesAssumption`, what Dear ImGui gives); cache lines of at least one word (`LineAssumption`); a heap no smaller than the margin and lines that cost at least their bytes and terminators (`LogAssumption`); the presenter, the game and the
drawing thread are among the threads (`PresenterAssumption`, `GuiAssumption`, `BootAssumption`).

Hypotheses of single theorems, of which the paragraphs above say why: `OneThread`, `EncodersAreRight` and `AssemblyIsNew`,
`FarAtBoot` and `InlineFirst`, and `Handled`. TLC evaluates all but the first for the instance it runs; `OneThread` holds of run `rw`.

Only model-checked: all liveness (`FaultAnswered`, `OperationEnds`, `CallsEnd`, `PresentsReachDriver`, `BootEnds`, and the fairness
part of `KeepsMeaning`), which the prover does not reach; and all of `Svc`, which is finite as it stands: the run has every wrapper there is.

## 5. Findings

The code makes four statements in comments and assertions that do not hold. Each has a configuration that ends in a
counterexample.

- `tryCallCatch` never copies the saved registers into `info.r`; "caught exceptions will do this bit on their own"
  (`ExceptionHandler.s:81`). Run `exc_callee`, and "findings" in `PROJECT.json`.
- The entry of an inline hook computes its "Branch to trampoline." (`inline_impl.cpp:68`) from the instruction before it, and skips the
  first moved instruction. `MCHookEngineInline.cfg`.
- A conditional branch back out of the moved window is relocated as one ahead. `MCHookRelocBranches.cfg`.
- A claim that straddles a page end is mapped one page short, and "Ensure the data at the different mapping is the same"
  (`rw_pages.cpp:71`) fails. `MCRwPagesStraddle.cfg`.

Smaller observations, stated where the modules have them: `DT_RELAENT` is asserted with `!=`
(`lib/reloc/rtld/ModuleObject.cpp:91`); `svc.h` documents three numbers one too low; `svcGetProcessInfo` stores half of its output;
`util::Range` is given a size as an end when regions are inferred; `Adrp` shifts a negative distance as an unsigned number
(`lib/armv8/instructions/op100x/pc_rel_addressing/adrp.hpp:12`) and loses its sign, so that the instruction addresses 4 GB further on (`Meant`); an object of `RwPages` that was
assigned from a moved-from one aborts in its destructor (`rw_pages.hpp:85`); the glue takes no notice of what the driver answers; `writeFileToPath` returns 1 for success, which
`ImguiShaderCompiler.cpp:109` would take for a failure if it ran; a window that is collapsed ends without the `ImGui::End` of its
`Begin` (`Windows/Log.cpp:16`).

## 6. Not modelled

"components" in `PROJECT.json` has the list with reasons. For good: the shader compiler (its only call is behind `if (false)`),
Jit (a pool and one `RwPages`), the payload reboot (`EXL_SUPPORTS_REBOOTPAYLOAD` is off, so that the file is not compiled), and the headers
of the game, the system and vendored tools. Of components that are partly modelled, left out are: `crt0.s`, global constructors and the heap
that `EXL_USE_FAKEHEAP` would turn on (Boot); clip rectangles, render state and style (ImGui backend); mouse positions, scrolling
and names of buttons (Input); `virtmemFindStack`, `virtmemFindCodeMemory`, `armDCacheClean` and `armDCacheZero`, which nothing calls; what
the memory and heap windows display; what the kernel does with a call, and the tables of constants of `svc.h`. The crash
report, the formats and filters of the log and all layout are left out too. Encoders that no file of the build includes (the shift aliases
and `orr` with an immediate) are not in `Encoders`.

## 7. Plan

Done: the exception path, `RwPages` with virtmem, relocation and the hook engine, the nvn glue with input and the backend, system calls,
patchers with their encoders, the start with linker, layout and handle, the GUI with log, actors and files, and the map of aliases
that `RwPages` implements; theorems in eight modules. What is left is what section 6 leaves out.
