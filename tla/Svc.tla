-------------------------------- MODULE Svc --------------------------------
(***************************************************************************)
(* The system calls: the wrappers of lib/nx/kernel/svc.s, executed         *)
(* instruction by instruction, against the prototypes their callers        *)
(* compile against, lib/nx/kernel/svc.h; and the calls of the secure       *)
(* monitor, lib/nx/smc.c, on top of one of them.                           *)
(*                                                                         *)
(* The kernel takes its arguments in x0..x7, leaves its result in x0 and   *)
(* its outputs in x1 and up, and what it likes in the other registers, so  *)
(* that a wrapper must keep the pointers its outputs go to on the stack.   *)
(* Which parameters those are, and how wide, only the prototype says.      *)
(* What the kernel itself writes through a pointer (a MemoryInfo, a list   *)
(* of ids, a debug event) is not the wrapper's affair.                     *)
(*                                                                         *)
(* A register or a word of memory holds where its value came from, not a   *)
(* number.  One thread: wrappers share nothing but its stack.  Faulty      *)
(* variants next to definitions are for TLC only.                          *)
(***************************************************************************)
EXTENDS Integers, Sequences, TLC

VARIABLES
  name,   \* the wrapper at work
  pc,     \* the instruction it executes next, 0 when none is at work
  x,      \* registers x0..x8
  stack,  \* what has been pushed, top first
  mem,    \* the words written through pointers, [value, width]
  asked,  \* history: the call the kernel was asked for and its arguments
  smc,    \* the function of smc.c the call is for
  answer  \* what that function returned, and what it stored for its caller

cpu  == <<x, stack, mem, asked>>
vars == <<name, pc, cpu, smc, answer>>

Arg(i)      == <<"argument", i>>
Field(i)    == <<"X", i>>        \* args.X[i], as its caller filled it
Out(i)      == <<"output", i>>
Const(c)    == <<"constant", c>>
Unset       == <<"unset", 0>>
Junk        == <<"junk", 0>>

-----------------------------------------------------------------------------
(* The shapes of a wrapper.                                                *)

Push(regs)                == [op |-> "push", regs |-> regs]
Pop(regs)                 == [op |-> "pop", regs |-> regs]
Call(n)                   == [op |-> "svc", number |-> n]
Str(reg, base, cell, w)   == [op |-> "str", reg |-> reg, base |-> base, cell |-> cell, width |-> w]
Ldr(reg, base, cell)      == [op |-> "ldr", reg |-> reg, base |-> base, cell |-> cell]
Mov(reg, from)            == [op |-> "mov", reg |-> reg, from |-> from]
Ret                       == [op |-> "ret"]

Bare(n)           == << Call(n), Ret >>
KeepsFirst(arg, n, w) == << Push(<<0>>), Call(n), Pop(<<2>>), Str(1, 2, 0, w), Ret >>
Keeps(arg, n, w)  == << Push(<<arg>>), Call(n), Pop(<<2>>), Str(1, 2, 0, w), Ret >>
KeepsTwo(n, w)    == << Push(<<0, 1>>), Call(n), Pop(<<3, 4>>),
                        Str(1, 3, 0, w), Str(2, 4, 0, 32), Ret >>

MemoryWrappers == [
  svcSetHeapSize |-> Keeps(0, 1, 64), svcSetMemoryPermission |-> Bare(2),
  svcSetMemoryAttribute |-> Bare(3), svcMapMemory |-> Bare(4), svcUnmapMemory |-> Bare(5),
  svcQueryMemory |-> Keeps(1, 6, 32) ]

ThreadWrappers == [
  svcExitProcess |-> Bare(7), svcCreateThread |-> Keeps(0, 8, 32), svcStartThread |-> Bare(9),
  svcExitThread |-> Bare(10), svcSleepThread |-> Bare(11),
  svcGetThreadPriority |-> Keeps(0, 12, 32), svcSetThreadPriority |-> Bare(13),
  svcGetThreadCoreMask |-> KeepsTwo(14, 32), svcSetThreadCoreMask |-> Bare(15),
  svcGetCurrentProcessorNumber |-> Bare(16), svcSignalEvent |-> Bare(17),
  svcClearEvent |-> Bare(18) ]

SharingWrappers == [
  svcMapSharedMemory |-> Bare(19), svcUnmapSharedMemory |-> Bare(20),
  svcCreateTransferMemory |-> Keeps(0, 21, 32), svcCloseHandle |-> Bare(22),
  svcResetSignal |-> Bare(23), svcWaitSynchronization |-> Keeps(0, 24, 32),
  svcCancelSynchronization |-> Bare(25), svcArbitrateLock |-> Bare(26),
  svcArbitrateUnlock |-> Bare(27), svcWaitProcessWideKeyAtomic |-> Bare(28),
  svcSignalProcessWideKey |-> Bare(29), svcGetSystemTick |-> Bare(30),
  svcConnectToNamedPort |-> Keeps(0, 31, 32), svcSendSyncRequest |-> Bare(33),
  svcSendSyncRequestWithUserBuffer |-> Bare(34),
  svcSendAsyncRequestWithUserBuffer |-> Keeps(0, 35, 32),
  svcGetProcessId |-> Keeps(0, 36, 64), svcGetThreadId |-> Keeps(0, 37, 64),
  svcBreak |-> Bare(38), svcOutputDebugString |-> Bare(39),
  svcReturnFromException |-> Bare(40), svcGetInfo |-> Keeps(0, 41, 64) ]

SessionWrappers == [
  svcMapPhysicalMemory |-> Bare(44), svcUnmapPhysicalMemory |-> Bare(45),
  svcGetResourceLimitLimitValue |-> Keeps(0, 48, 64),
  svcGetResourceLimitCurrentValue |-> Keeps(0, 49, 64),
  svcSetThreadActivity |-> Bare(50), svcGetThreadContext3 |-> Bare(51),
  svcCreateSession |-> KeepsTwo(64, 32), svcAcceptSession |-> Keeps(0, 65, 32),
  svcReplyAndReceive |-> Keeps(0, 67, 32),
  svcReplyAndReceiveWithUserBuffer |-> Keeps(0, 68, 32),
  svcCreateEvent |-> KeepsTwo(69, 32), svcMapPhysicalMemoryUnsafe |-> Bare(72),
  svcUnmapPhysicalMemoryUnsafe |-> Bare(73), svcSetUnsafeLimit |-> Bare(74),
  svcCreateCodeMemory |-> Keeps(0, 75, 32), svcControlCodeMemory |-> Bare(76) ]

DeviceWrappers == [
  svcReadWriteRegister |-> Keeps(0, 78, 32), svcCreateSharedMemory |-> Keeps(0, 80, 32),
  svcMapTransferMemory |-> Bare(81), svcUnmapTransferMemory |-> Bare(82),
  svcCreateInterruptEvent |-> Keeps(0, 83, 32),
  svcQueryPhysicalAddress |->
    << Push(<<0>>), Call(84), Pop(<<4>>),
       Str(1, 4, 0, 64), Str(2, 4, 1, 64), Str(3, 4, 2, 64), Ret >>,
  svcQueryIoMapping |-> Keeps(0, 85, 64), svcCreateDeviceAddressSpace |-> Keeps(0, 86, 32),
  svcAttachDeviceAddressSpace |-> Bare(87), svcDetachDeviceAddressSpace |-> Bare(88),
  svcMapDeviceAddressSpaceByForce |-> Bare(89), svcMapDeviceAddressSpaceAligned |-> Bare(90),
  svcUnmapDeviceAddressSpace |-> Bare(92) ]

DebugWrappers == [
  svcDebugActiveProcess |-> Keeps(0, 96, 32), svcBreakDebugProcess |-> Bare(97),
  svcTerminateDebugProcess |-> Bare(98), svcGetDebugEvent |-> Bare(99),
  svcLegacyContinueDebugEvent |-> Bare(100), svcContinueDebugEvent |-> Bare(100),
  svcGetProcessList |-> Keeps(0, 101, 32), svcGetThreadList |-> Keeps(0, 102, 32),
  svcGetDebugThreadContext |-> Bare(103), svcSetDebugThreadContext |-> Bare(104),
  svcQueryDebugProcessMemory |-> Keeps(1, 105, 32),
  svcReadDebugProcessMemory |-> Bare(106), svcWriteDebugProcessMemory |-> Bare(107),
  svcGetDebugThreadParam |-> KeepsTwo(109, 64), svcGetSystemInfo |-> Keeps(0, 111, 64) ]

ProcessWrappers == [
  svcCreatePort |-> KeepsTwo(112, 32), svcManageNamedPort |-> Keeps(0, 113, 32),
  svcConnectToPort |-> Keeps(0, 114, 32), svcSetProcessMemoryPermission |-> Bare(115),
  svcMapProcessMemory |-> Bare(116), svcUnmapProcessMemory |-> Bare(117),
  svcQueryProcessMemory |-> Keeps(1, 118, 32), svcMapProcessCodeMemory |-> Bare(119),
  svcUnmapProcessCodeMemory |-> Bare(120), svcCreateProcess |-> Keeps(0, 121, 32),
  svcStartProcess |-> Bare(122), svcTerminateProcess |-> Bare(123),
  svcGetProcessInfo |-> Keeps(0, 124, 32), svcCreateResourceLimit |-> Keeps(0, 125, 32),
  svcSetResourceLimitLimitValue |-> Bare(126) ]

(* All eight registers go in and come out, through the pointer kept in x8. *)
MonitorWrapperInPlace ==
  [svcCallSecureMonitor |->
     << Push(<<0>>) >> \o [i \in 1..8 |-> Ldr(i - 1, 0, i - 1)]
       \o << Call(127), Pop(<<8>>) >> \o [i \in 1..8 |-> Str(i - 1, 8, i - 1, 64)] \o << Ret >>]
MonitorWrapper ==
  [svcCallSecureMonitor |->
     << Push(<<0>>), Mov(8, 0) >> \o [i \in 1..8 |-> Ldr(i - 1, 8, i - 1)]
       \o << Call(127), Pop(<<8>>) >> \o [i \in 1..8 |-> Str(i - 1, 8, i - 1, 64)] \o << Ret >>]

Wrappers ==
  MemoryWrappers @@ ThreadWrappers @@ SharingWrappers @@ SessionWrappers
    @@ DeviceWrappers @@ DebugWrappers @@ ProcessWrappers @@ MonitorWrapper

-----------------------------------------------------------------------------
(* The prototypes: the number each is documented with, and the parameters  *)
(* the kernel's outputs go to, in the order of the registers from x1 on.   *)

Takes(n)        == [number |-> n, outs |-> <<>>]
Gives(n, outs)  == [number |-> n, outs |-> outs]
To(arg, w)      == [arg |-> arg, cell |-> 0, width |-> w]
Handle(n)       == Gives(n, <<To(0, 32)>>)
Handles(n)      == Gives(n, <<To(0, 32), To(1, 32)>>)
Long(n)         == Gives(n, <<To(0, 64)>>)
PageInfo(n)     == Gives(n, <<To(1, 32)>>)

MemoryPrototypes == [
  svcSetHeapSize |-> Long(0), svcSetMemoryPermission |-> Takes(1),
  svcSetMemoryAttribute |-> Takes(2), svcMapMemory |-> Takes(4), svcUnmapMemory |-> Takes(5),
  svcQueryMemory |-> PageInfo(6) ]

ThreadPrototypes == [
  svcExitProcess |-> Takes(7), svcCreateThread |-> Handle(8), svcStartThread |-> Takes(9),
  svcExitThread |-> Takes(10), svcSleepThread |-> Takes(11), svcGetThreadPriority |-> Handle(12),
  svcSetThreadPriority |-> Takes(13), svcGetThreadCoreMask |-> Handles(14),
  svcSetThreadCoreMask |-> Takes(15), svcGetCurrentProcessorNumber |-> Takes(16) ]

SyncPrototypes == [
  svcSignalEvent |-> Takes(17), svcClearEvent |-> Takes(18), svcMapSharedMemory |-> Takes(19),
  svcUnmapSharedMemory |-> Takes(20), svcCreateTransferMemory |-> Handle(21),
  svcCloseHandle |-> Takes(22), svcResetSignal |-> Takes(23),
  svcWaitSynchronization |-> Handle(24), svcCancelSynchronization |-> Takes(25),
  svcArbitrateLock |-> Takes(26), svcArbitrateUnlock |-> Takes(27),
  svcWaitProcessWideKeyAtomic |-> Takes(28), svcSignalProcessWideKey |-> Takes(29) ]

IpcPrototypes == [
  svcGetSystemTick |-> Takes(30), svcConnectToNamedPort |-> Handle(31),
  svcSendSyncRequest |-> Takes(33), svcSendSyncRequestWithUserBuffer |-> Takes(34),
  svcSendAsyncRequestWithUserBuffer |-> Handle(35), svcGetProcessId |-> Long(36),
  svcGetThreadId |-> Long(37), svcBreak |-> Takes(38), svcOutputDebugString |-> Takes(39),
  svcReturnFromException |-> Takes(40), svcGetInfo |-> Long(41) ]

SessionPrototypes == [
  svcMapPhysicalMemory |-> Takes(44), svcUnmapPhysicalMemory |-> Takes(45),
  svcGetResourceLimitLimitValue |-> Long(48), svcGetResourceLimitCurrentValue |-> Long(49),
  svcSetThreadActivity |-> Takes(50), svcCreateSession |-> Handles(64),
  svcAcceptSession |-> Handle(65), svcReplyAndReceive |-> Handle(67),
  svcReplyAndReceiveWithUserBuffer |-> Handle(68), svcCreateEvent |-> Handles(69) ]

CodePrototypes == [
  svcMapPhysicalMemoryUnsafe |-> Takes(72), svcUnmapPhysicalMemoryUnsafe |-> Takes(73),
  svcSetUnsafeLimit |-> Takes(74), svcCreateCodeMemory |-> Handle(75),
  svcControlCodeMemory |-> Takes(76), svcReadWriteRegister |-> Handle(78),
  svcCreateSharedMemory |-> Handle(80), svcMapTransferMemory |-> Takes(81),
  svcUnmapTransferMemory |-> Takes(82), svcCreateInterruptEvent |-> Handle(83),
  svcQueryPhysicalAddress |-> Gives(84, [i \in 1..3 |-> [arg |-> 0, cell |-> i - 1, width |-> 64]]),
  svcQueryIoMapping |-> Long(85) ]

DebugPrototypes == [
  svcCreateDeviceAddressSpace |-> Handle(86), svcAttachDeviceAddressSpace |-> Takes(87),
  svcDetachDeviceAddressSpace |-> Takes(88), svcMapDeviceAddressSpaceByForce |-> Takes(89),
  svcMapDeviceAddressSpaceAligned |-> Takes(90), svcUnmapDeviceAddressSpace |-> Takes(92),
  svcDebugActiveProcess |-> Handle(96), svcBreakDebugProcess |-> Takes(97),
  svcTerminateDebugProcess |-> Takes(98), svcGetDebugEvent |-> Takes(99),
  svcContinueDebugEvent |-> Takes(100), svcLegacyContinueDebugEvent |-> Takes(100),
  svcGetProcessList |-> Handle(101), svcGetThreadList |-> Handle(102),
  svcQueryDebugProcessMemory |-> PageInfo(105), svcReadDebugProcessMemory |-> Takes(106),
  svcWriteDebugProcessMemory |-> Takes(107),
  svcGetDebugThreadParam |-> Gives(109, <<To(0, 64), To(1, 32)>>) ]

ProcessPrototypes == [
  svcGetSystemInfo |-> Long(111), svcCreatePort |-> Handles(112),
  svcManageNamedPort |-> Handle(113), svcConnectToPort |-> Handle(114),
  svcSetProcessMemoryPermission |-> Takes(115), svcMapProcessMemory |-> Takes(116),
  svcUnmapProcessMemory |-> Takes(117), svcQueryProcessMemory |-> PageInfo(118),
  svcMapProcessCodeMemory |-> Takes(119), svcUnmapProcessCodeMemory |-> Takes(120) ]

LimitPrototypes == [
  svcCreateProcess |-> Handle(121), svcStartProcess |-> Takes(122),
  svcTerminateProcess |-> Takes(123), svcGetProcessInfo |-> Long(124),
  svcCreateResourceLimit |-> Handle(125), svcSetResourceLimitLimitValue |-> Takes(126) ]

(* u64 svcCallSecureMonitor(SecmonArgs* regs)                              *)
MonitorPrototype ==
  [svcCallSecureMonitor |->
     Gives(127, [i \in 1..8 |-> [arg |-> 0, cell |-> i - 1, width |-> 64]])]

Prototypes ==
  MemoryPrototypes @@ ThreadPrototypes @@ SyncPrototypes @@ IpcPrototypes @@ SessionPrototypes
    @@ CodePrototypes @@ DebugPrototypes @@ ProcessPrototypes @@ LimitPrototypes @@ MonitorPrototype

(* Three wrappers have no prototype, and no caller.                        *)
Declared == DOMAIN Prototypes
Calls    == DOMAIN Wrappers

-----------------------------------------------------------------------------
(* A wrapper executes.                                                     *)

Running(op) == pc > 0 /\ Wrappers[name][pc].op = op
Insn        == Wrappers[name][pc]
Advance     == pc' = pc + 1 /\ UNCHANGED <<name, smc, answer>>

Begin(f, args, words) ==
  /\ pc = 0 /\ name' = f /\ pc' = 1
  /\ x' = [i \in 0..8 |-> IF i < 8 THEN args[i] ELSE Junk]
  /\ stack' = <<>> /\ mem' = words /\ asked' = <<>> /\ answer' = <<>>

Plain == [i \in 0..7 |-> Arg(i)]

(* A caller of the program, with arguments the wrapper knows nothing of.   *)
Invoke ==
  /\ smc = "none"
  /\ \E f \in Calls : Begin(f, Plain, <<>>)
  /\ UNCHANGED smc

DoPush ==
  /\ Running("push")
  /\ stack' = [k \in DOMAIN Insn.regs |-> x[Insn.regs[k]]] \o stack
  /\ UNCHANGED <<x, mem, asked>> /\ Advance

DoPop ==
  /\ Running("pop")
  /\ x' = [r \in 0..8 |-> IF \E k \in DOMAIN Insn.regs : Insn.regs[k] = r
                          THEN stack[CHOOSE k \in DOMAIN Insn.regs : Insn.regs[k] = r]
                          ELSE x[r]]
  /\ stack' = SubSeq(stack, Len(Insn.regs) + 1, Len(stack))
  /\ UNCHANGED <<mem, asked>> /\ Advance

DoMov ==
  /\ Running("mov")
  /\ x' = [x EXCEPT ![Insn.reg] = x[Insn.from]]
  /\ UNCHANGED <<stack, mem, asked>> /\ Advance

DoLdr ==
  /\ Running("ldr")
  /\ LET a == <<x[Insn.base], Insn.cell>>
     IN x' = [x EXCEPT ![Insn.reg] = IF a \in DOMAIN mem THEN mem[a].value ELSE Unset]
  /\ UNCHANGED <<stack, mem, asked>> /\ Advance

DoStr ==
  /\ Running("str")
  /\ mem' = (<<x[Insn.base], Insn.cell>> :> [value |-> x[Insn.reg], width |-> Insn.width]) @@ mem
  /\ UNCHANGED <<x, stack, asked>> /\ Advance

(* The kernel: its result, its outputs, and nothing to be relied on above. *)
(* The monitor's result is its x0, zero when it did what it was asked.     *)
Kernel ==
  /\ Running("svc")
  /\ asked' = [number |-> Insn.number, args |-> [i \in 0..7 |-> x[i]]]
  /\ \E r \in {Const(0), Const(1)} :
       x' = [i \in 0..8 |-> IF i = 0 THEN r ELSE IF i < 8 THEN Out(i) ELSE Junk]
  /\ UNCHANGED <<stack, mem>> /\ Advance

Return ==
  /\ Running("ret") /\ smc = "none"
  /\ pc' = 0 /\ UNCHANGED <<name, cpu, smc, answer>>

-----------------------------------------------------------------------------
(* smc.c: a function fills args, calls the monitor, and makes its result   *)
(* of the monitor's.                                                       *)

Filling(id, rest) == [i \in DOMAIN rest \cup {0} |-> IF i = 0 THEN Const(id) ELSE rest[i]]

(* X[2] is left as it was on the stack.                                    *)
SetConfigCalls == [
  smcRebootToRcm |-> Filling("SetConfig", 1 :> Const("NeedsReboot") @@ 3 :> Const("rcm")),
  smcRebootToIramPayload |-> Filling("SetConfig", 1 :> Const("NeedsReboot") @@ 3 :> Const("iram")),
  smcPerformShutdown |-> Filling("SetConfig", 1 :> Const("NeedsShutdown") @@ 3 :> Const(1)) ]

MonitorCalls == [
  smcGetConfig |-> Filling("GetConfig", 1 :> Field("item")),
  smcCopyToIram |-> Filling("IramCopy",
    1 :> Field("dram") @@ 2 :> Field("iram") @@ 3 :> Field("size") @@ 4 :> Const("write")),
  smcCopyFromIram |-> Filling("IramCopy",
    1 :> Field("dram") @@ 2 :> Field("iram") @@ 3 :> Field("size") @@ 4 :> Const("read")),
  smcReadWriteRegister |-> Filling("ReadWriteRegister",
    1 :> Field("address") @@ 2 :> Field("mask") @@ 3 :> Field("value")),
  smcGenerateRandomU64 |-> Filling("GenerateRandomBytes", 1 :> Const(8)) ]

SmcCalls == SetConfigCalls @@ MonitorCalls

Smc ==
  /\ smc = "none"
  /\ \E f \in DOMAIN SmcCalls :
       /\ smc' = f
       /\ LET filled == SmcCalls[f]
              words  == [a \in {<<Arg(0), i>> : i \in DOMAIN filled} |->
                           [value |-> filled[a[2]], width |-> 64]]
          IN Begin("svcCallSecureMonitor", Plain, words)

X(i) == mem[<<Arg(0), i>>].value

(* rc = svcCallSecureMonitor(&args): the wrapper leaves the monitor's x0   *)
(* where a function returns its result.                                    *)
Rc == x[0]

(* "SPL result n = SMC result n", and the output when there is one.        *)
SplResult(n) == <<"spl", n>>
Converted == IF Rc = Const(0) /\ X(0) # Const(0) THEN SplResult(X(0)) ELSE Rc
HasOutput == {"smcGetConfig", "smcGenerateRandomU64"}
StoredEagerly(f) == IF f \in HasOutput THEN X(1) ELSE Unset
Stored(f) == IF f \in HasOutput /\ Converted = Const(0) THEN X(1) ELSE Unset

SmcReturn ==
  /\ Running("ret") /\ smc # "none"
  /\ answer' = [result |-> IF smc \in DOMAIN SetConfigCalls THEN Unset ELSE Converted,
                stored |-> Stored(smc)]
  /\ pc' = 0 /\ smc' = "none" /\ UNCHANGED <<name, cpu>>

Init ==
  /\ name = "svcExitThread" /\ pc = 0
  /\ x = [i \in 0..8 |-> Junk] /\ stack = <<>> /\ mem = <<>> /\ asked = <<>>
  /\ smc = "none" /\ answer = <<>>

Next ==
  \/ Invoke \/ Smc
  \/ DoPush \/ DoPop \/ DoMov \/ DoLdr \/ DoStr \/ Kernel
  \/ Return \/ SmcReturn

Spec == Init /\ [][Next]_vars

-----------------------------------------------------------------------------
TypeOK ==
  /\ name \in Calls /\ pc \in 0..Len(Wrappers[name])
  /\ DOMAIN x = 0..8 /\ stack \in Seq(UNION {{Arg(i), Field(i), Out(i)} : i \in 0..7})
  /\ \A a \in DOMAIN mem : mem[a].width \in {32, 64}
  /\ smc \in {"none"} \cup DOMAIN SmcCalls

AtReturn == Running("ret")

(* The arguments of a call reach the kernel in their registers, with the   *)
(* number the call is documented with; the first three are documented one  *)
(* too low (svc.h:239, 251, 264), as calls the kernel does not have.       *)
DocumentedLow == {"svcSetHeapSize", "svcSetMemoryPermission", "svcSetMemoryAttribute"}

KernelIsAskedFor ==
  /\ TypeOK
  /\ AtReturn /\ name \in Declared =>
    /\ asked.number = Prototypes[name].number + (IF name \in DocumentedLow THEN 1 ELSE 0)
    /\ \A i \in 0..7 :
         asked.args[i] = IF name # "svcCallSecureMonitor" THEN Arg(i)
                         ELSE IF smc = "none" \/ i \notin DOMAIN SmcCalls[smc] THEN Unset
                         ELSE SmcCalls[smc][i]

(* Where a wrapper returns, the parameters its prototype declares hold the *)
(* kernel's outputs, each in the width its caller reads it in, nothing     *)
(* else was written, and the stack is as its caller left it.  What the     *)
(* kernel writes through a pointer of its own accord is left out.          *)
FromRegister(k) == IF name = "svcCallSecureMonitor" THEN k - 1 ELSE k

Delivered ==
  LET outs == Prototypes[name].outs
      place(o) == <<Arg(o.arg), o.cell>>
  IN /\ DOMAIN mem = {place(outs[k]) : k \in DOMAIN outs}
     /\ \A k \in DOMAIN outs :
          mem[place(outs[k])] = [value |-> IF FromRegister(k) = 0 THEN x[0] ELSE Out(FromRegister(k)),
                                 width |-> outs[k].width]

(* svcGetProcessInfo stores half of the u64 its prototype promises.        *)
StoresHalf == {"svcGetProcessInfo"}

OutputsDelivered ==
  AtReturn /\ name \in Declared =>
    stack = <<>> /\ (name \notin StoresHalf => Delivered)

(* The prototype of svcGetProcessInfo among the others (svc.h:1184).       *)
OutputsWhole == AtReturn /\ name \in Declared => Delivered

(* A function of smc.c reports success exactly when the monitor did, and   *)
(* writes its caller's variable only then, with what the monitor gave.     *)
SmcTellsFailure ==
  pc = 0 /\ answer # <<>> =>
    /\ answer.result # Unset => (answer.result = Const(0) <=> x[0] = Const(0))
    /\ answer.stored # Unset => x[0] = Const(0) /\ answer.stored = Out(1)

(* "SPL result n = SMC result n" (smc.c:54): what a failing call returns.  *)
SmcResultConverted ==
  pc = 0 /\ answer # <<>> /\ answer.result # Unset /\ x[0] # Const(0) =>
    answer.result = SplResult(x[0])
=============================================================================
