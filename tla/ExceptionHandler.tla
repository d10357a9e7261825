-------------------------- MODULE ExceptionHandler --------------------------
(***************************************************************************)
(* The user-mode exception path of src/program/ExceptionHandler.{cpp,s}.   *)
(*                                                                         *)
(* A fault reaches phaseOneHandler, which parks part of the faulting       *)
(* thread's registers in the one global exceptionInfo and redirects the    *)
(* thread to phaseTwoHandler on the one global handlerStack.  Phase two    *)
(* parks the other registers, phase three asks the innermost tryCatch      *)
(* frame or else handlerFunc for a verdict, phase four reloads registers   *)
(* and traps (svc 0xBEEF) back into phase one, which restores the rest.    *)
(*                                                                         *)
(* Registers are abstracted to the activation they belong to: <<t, d>> is  *)
(* code of thread t nested in d tryCatch bodies.  They come in the three   *)
(* groups that the code moves separately:                                  *)
(*   low    x0-x8, lr, sp, pc: moved by phase one through the kernel       *)
(*   fp     x29: moved by phases two and four, set by tryCallCatch         *)
(*   callee x9-x28: moved by phases two and four only                      *)
(*                                                                         *)
(* The kernel delivers exceptions of one process one at a time, until      *)
(* svcReturnFromException, so that phase one is one step (external).       *)
(*                                                                         *)
(* Next to some definitions stands a faulty variant that no action uses:   *)
(* TLC is given it in place of the definition, to see that a property      *)
(* fails then.                                                             *)
(***************************************************************************)
EXTENDS Naturals, Sequences, FiniteSets

CONSTANTS
  Threads,   \* threads of the game process, each may fault
  MaxDepth,  \* bound on the nesting of tryCatch in a thread
  NoAct      \* registers that hold nothing of a thread's own code

ASSUME DepthAssumption == MaxDepth \in Nat
ASSUME NoActAssumption == NoAct \notin Threads \X Nat

VARIABLES
  vector,         \* what rtld's exception entry branches to
  exceptionInfo,  \* the global ExceptionInfo
  catchStack,     \* per thread, the CatchStackFrames linked by parentFrame
  regs,           \* per thread, the register file
  phase,          \* per thread, where it is on the exception path
  exit,           \* why the process was given up, or "no"
  fault,          \* history: per thread, registers and verdict of its fault
  overtaken       \* history: a fault was accepted between another thread's
                  \* verdict and that thread's return trap

vars == <<vector, exceptionInfo, catchStack, regs, phase, exit, fault, overtaken>>

Acts    == (Threads \X (0..MaxDepth)) \cup {NoAct}
Lows    == [act: Acts, pc: {"code", "abort", "pop", "handler"}]
Regs    == [low: Lows, fp: Acts, callee: Acts]
Frames  == [act: Acts, fp: Acts, callee: Acts]
Verdicts == {"Continue", "Exit"}
States  == {"FirstChance", "SecondChance"} \cup Verdicts
Phases  == {"run", "two", "three", "four", "trap"}
Exits   == {"no", "stock", "wild", "second", "verdict"}

Undecided == {"two", "three"}   \* exceptionInfo in use, no verdict yet
Decided   == {"four", "trap"}   \* verdict stored, not yet trapped
OnHandlerStack(t) == phase[t] \in Undecided \cup Decided

HandlerLow == [act |-> NoAct, pc |-> "handler"]
OwnRegs(t, d) == [low |-> [act |-> <<t, d>>, pc |-> "code"],
                  fp |-> <<t, d>>, callee |-> <<t, d>>]
NoFault == [regs |-> [low |-> HandlerLow, fp |-> NoAct, callee |-> NoAct],
            verdict |-> "Continue"]

Depth(t)  == Len(catchStack[t])
Top(t)    == catchStack[t][Len(catchStack[t])]
Popped(t) == SubSeq(catchStack[t], 1, Len(catchStack[t]) - 1)

(* Thread t executes its own code, which is the only code modelled: what a *)
(* thread does with another thread's registers is left undefined.          *)
RunsCode(t) ==
  /\ exit = "no"
  /\ phase[t] = "run"
  /\ regs[t].low = [act |-> <<t, Depth(t)>>, pc |-> "code"]

Init ==
  /\ vector = "rtld"
  /\ exceptionInfo = [low |-> HandlerLow, fp |-> NoAct, callee |-> NoAct,
                      state |-> "FirstChance"]
  /\ catchStack = [t \in Threads |-> <<>>]
  /\ regs = [t \in Threads |-> OwnRegs(t, 0)]
  /\ phase = [t \in Threads |-> "run"]
  /\ exit = "no"
  /\ fault = [t \in Threads |-> NoFault]
  /\ overtaken = FALSE

-----------------------------------------------------------------------------
(* installExceptionHandler: two RwPages scopes, the branch sequence first  *)
(* and the pointer it loads second.                                        *)

InstallBranch ==
  /\ exit = "no"
  /\ vector = "rtld"
  /\ vector' = "branch"
  /\ UNCHANGED <<exceptionInfo, catchStack, regs, phase, exit, fault, overtaken>>

InstallPointer ==
  /\ exit = "no"
  /\ vector = "branch"
  /\ vector' = "handler"
  /\ UNCHANGED <<exceptionInfo, catchStack, regs, phase, exit, fault, overtaken>>

-----------------------------------------------------------------------------
(* tryCatch (assembly), pushCatch and popCatch.                            *)

(* pushCatch stores sp and fp, tryCatch the lr and x19-x28 of its caller.  *)
FrameWithoutFp(t) == [act |-> regs[t].low.act, fp |-> NoAct, callee |-> regs[t].callee]
NewFrame(t) == [act |-> regs[t].low.act, fp |-> regs[t].fp, callee |-> regs[t].callee]

(* Push a frame, then call tryFunc.                                        *)
TryCatch(t) ==
  /\ RunsCode(t)
  /\ Depth(t) < MaxDepth
  /\ catchStack' = [catchStack EXCEPT ![t] = Append(@, NewFrame(t))]
  /\ regs' = [regs EXCEPT ![t] = OwnRegs(t, Depth(t) + 1)]
  /\ UNCHANGED <<vector, exceptionInfo, phase, exit, fault, overtaken>>

(* tryFunc returned: reload x19-x28, fp and lr from the frame, popCatch.   *)
TryReturns(t) ==
  /\ RunsCode(t)
  /\ Depth(t) > 0
  /\ regs' = [regs EXCEPT ![t] = [low |-> [act |-> Top(t).act, pc |-> "code"],
                                  fp |-> Top(t).fp, callee |-> Top(t).callee]]
  /\ catchStack' = [catchStack EXCEPT ![t] = Popped(t)]
  /\ UNCHANGED <<vector, exceptionInfo, phase, exit, fault, overtaken>>

(* A caught exception resumes in popCatch itself, which frees the frame    *)
(* and returns to tryCatch's caller through the lr of the frame.           *)
PopCatch(t) ==
  /\ exit = "no"
  /\ phase[t] = "run"
  /\ regs[t].low.pc = "pop"
  /\ Depth(t) > 0
  /\ regs[t].low.act = Top(t).act
  /\ regs' = [regs EXCEPT ![t].low.pc = "code"]
  /\ catchStack' = [catchStack EXCEPT ![t] = Popped(t)]
  /\ UNCHANGED <<vector, exceptionInfo, phase, exit, fault, overtaken>>

-----------------------------------------------------------------------------
(* phaseOneHandler, entered for a fault of t whose registers are r.        *)

(* Before installation ends the entry is rtld's own, or a branch through a *)
(* word that is not yet the address of phaseOneHandler.                    *)
UnhandledFault(t) ==
  /\ vector # "handler"
  /\ exit' = IF vector = "rtld" THEN "stock" ELSE "wild"
  /\ UNCHANGED <<vector, exceptionInfo, catchStack, regs, phase, fault, overtaken>>

(* A fault is refused while another one is being judged.                   *)
AcceptingAny == TRUE
Accepting == exceptionInfo.state # "SecondChance"

(* exceptionState = SecondChance: svcReturnFromException(1).               *)
RejectFault(t) ==
  /\ vector = "handler"
  /\ ~Accepting
  /\ exit' = "second"
  /\ UNCHANGED <<vector, exceptionInfo, catchStack, regs, phase, fault, overtaken>>

AcceptFault(t, r) ==
  /\ vector = "handler"
  /\ Accepting
  /\ exceptionInfo' = [exceptionInfo EXCEPT !.low = r.low, !.state = "SecondChance"]
  /\ regs' = [regs EXCEPT ![t].low = HandlerLow]
  /\ phase' = [phase EXCEPT ![t] = "two"]
  /\ fault' = [fault EXCEPT ![t].regs = r]
  /\ overtaken' = (overtaken \/ \E u \in Threads \ {t} : phase[u] \in Decided)
  /\ UNCHANGED <<vector, catchStack, exit>>

PhaseOne(t, r) == UnhandledFault(t) \/ RejectFault(t) \/ AcceptFault(t, r)

(* An ordinary fault of the thread's code.                                 *)
Fault(t) ==
  /\ RunsCode(t)
  /\ PhaseOne(t, regs[t])

(* AbortImpl stores to 0x6969696969696969 to raise a fault on purpose.     *)
Abort(t) ==
  /\ RunsCode(t)
  /\ PhaseOne(t, [regs[t] EXCEPT !.low.pc = "abort"])

(* catchFunc, or the frame walk of printCrashReport, faults in phase three.*)
FaultInHandler(t) ==
  /\ exit = "no"
  /\ phase[t] = "three"
  /\ PhaseOne(t, regs[t])

-----------------------------------------------------------------------------
(* Phases two to four, on handlerStack.                                    *)

(* The stores of phaseTwoHandler; from here C++ code uses the registers.   *)
ParkedWithoutFp(t) == [exceptionInfo EXCEPT !.callee = regs[t].callee]
Parked(t) == [exceptionInfo EXCEPT !.fp = regs[t].fp, !.callee = regs[t].callee]

PhaseTwo(t) ==
  /\ exit = "no"
  /\ phase[t] = "two"
  /\ exceptionInfo' = Parked(t)
  /\ regs' = [regs EXCEPT ![t].fp = NoAct, ![t].callee = NoAct]
  /\ phase' = [phase EXCEPT ![t] = "three"]
  /\ UNCHANGED <<vector, catchStack, exit, fault, overtaken>>

(* tryCallCatch with a frame whose catchFunc is empty or returns true.  Its*)
(* std::copy writes past savedRegisters instead of into info, so that      *)
(* x19-x28 of exceptionInfo keep the values they had at the fault.         *)
CaughtWithoutFp(t) == [exceptionInfo EXCEPT
  !.low = [act |-> Top(t).act, pc |-> "pop"], !.state = "Continue"]
CaughtWithoutPc(t) == [exceptionInfo EXCEPT !.fp = Top(t).fp, !.state = "Continue"]
Caught(t) == [exceptionInfo EXCEPT
  !.low = [act |-> Top(t).act, pc |-> "pop"], !.fp = Top(t).fp, !.state = "Continue"]

CatchAccepts(t) ==
  /\ exit = "no"
  /\ phase[t] = "three"
  /\ Depth(t) > 0
  /\ exceptionInfo' = Caught(t)
  /\ phase' = [phase EXCEPT ![t] = "four"]
  /\ fault' = [fault EXCEPT ![t].verdict = "Continue"]
  /\ UNCHANGED <<vector, catchStack, regs, exit, overtaken>>

(* tryCallCatch with a frame whose catchFunc returns false.                *)
CatchRefuses(t) ==
  /\ exit = "no"
  /\ phase[t] = "three"
  /\ Depth(t) > 0
  /\ exceptionInfo' = [exceptionInfo EXCEPT !.state = "Exit"]
  /\ phase' = [phase EXCEPT ![t] = "four"]
  /\ fault' = [fault EXCEPT ![t].verdict = "Exit"]
  /\ UNCHANGED <<vector, catchStack, regs, exit, overtaken>>

(* No frame: the handlerFunc that DbgGui installs steps over the faulting  *)
(* instruction, reports, and returns true.                                 *)
SkippedAsAction == [exceptionInfo EXCEPT !.state = "Skip"]
Skipped == [exceptionInfo EXCEPT
  !.low.pc = IF @ = "abort" THEN "code" ELSE @, !.state = "Continue"]

HandlerSkips(t) ==
  /\ exit = "no"
  /\ phase[t] = "three"
  /\ Depth(t) = 0
  /\ exceptionInfo' = Skipped
  /\ phase' = [phase EXCEPT ![t] = "four"]
  /\ fault' = [fault EXCEPT ![t].verdict = "Continue"]
  /\ UNCHANGED <<vector, catchStack, regs, exit, overtaken>>

PhaseThree(t) == CatchAccepts(t) \/ CatchRefuses(t) \/ HandlerSkips(t)

(* The loads of phaseFourHandler, before its svc.                          *)
ReloadedFpOnly(t) == [regs EXCEPT ![t].fp = exceptionInfo.fp]
Reloaded(t) == [regs EXCEPT ![t].fp = exceptionInfo.fp, ![t].callee = exceptionInfo.callee]

PhaseFour(t) ==
  /\ exit = "no"
  /\ phase[t] = "four"
  /\ regs' = Reloaded(t)
  /\ phase' = [phase EXCEPT ![t] = "trap"]
  /\ UNCHANGED <<vector, exceptionInfo, catchStack, exit, fault, overtaken>>

(* phaseOneHandler for svc 0xBEEF: restore, reset, return the verdict.     *)
NotRearmed == exceptionInfo
Rearmed == [exceptionInfo EXCEPT !.state = "FirstChance"]
ReadsAfterReset == Rearmed.state = "Exit"
GivesUp == exceptionInfo.state = "Exit"

Trap(t) ==
  /\ exit = "no"
  /\ phase[t] = "trap"
  /\ exceptionInfo' = Rearmed
  /\ regs' = [regs EXCEPT ![t].low = exceptionInfo.low]
  /\ exit' = IF GivesUp THEN "verdict" ELSE "no"
  /\ phase' = [phase EXCEPT ![t] = "run"]
  /\ fault' = [fault EXCEPT ![t] = NoFault]
  /\ UNCHANGED <<vector, catchStack, overtaken>>

(* A process that was given up runs no more.                               *)
ProcessGone ==
  /\ exit # "no"
  /\ UNCHANGED vars

(* A thread that was resumed with registers of another activation: what it *)
(* does next is undefined and is not followed.                             *)
Astray(t) ==
  /\ exit = "no"
  /\ phase[t] = "run"
  /\ regs[t].low.act # <<t, IF regs[t].low.pc = "pop" THEN Depth(t) - 1 ELSE Depth(t)>>
  /\ UNCHANGED vars

HandlerStep(t) == PhaseTwo(t) \/ PhaseThree(t) \/ PhaseFour(t) \/ Trap(t)

Next ==
  \/ InstallBranch \/ InstallPointer \/ ProcessGone
  \/ \E t \in Threads :
       \/ TryCatch(t) \/ TryReturns(t) \/ PopCatch(t)
       \/ Fault(t) \/ Abort(t) \/ FaultInHandler(t)
       \/ HandlerStep(t) \/ Astray(t)

Spec == Init /\ [][Next]_vars

(* Nothing on the exception path waits: a runnable core executes it.       *)
FairSpec == Spec /\ \A t \in Threads : WF_vars(HandlerStep(t)) /\ WF_vars(PopCatch(t))

-----------------------------------------------------------------------------
(* Properties.                                                             *)

TypeOK ==
  /\ vector \in {"rtld", "branch", "handler"}
  /\ exceptionInfo \in [low: Lows, fp: Acts, callee: Acts, state: States]
  /\ catchStack \in [Threads -> Seq(Frames)]
  /\ \A t \in Threads : Depth(t) <= MaxDepth
  /\ regs \in [Threads -> Regs]
  /\ phase \in [Threads -> Phases]
  /\ exit \in Exits
  /\ fault \in [Threads -> [regs: Regs, verdict: Verdicts]]
  /\ overtaken \in BOOLEAN

(* exceptionInfo and handlerStack are globals without a lock; the only     *)
(* guard is the SecondChance test of phaseOneHandler, which protects them  *)
(* up to the verdict.  Unless a fault is accepted between a verdict and    *)
(* its return trap, two threads are never on the exception path at once.   *)
HandlerStackExclusive ==
  ~overtaken => \A t, u \in Threads : OnHandlerStack(t) /\ OnHandlerStack(u) => t = u

(* Under the same condition the state field tells where the owner is, so   *)
(* that a fault is refused exactly while another one is being judged.      *)
StateTracksOwner ==
  ~overtaken =>
     /\ \A t \in Threads :
          /\ phase[t] \in Undecided => exceptionInfo.state = "SecondChance"
          /\ phase[t] \in Decided => exceptionInfo.state = fault[t].verdict
     /\ (\A t \in Threads : ~OnHandlerStack(t)) => exceptionInfo.state = "FirstChance"

(* A thread off the exception path executes its own code at the depth of   *)
(* its own catch stack, or is in popCatch with a frame to pop (the         *)
(* assertion of popCatch), and its frame pointer is the one that code set. *)
ResumesOwnContext(t) ==
  /\ regs[t].low.pc \in {"code", "pop"}
  /\ LET d == IF regs[t].low.pc = "pop" THEN Depth(t) - 1 ELSE Depth(t)
     IN  d \in Nat /\ regs[t].low.act = <<t, d>> /\ regs[t].fp = <<t, d>>

OwnContext ==
  ~overtaken => \A t \in Threads : phase[t] = "run" /\ exit = "no" => ResumesOwnContext(t)

(* The parentFrame chain of a thread is its tryCatch nesting, one frame a  *)
(* level, across any mix of returns and caught exceptions.                 *)
CatchChain ==
  ~overtaken => \A t \in Threads : \A i \in 1..Depth(t) :
                  catchStack[t][i].act = <<t, i - 1>> /\ catchStack[t][i].fp = <<t, i - 1>>

(* What OwnContext rests on while a thread is on the exception path: its   *)
(* context is in exceptionInfo and its register file, group by group, as   *)
(* far as its phase has moved it.                                          *)
ParkedContext ==
  ~overtaken => \A t \in Threads :
    /\ phase[t] \in Undecided =>
         /\ exceptionInfo.low = fault[t].regs.low
         /\ exceptionInfo.low.act = <<t, Depth(t)>>
         /\ exceptionInfo.low.pc \in {"code", "abort"}
    /\ phase[t] = "two" =>
         /\ regs[t].fp = <<t, Depth(t)>>
         /\ regs[t].fp = fault[t].regs.fp
         /\ regs[t].callee = fault[t].regs.callee
    /\ phase[t] = "three" =>
         /\ exceptionInfo.fp = <<t, Depth(t)>>
         /\ exceptionInfo.fp = fault[t].regs.fp
    /\ phase[t] \in {"three"} \cup Decided =>
         exceptionInfo.callee = fault[t].regs.callee
    /\ phase[t] \in Decided /\ exceptionInfo.low.pc = "pop" =>
         /\ Depth(t) > 0
         /\ exceptionInfo.low.act = <<t, Depth(t) - 1>>
         /\ exceptionInfo.fp = <<t, Depth(t) - 1>>
    /\ phase[t] \in Decided /\ exceptionInfo.low.pc # "pop" =>
         /\ exceptionInfo.low.act = <<t, Depth(t)>>
         /\ exceptionInfo.low.act = fault[t].regs.low.act
         /\ exceptionInfo.fp = <<t, Depth(t)>>
         /\ exceptionInfo.fp = fault[t].regs.fp
         /\ fault[t].verdict = "Continue" => exceptionInfo.low.pc = "code"
    /\ phase[t] = "trap" =>
         /\ regs[t].fp = exceptionInfo.fp
         /\ regs[t].callee = exceptionInfo.callee

(* The inductive invariant.                                                *)
PathInv ==
  /\ HandlerStackExclusive
  /\ StateTracksOwner
  /\ OwnContext
  /\ CatchChain
  /\ ParkedContext

(* All of it, with the types: what lies in the globals of the exception    *)
(* path, in the parentFrame chains and in the register files is, group by  *)
(* group, what the phases of ExceptionHandler.cpp and .s put there for the *)
(* thread that faulted.                                                    *)
PathSound == TypeOK /\ PathInv

(* A fault that no tryCatch of the thread covers and that the handler      *)
(* survives is transparent: every register group has the value it had at   *)
(* the fault, and the faulting instruction, AbortImpl's included, is       *)
(* stepped over.                                                           *)
SkipIsTransparent ==
  [][\A t \in Threads :
       (/\ ~overtaken /\ phase[t] = "trap" /\ phase'[t] = "run"
        /\ exit' = "no" /\ regs'[t].low.pc # "pop")
       => regs'[t] = [fault[t].regs EXCEPT !.low.pc = "code"]]_vars

(* The process is given up on a return trap exactly when the catchFunc of  *)
(* the trapping thread itself refused the fault.                           *)
VerdictHonoured ==
  [][\A t \in Threads :
       (~overtaken /\ phase[t] = "trap" /\ phase'[t] = "run")
       => (exit' = "verdict" <=> fault[t].verdict = "Exit")]_vars

(* A fault is answered: the thread runs its own code again, out of popCatch*)
(* too, or the process is gone.                                            *)
FaultAnswered ==
  \A t \in Threads : phase[t] = "two" ~> (RunsCode(t) \/ exit # "no" \/ overtaken)

(* The three statements below are made by the code's comments and          *)
(* declarations and do not hold.                                           *)

(* "caught exceptions will do this bit on their own": the reload of        *)
(* x19-x28 from the frame (ExceptionHandler.s).                            *)
CaughtReloadsCallee ==
  \A t \in Threads :
    ~overtaken /\ exit = "no" /\ phase[t] = "run" /\ regs[t].low.pc = "pop"
      => regs[t].callee = Top(t).callee

(* "Caused by phase four, we should just jump to the restore and return":  *)
(* what a trap restores is what its own thread parked.                     *)
TrapRestoresOwnThread ==
  \A t \in Threads : exit = "no" /\ phase[t] = "run" => regs[t].low.act[1] = t

(* exl_abort is declared NORETURN: code after an abort never runs.         *)
AbortDoesNotReturn ==
  [][\A t \in Threads :
       (phase[t] = "trap" /\ phase'[t] = "run" /\ fault[t].regs.low.pc = "abort")
       => (exit' # "no" \/ regs'[t].low.pc # "code")]_vars

=============================================================================
