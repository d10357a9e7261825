----------------------------- MODULE HookEngine -----------------------------
(***************************************************************************)
(* The hook engine, lib/hook: hooks written into functions of the game     *)
(* while its threads call them.                                            *)
(*                                                                         *)
(* Hook takes a row of the trampoline pool, moves the first instructions   *)
(* of the function there, and writes a branch to the callback over them: a *)
(* single word when the callback is within a branch's reach, else four or  *)
(* five words one after the other.  Threads fetch the words of a function  *)
(* one by one, and until the cache is flushed they may still fetch what    *)
(* was there before.  A callback calls the original through OrigRef, which *)
(* is assigned after Hook returned.  HookInline hooks a function with an   *)
(* entry of its own pool, whose words it writes after the hook.            *)
(*                                                                         *)
(* One thread installs at a time: exl_main before the game runs, later the *)
(* constructor of ActorBrowser.  What moving does to an instruction is     *)
(* HookReloc's subject; here an instruction of the function stays what it  *)
(* is, and the words of an earlier hook are moved as any others.           *)
(*                                                                         *)
(* Next to some definitions stands a faulty variant that no action uses:   *)
(* TLC is given it in place of the definition, to see that a property      *)
(* fails then.                                                             *)
(***************************************************************************)
EXTENDS Integers, Sequences

CONSTANTS
  Callers,    \* threads of the game
  Functions,  \* functions of the game
  Far,        \* those whose callbacks are out of a branch's reach
  Odd,        \* those whose third word is not 8-aligned
  Jobs,       \* the hooks to install, [fn, kind], in order
  BootJobs,   \* how many of them exl_main installs, before the game runs
  HookMax,    \* rows of the trampoline pool
  EntryMax,   \* InlinePoolCount
  BodyWords,  \* words of a function; what follows the last is its return
  MaxTrace    \* bound on the history of a call that does not end

Kinds == {"trampoline", "replace", "inline"}

ASSUME JobsAssumption == Jobs \in Seq([fn: Functions, kind: Kinds])
ASSUME SizesAssumption ==
  /\ HookMax \in Nat /\ EntryMax \in Nat /\ MaxTrace \in Nat /\ BootJobs \in Nat
  /\ BodyWords \in Nat /\ BodyWords > 5
  /\ MaxTrace >= Len(Jobs) + BodyWords

VARIABLES
  job,         \* the hook being installed
  step,        \* where its installation is
  todo,        \* the stores into the function still to be made
  row,         \* the row of its trampoline, -1 for none
  index,       \* AllocForTrampoline's index, plus one
  entryIndex,  \* s_EntryIndex
  aborted,     \* EXL_ABORT was called
  text,        \* per function, its words
  seen,        \* per function, the words an instruction cache may still hold
  rows,        \* the trampoline pool and what lies behind it
  entries,     \* the inline pool
  orig,        \* per hook, the row in its OrigRef
  at,          \* per thread, the word it executes next
  x17,         \* per thread, register X17
  callee,      \* per thread, the function it called
  since,       \* history: the hooks that were complete when it called
  trace        \* history: the callbacks and instructions the call has run

install == <<job, step, todo, row, index, entryIndex, aborted>>
memory  == <<text, seen, rows, entries, orig>>
threads == <<at, x17, callee, since, trace>>
engine  == <<install, memory, threads>>

(* Places a thread can be.                                                 *)
Idle        == <<"idle", 0, 0>>
End         == <<"end", 0, 0>>
Junk        == <<"fault", "stray", 0>>
Undefined   == <<"fault", "undefined", 0>>
NullCall    == <<"fault", "null", 0>>
Word(f, i)  == <<"fn", f, i>>
Moved(r, i) == <<"row", r, i>>
CallbackOf(j) == <<"callback", j, 0>>
Entry(e)    == <<"entry", e, 0>>
Impl(e)     == <<"impl", e, 0>>

Body == [i \in 0..BodyWords-1 |-> <<"insn", i>>]

EngineInit ==
  /\ job = 1 /\ step = "take" /\ todo = <<>> /\ row = -1
  /\ index = 0 /\ entryIndex = 0 /\ aborted = FALSE
  /\ text = [f \in Functions |-> Body]
  /\ seen = text
  /\ rows = [r \in 0..HookMax |-> <<>>]
  /\ entries = [e \in 0..EntryMax-1 |-> [written |-> FALSE, callback |-> 0, back |-> Undefined]]
  /\ orig = [j \in DOMAIN Jobs |-> -1]
  /\ at = [t \in Callers |-> Idle]
  /\ x17 = [t \in Callers |-> Junk]
  /\ callee \in [Callers -> Functions]
  /\ since = [t \in Callers |-> 0]
  /\ trace = [t \in Callers |-> <<>>]

-----------------------------------------------------------------------------
(* Hook, for the job at hand.                                              *)

Fn   == Jobs[job].fn
Kind == Jobs[job].kind

(* HookInline's entry is the one it took.                                  *)
TakenFirst == 0
Taken == entryIndex - 1
Dest == IF Kind = "inline" THEN Entry(Taken) ELSE CallbackOf(job)

Installing(s) == ~aborted /\ job <= Len(Jobs) /\ step = s

GiveUpHook ==
  /\ aborted' = TRUE
  /\ UNCHANGED <<job, step, todo, row, index, entryIndex, memory, threads>>

(* HookInline takes an entry; a replacing hook needs no trampoline.        *)
PoolFullLate == entryIndex > EntryMax
PoolFull     == entryIndex >= EntryMax

Take ==
  /\ Installing("take")
  /\ IF Kind = "inline" /\ PoolFull
     THEN GiveUpHook
     ELSE /\ entryIndex' = IF Kind = "inline" THEN entryIndex + 1 ELSE entryIndex
          /\ step' = IF Kind = "replace" THEN "cover" ELSE "alloc"
          /\ row' = -1
          /\ UNCHANGED <<job, todo, index, aborted, memory, threads>>

(* AllocForTrampoline counts first; row HookMax passes its test.           *)
RowsOut(i) == i > HookMax

Alloc ==
  /\ Installing("alloc")
  /\ IF RowsOut(index)
     THEN GiveUpHook
     ELSE /\ row' = index
          /\ index' = index + 1
          /\ step' = "move"
          /\ UNCHANGED <<job, todo, entryIndex, aborted, memory, threads>>

(* How many words are moved and covered.                                   *)
Covered(f) == IF f \notin Far THEN 1 ELSE IF f \in Odd THEN 5 ELSE 4

(* The 8-byte literal at word i of a function, if there is a whole one.    *)
Literal(f, i) ==
  IF i + 1 < BodyWords /\ text[f][i][1] = "low" /\ text[f][i+1] = <<"high", text[f][i][2]>>
  THEN text[f][i][2] ELSE Junk

(* __fix_instructions on the words an earlier hook may have left.          *)
Relocated(f, i) ==
  CASE text[f][i][1] = "b"   -> <<"jump", text[f][i][2]>>
    [] text[f][i][1] = "ldr" -> <<"load", Literal(f, i + 2)>>
    [] OTHER                 -> text[f][i]

ResumeAtStart(f) == <<"jump", Word(f, 0)>>
Resume(f) == <<"jump", Word(f, Covered(f))>>

Trampoline(f) ==
  [i \in 0..Covered(f) |-> IF i < Covered(f) THEN Relocated(f, i) ELSE Resume(f)]

MoveWords ==
  /\ Installing("move")
  /\ rows' = [rows EXCEPT ![row] = Trampoline(Fn)]
  /\ step' = "cover"
  /\ UNCHANGED <<job, todo, row, index, entryIndex, aborted, text, seen, entries, orig, threads>>

(* The stores of HookFuncImpl, in its order; the literal is one store.     *)
FarHook(f, d) ==
  LET o == Covered(f) - 4
  IN  (IF o = 1 THEN << [i \in {0} |-> <<"nop", 0>>] >> ELSE <<>>)
      \o << [i \in {o} |-> <<"ldr", 0>>], [i \in {o + 1} |-> <<"br", 0>>],
            [i \in {o + 2, o + 3} |-> IF i = o + 2 THEN <<"low", d>> ELSE <<"high", d>>] >>
NearHook(d) == << [i \in {0} |-> <<"b", d>>] >>
Stores(f, d) == IF f \in Far THEN FarHook(f, d) ELSE NearHook(d)

Cover ==
  /\ Installing("cover")
  /\ todo' = Stores(Fn, Dest)
  /\ step' = "store"
  /\ UNCHANGED <<job, row, index, entryIndex, aborted, memory, threads>>

Store ==
  /\ Installing("store")
  /\ todo # <<>>
  /\ text' = [text EXCEPT ![Fn] = [i \in 0..BodyWords-1 |->
                IF i \in DOMAIN Head(todo) THEN Head(todo)[i] ELSE @[i]]]
  /\ todo' = Tail(todo)
  /\ UNCHANGED <<job, step, row, index, entryIndex, aborted, seen, rows, entries, orig, threads>>

NotFlushed == seen
Flushed == [seen EXCEPT ![Fn] = text[Fn]]

Flush ==
  /\ Installing("store")
  /\ todo = <<>>
  /\ seen' = Flushed
  /\ step' = IF Kind = "inline" THEN "entry" ELSE "assign"
  /\ UNCHANGED <<job, todo, row, index, entryIndex, aborted, text, rows, entries, orig, threads>>

(* OrigRef() = Hook(...), for a hook with a trampoline.                    *)
OrigForgotten == orig
OrigAssigned == IF Kind = "trampoline" THEN [orig EXCEPT ![job] = row] ELSE orig

Assign ==
  /\ Installing("assign")
  /\ orig' = OrigAssigned
  /\ job' = job + 1
  /\ step' = "take"
  /\ UNCHANGED <<todo, row, index, entryIndex, aborted, text, seen, rows, entries, threads>>

(* The last word of an entry is at entryCb + 12 and branches by trampoline *)
(* - (entryCb + 8): one word behind the start of the trampoline.           *)
EntryBranch(r) == IF rows[r][0][1] \in {"insn", "nop", "br"} THEN Moved(r, 1) ELSE Junk

(* m_CbEntry is written and then m_Callback, when the hook is live already.*)
WriteEntry ==
  /\ Installing("entry")
  /\ entries' = [entries EXCEPT ![Taken] =
                   [@ EXCEPT !.written = TRUE, !.back = EntryBranch(row)]]
  /\ step' = "callback"
  /\ UNCHANGED <<job, todo, row, index, entryIndex, aborted, text, seen, rows, orig, threads>>

WriteCallback ==
  /\ Installing("callback")
  /\ entries' = [entries EXCEPT ![Taken].callback = job]
  /\ job' = job + 1
  /\ step' = "take"
  /\ UNCHANGED <<todo, row, index, entryIndex, aborted, text, seen, rows, orig, threads>>

Install ==
  \/ Take \/ Alloc \/ MoveWords \/ Cover \/ Store \/ Flush
  \/ Assign \/ WriteEntry \/ WriteCallback

-----------------------------------------------------------------------------
(* Threads of the game.                                                    *)

Recorded(t, what) ==
  trace' = [trace EXCEPT ![t] = IF Len(@) < MaxTrace THEN Append(@, what) ELSE @]

GoTo(t, p) == at' = [at EXCEPT ![t] = p]

(* The game runs when exl_main has returned.                               *)
Running == ~aborted /\ job > BootJobs

Call(t, f) ==
  /\ Running
  /\ at[t] = Idle
  /\ GoTo(t, Word(f, 0))
  /\ callee' = [callee EXCEPT ![t] = f]
  /\ since' = [since EXCEPT ![t] = job - 1]
  /\ trace' = [trace EXCEPT ![t] = <<>>]
  /\ UNCHANGED <<x17, install, memory>>

EndCall(t) ==
  /\ Running
  /\ at[t] = End
  /\ GoTo(t, Idle)
  /\ UNCHANGED <<x17, callee, since, trace, install, memory>>

(* The place behind p: a function ends behind its last word.               *)
NextPlace(p) == IF p[1] = "fn" /\ p[3] = BodyWords - 1 THEN End ELSE <<p[1], p[2], p[3] + 1>>

(* What the instruction w at p does.                                       *)
Execute(t, p, w) ==
  /\ IF w[1] = "insn" THEN Recorded(t, w) ELSE trace' = trace
  /\ x17' = [x17 EXCEPT ![t] =
       CASE w[1] = "ldr"                           -> Literal(p[2], p[3] + 2)
         [] w[1] = "load"                          -> w[2]
         [] w[1] = "jump" /\ callee[t] \in Far     -> w[2]
         [] OTHER                                  -> @]
  /\ GoTo(t, CASE w[1] \in {"b", "jump"}      -> w[2]
               [] w[1] = "br"                 -> x17[t]
               [] w[1] \in {"low", "high"}    -> Undefined
               [] OTHER                       -> NextPlace(p))
  /\ UNCHANGED <<callee, since, install, memory>>

(* Until the flush a fetch may return the word that was there before.      *)
Fetch(t) ==
  /\ Running
  /\ LET p == at[t]
     IN  \/ p[1] = "fn" /\ \E w \in {text[p[2]][p[3]], seen[p[2]][p[3]]} : Execute(t, p, w)
         \/ p[1] = "row" /\ Execute(t, p, rows[p[2]][p[3]])

(* A hook's Callback: with a trampoline it calls Orig, else it replaces.   *)
RunCallback(t) ==
  /\ Running
  /\ at[t][1] = "callback"
  /\ LET j == at[t][2]
     IN  /\ Recorded(t, at[t])
         /\ GoTo(t, IF Jobs[j].kind = "replace" THEN End
                    ELSE IF orig[j] = -1 THEN NullCall ELSE Moved(orig[j], 0))
  /\ UNCHANGED <<x17, callee, since, install, memory>>

(* The first words of an entry, as they are when it is reached.            *)
RunEntry(t) ==
  /\ Running
  /\ at[t][1] = "entry"
  /\ GoTo(t, IF entries[at[t][2]].written THEN Impl(at[t][2]) ELSE Undefined)
  /\ UNCHANGED <<x17, callee, since, trace, install, memory>>

(* exl_inline_hook_impl calls the entry's callback and returns to it.      *)
RunImpl(t) ==
  /\ Running
  /\ at[t][1] = "impl"
  /\ LET e == entries[at[t][2]]
     IN  IF e.callback = 0
         THEN GoTo(t, NullCall) /\ trace' = trace
         ELSE GoTo(t, e.back) /\ Recorded(t, CallbackOf(e.callback))
  /\ UNCHANGED <<x17, callee, since, install, memory>>

(* A thread that faulted is the exception path's; an aborted process is    *)
(* gone.                                                                   *)
Stopped ==
  /\ aborted \/ \E t \in Callers : at[t][1] = "fault"
  /\ UNCHANGED engine

ThreadStep(t) == Fetch(t) \/ RunCallback(t) \/ RunEntry(t) \/ RunImpl(t) \/ EndCall(t)

EngineNext ==
  \/ Install \/ Stopped
  \/ \E t \in Callers : ThreadStep(t) \/ \E f \in Functions : Call(t, f)

EngineSpec == EngineInit /\ [][EngineNext]_engine

(* A call waits for nothing, and not for an installation to end.           *)
EngineFairSpec == EngineSpec /\ \A t \in Callers : WF_engine(ThreadStep(t))

-----------------------------------------------------------------------------
(* Properties.                                                             *)

Destinations == {CallbackOf(j) : j \in DOMAIN Jobs} \cup {Entry(e) : e \in 0..EntryMax-1}
Starts == {Word(f, i) : f \in Functions, i \in 0..BodyWords-1}
RowPlaces == {Moved(r, i) : r \in 0..HookMax, i \in 0..5}
Faults == {Junk, Undefined, NullCall}
Places ==
  {Idle, End} \cup Faults \cup Destinations \cup Starts \cup RowPlaces
  \cup {Impl(e) : e \in 0..EntryMax-1}
CodeWords ==
  {<<"insn", i>> : i \in 0..BodyWords-1} \cup {<<"nop", 0>>, <<"ldr", 0>>, <<"br", 0>>}
  \cup ({"b", "low", "high"} \X Destinations)
RowWords == CodeWords \cup {<<"load", d>> : d \in Destinations \cup {Junk}}
            \cup {<<"jump", p>> : p \in Destinations \cup Starts}
Steps == {"take", "alloc", "move", "cover", "store", "assign", "entry", "callback"}

EngineTypeOK ==
  /\ job \in 1..Len(Jobs)+1 /\ step \in Steps
  /\ index \in 0..HookMax+1 /\ row \in -1..HookMax /\ entryIndex \in 0..EntryMax
  /\ aborted \in BOOLEAN
  /\ text \in [Functions -> [0..BodyWords-1 -> CodeWords]]
  /\ seen \in [Functions -> [0..BodyWords-1 -> CodeWords]]
  /\ \A r \in 0..HookMax : rows[r] # <<>> =>
       \E n \in 1..5 : rows[r] \in [0..n -> RowWords]
  /\ orig \in [DOMAIN Jobs -> -1..HookMax]
  /\ at \in [Callers -> Places]
  /\ x17 \in [Callers -> Destinations \cup Starts \cup Faults]
  /\ callee \in [Callers -> Functions]
  /\ since \in [Callers -> 0..Len(Jobs)]

(* The hooks of f among the first n; a call of f runs the callbacks of     *)
(* those that no later one replaces.                                       *)
HooksOf(f, n)  == {j \in 1..n : Jobs[j].fn = f}
Replaced(f, n) == \E j \in HooksOf(f, n) : Jobs[j].kind = "replace"
Calls(f, n) ==
  {CallbackOf(j) : j \in {j \in HooksOf(f, n) :
     ~\E k \in HooksOf(f, n) : k > j /\ Jobs[k].kind = "replace"}}

(* What a call of f runs with the first n hooks in place, and its order:   *)
(* the latest hook first, then the function.                               *)
Expected(f, n) ==
  Calls(f, n) \cup (IF Replaced(f, n) THEN {} ELSE {<<"insn", i>> : i \in 0..BodyWords-1})
Before(a, b) ==
  \/ a[1] = "callback" /\ b[1] = "insn"
  \/ a[1] = "callback" /\ b[1] = "callback" /\ a[2] > b[2]
  \/ a[1] = "insn" /\ b[1] = "insn" /\ a[2] < b[2]
InOrder(s) == \A i, k \in DOMAIN s : i < k => Before(s[i], s[k])
Events(s)  == {s[i] : i \in DOMAIN s}

(* The hooks that may be in place when a call of t looks: those that were  *)
(* complete when it began and some of those begun since.                   *)
Views(t) == since[t]..IF step \in {"store", "assign", "entry", "callback"} THEN job ELSE job - 1

(* A call that has ended has run the callbacks of a consistent set of      *)
(* hooks, each once, the latest first, and then every instruction of the   *)
(* function, moved ones included, once and in order.                       *)
Whole(t) ==
  InOrder(trace[t]) /\ \E n \in Views(t) : Events(trace[t]) = Expected(callee[t], n)
HasInline(f) == \E j \in DOMAIN Jobs : Jobs[j].fn = f /\ Jobs[j].kind = "inline"

(* Whenever a function is called, before, while or after it is hooked, the *)
(* call is whole.  A hook that was complete when the call began is one of  *)
(* those it saw, whatever the instruction cache held.                      *)
CallsWhole == \A t \in Callers : at[t] = End /\ ~HasInline(callee[t]) => Whole(t)

(* The same of inline hooks: "Branch to trampoline." (inline_impl.cpp)     *)
(* after the callback.                                                     *)
InlineCallsWhole == \A t \in Callers : at[t] = End /\ HasInline(callee[t]) => Whole(t)

(* The callbacks a call runs, of hooks of every kind: those of a           *)
(* consistent set of hooks, each once, the latest first.                   *)
CallbacksRun(t) == {e \in Events(trace[t]) : e[1] = "callback"}
HooksRun ==
  \A t \in Callers : at[t] = End =>
    InOrder(trace[t]) /\ \E n \in Views(t) : CallbacksRun(t) = Calls(callee[t], n)

(* What the code leaves to its callers.  Hooks out of a branch's reach are *)
(* installed before the game runs; an inline hook is the first of its      *)
(* function, since its entry branches to the second word of the trampoline.*)
FarAtBoot   == \A j \in DOMAIN Jobs : Jobs[j].fn \in Far => j <= BootJobs
InlineFirst == \A j \in DOMAIN Jobs : Jobs[j].kind = "inline" => HooksOf(Jobs[j].fn, j - 1) = {}

(* No call reaches a word that is no instruction or an address nobody      *)
(* wrote.  The exception is a call that runs while its function is being   *)
(* hooked: the hook is live before OrigRef is assigned and before the      *)
(* entry of an inline hook is written.                                     *)
FaultsOnlyWhileInstalling ==
  \A t \in Callers : at[t][1] = "fault" =>
    /\ at[t] # Junk
    /\ \E j \in DOMAIN Jobs : j > since[t] /\ Jobs[j].fn = callee[t] /\ Jobs[j].kind # "replace"

(* Calls meet no fault but that of a hook still being installed, from      *)
(* pools whose indices stay in their range.                                *)
HookSound == EngineTypeOK /\ FaultsOnlyWhileInstalling

(* A call that was begun ends, wherever installations stand still: chains  *)
(* of hooks and ways back lead to the end of the function.                 *)
CallsEnd ==
  \A t \in Callers : at[t] # Idle ~> (at[t] = Idle \/ at[t][1] = "fault" \/ aborted)

(* typedef HookPool[HookMax][TrampolineSize] and its static_assert: the    *)
(* rows that are handed out lie in the pool.                               *)
RowsInPool == row < HookMax

=============================================================================
