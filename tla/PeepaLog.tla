------------------------------ MODULE PeepaLog ------------------------------
(***************************************************************************)
(* The log, program/pe/Util/Log.cpp, and the window that shows it,         *)
(* pe/DbgGui/Windows/Log.cpp.                                              *)
(*                                                                         *)
(* A line is taken from the log's heap, makes older lines give way until   *)
(* the heap has room for the next one, joins the list and is then written. *)
(* Any thread may log; the thread that draws walks the list.  There is no  *)
(* lock: an operation of the heap or of the list is one step here, what    *)
(* lies between two of them is open to every thread.                       *)
(*                                                                         *)
(* The heap may refuse a line.  addLog does not look: a thread that faults *)
(* on the null pointer and is let go on behind the store (DbgGui) lists it *)
(* and writes through it.                                                  *)
(* Faulty variants next to definitions are for TLC only.                   *)
(***************************************************************************)
EXTENDS Integers, Sequences, FiniteSets

CONSTANTS
  Loggers,   \* threads that log
  LogSize,   \* what the heap has once the list has its buffer
  LineMax,   \* sMaxLines
  Margin,    \* the 256 of addLog
  Lengths,   \* lengths of lines
  Cost,      \* what a line takes from the heap: type, text, zero, and the heap's own
  Logs       \* bound on the lines asked for

Terminators == 2  \* the type before the text and the zero behind it

ASSUME LogAssumption ==
  /\ LogSize \in Nat /\ LineMax \in Nat \ {0} /\ Margin \in Nat /\ Logs \in Nat
  /\ Lengths \subseteq Nat /\ LogSize >= Margin
  /\ Cost \in [Lengths -> Nat] /\ \A len \in Lengths : Cost[len] >= len + Terminators

VARIABLES
  ready,     \* initializeLog has run
  free,      \* getFreeSize of sLogHeap
  slots,     \* the words of sLogLines' buffer, what was shifted out of the list included
  size,      \* its size
  line,      \* every line that was ever asked for, [len, state]; "null" is one that was refused
  logging,   \* where each thread is in a log function
  failed,    \* history: lines for which bytes were lacking: their length, what others held then
  scroll,    \* shouldLogWindowScrollDown
  walk,      \* the drawing thread's walk over the list
  disturbed  \* a log function has been running since the walk began

logVars == <<ready, free, slots, size, line, logging, failed, scroll, walk, disturbed>>

Quiet == [pc |-> "out", id |-> 0, len |-> 0]
AtRest == [pc |-> "out", at |-> 0, end |-> 0, holds |-> 0, bad |-> FALSE]

LogInit ==
  /\ ready = FALSE /\ free = LogSize /\ slots = <<>> /\ size = 0 /\ line = <<>>
  /\ logging = [t \in Loggers |-> Quiet] /\ failed = {} /\ scroll = FALSE
  /\ walk = AtRest /\ disturbed = FALSE

Weight(id)  == IF line[id].state \in {"taken", "written"} THEN Cost[line[id].len] ELSE 0
Listed      == {slots[i] : i \in 1..size}
Evicting    == {"test", "pop"}
InFlight    == {logging[t].id : t \in {u \in Loggers : logging[u].pc \in Evicting}}
BytesOf(ids) == UNION {{id} \X (1..Weight(id)) : id \in ids}
SizeOf(ids) == Cardinality(BytesOf(ids))

InitializeLog ==
  /\ ~ready /\ ready' = TRUE
  /\ UNCHANGED <<free, slots, size, line, logging, failed, scroll, walk, disturbed>>

-----------------------------------------------------------------------------
(* log, warn, err and addLog.                                              *)

Asks(t, len, state, pc) ==
  /\ line' = Append(line, [len |-> len, state |-> state])
  /\ logging' = [logging EXCEPT ![t] = [pc |-> pc, id |-> Len(line) + 1, len |-> len]]

(* Where bytes are enough, they may still lie apart.                       *)
StartLog(t, len) ==
  /\ ready /\ logging[t] = Quiet /\ Len(line) < Logs
  /\ disturbed' = TRUE
  /\ \/ /\ Cost[len] <= free /\ free' = free - Cost[len]
        /\ Asks(t, len, "taken", "test") /\ UNCHANGED failed
     \/ /\ Asks(t, len, "null", "fault") /\ UNCHANGED free
        /\ failed' = IF Cost[len] <= free THEN failed
                     ELSE failed \cup {[len |-> len, held |-> SizeOf(InFlight)]}
  /\ UNCHANGED <<ready, slots, size, scroll, walk>>

NeedsRoomForLines(len) == size >= LineMax
NeedsRoom(len) == size >= LineMax \/ free < len + Margin

TestRoom(t) ==
  /\ logging[t].pc = "test"
  /\ logging' = [logging EXCEPT ![t].pc = IF NeedsRoom(logging[t].len) THEN "pop" ELSE "push"]
  /\ UNCHANGED <<ready, free, slots, size, line, failed, scroll, walk, disturbed>>

(* popFront moves the words behind it and leaves the last where it was.    *)
Shifted == [i \in DOMAIN slots |-> IF i < size THEN slots[i+1] ELSE slots[i]]

(* popFront of no line gives null; free takes it, as it takes a line that  *)
(* was refused, and gives nothing back.                                    *)
PopFront(t) ==
  /\ logging[t].pc = "pop"
  /\ IF size = 0 THEN UNCHANGED <<free, line, slots, size>>
     ELSE /\ free' = free + Weight(slots[1])
          /\ line' = [line EXCEPT ![slots[1]].state = IF @ = "null" THEN @ ELSE "freed"]
          /\ slots' = Shifted /\ size' = size - 1
  /\ logging' = [logging EXCEPT ![t].pc = "test"] /\ disturbed' = TRUE
  /\ UNCHANGED <<ready, failed, scroll, walk>>

PushBack(t) ==
  /\ logging[t].pc = "push"
  /\ IF size < LineMax
     THEN /\ slots' = IF size < Len(slots) THEN [slots EXCEPT ![size+1] = logging[t].id]
                      ELSE Append(slots, logging[t].id)
          /\ size' = size + 1
     ELSE UNCHANGED <<slots, size>>
  /\ logging' = [logging EXCEPT ![t].pc = "write"] /\ disturbed' = TRUE
  /\ UNCHANGED <<ready, free, line, failed, scroll, walk>>

(* A thread is at a store through the null pointer: of the type, or of the *)
(* text, of which all stores are one here.                                 *)
IsNull(id) == line[id].state = "null"
Faults(t) == logging[t].pc = "fault" \/ (logging[t].pc = "write" /\ IsNull(logging[t].id))

SkipStore(t) ==
  /\ Faults(t)
  /\ logging' = [logging EXCEPT ![t].pc = IF @ = "fault" THEN "test" ELSE "skipped"]
  /\ UNCHANGED <<ready, free, slots, size, line, failed, scroll, walk, disturbed>>

WriteLine(t) ==
  /\ logging[t].pc \in {"write", "skipped"} /\ ~Faults(t)
  /\ line' = [line EXCEPT ![logging[t].id].state = IF @ = "taken" THEN "written" ELSE @]
  /\ logging' = [logging EXCEPT ![t] = Quiet]
  /\ scroll' = TRUE /\ disturbed' = TRUE
  /\ UNCHANGED <<ready, free, slots, size, failed, walk>>

LogStep(t) == TestRoom(t) \/ PopFront(t) \/ PushBack(t) \/ WriteLine(t)

-----------------------------------------------------------------------------
(* Log::draw: the ends of the walk are fixed when it begins.               *)

BeginWalk ==
  /\ walk.pc = "out" /\ ready
  /\ walk' = [pc |-> "take", at |-> 1, end |-> size, holds |-> 0, bad |-> FALSE]
  /\ scroll' = FALSE
  /\ disturbed' = (\E t \in Loggers : logging[t] # Quiet)
  /\ UNCHANGED <<ready, free, slots, size, line, logging, failed>>

TakeLine ==
  /\ walk.pc = "take"
  /\ walk' = IF walk.at <= walk.end THEN [walk EXCEPT !.pc = "show", !.holds = slots[walk.at]]
             ELSE AtRest
  /\ UNCHANGED <<ready, free, slots, size, line, logging, failed, scroll, disturbed>>

(* Reading a line that was refused is a fault; what follows it is shown    *)
(* once the thread is let go on.                                           *)
ReadsNull == walk.pc = "show" /\ IsNull(walk.holds)

ShowLine ==
  /\ walk.pc = "show"
  /\ walk' = [walk EXCEPT !.pc = "take", !.at = @ + 1,
                          !.bad = @ \/ line[walk.holds].state \notin {"written", "null"}]
  /\ UNCHANGED <<ready, free, slots, size, line, logging, failed, scroll, disturbed>>

WalkStep == TakeLine \/ (ShowLine /\ ~ReadsNull)

-----------------------------------------------------------------------------
(* The heap and the list agree, while lines are refused and their null     *)
(* pointers are listed, popped and freed like any other: every byte that   *)
(* is not free belongs to one line, none is listed twice or after it was   *)
(* freed, and what is listed is a line or the null that a refusal left.    *)
(* And a line short enough is not refused for lack of bytes, whatever the  *)
(* lengths before it were, but for what other threads have taken and not   *)
(* yet made up for.                                                        *)
LogKept ==
  /\ size <= LineMax /\ size <= Len(slots) /\ walk.end <= Len(slots)
  /\ free = LogSize - SizeOf(DOMAIN line)
  /\ Cardinality(Listed) = size /\ \A id \in Listed : line[id].state # "freed"
  /\ \A f \in failed : Cost[f.len] + f.held > Margin

(* A walk that no log function runs beside shows lines that exist, whole,  *)
(* but where a line was refused: there it faults on the null in the list.  *)
WalkSound == walk.bad => disturbed
=============================================================================
