------------------------------ MODULE FsHelper ------------------------------
(***************************************************************************)
(* Files: the helpers of helpers/fsHelper.cpp, and the hook on the game's  *)
(* OpenFile that prefers a copy on the card, pe/Hacks/FSHacks.cpp.         *)
(*                                                                         *)
(* A file is the version of its contents.  The system's file functions may *)
(* fail, each at any time, the mount of the card among them; an operation  *)
(* of the program is a sequence of them, one step each.  OpenFile is       *)
(* hooked, so that each of its callers tries to mount the card once more.  *)
(* Faulty variants next to definitions are for TLC only.                   *)
(***************************************************************************)
EXTENDS Integers

CONSTANTS
  Paths,    \* paths on the card
  Uses      \* bound on the operations

VARIABLES
  mounted,   \* whether the card has been mounted
  once,      \* sdCardMounted of the hook
  card,      \* the files on the card, path -> version
  handles,   \* the handles that are open, each the number of its operation
  op,        \* the operation going on
  uses,      \* how many there were
  result,    \* what the last one came to
  before,    \* the card when it began
  torn       \* operations that ended at a write that failed

fsVars == <<mounted, once, card, handles, op, uses, result, before, torn>>

Absent == -1  \* no such file

NoOp == [pc |-> "out", path |-> "none", step |-> "none", wrong |-> {}]
Nothing == [what |-> "none", path |-> "none", version |-> 0, wrong |-> {}]

FsInit ==
  /\ mounted = FALSE /\ once = FALSE
  /\ card \in [Paths -> {Absent, 1}]
  /\ handles = {} /\ op = NoOp /\ uses = 0 /\ result = Nothing /\ before = card /\ torn = {}

Present(p) == mounted /\ card[p] # Absent

(* What went wrong in an operation: a call of the system failed, or a type *)
(* that was never set was read as that of a file.                          *)
Wrongs == {"call", "junk"}
Also(what) == op.wrong \cup what

(* isFileExist: GetEntryType leaves type unset where there is nothing, and *)
(* where it fails.                                                         *)
Looks(p, seen, isFile) == seen => Present(p) /\ isFile
WrongOf(p, seen, isFile) ==
  {w \in Wrongs : ~seen /\ IF w = "call" THEN Present(p) ELSE isFile}

MountSdCard ==
  /\ ~mounted /\ op = NoOp /\ mounted' \in BOOLEAN
  /\ UNCHANGED <<once, card, handles, op, uses, result, before, torn>>

(* sdCardMounted is set whether the mount succeeds or not.                 *)
MountOnce ==
  /\ mounted' \in IF once THEN {mounted} ELSE {mounted, TRUE}
  /\ once' = TRUE

Begin(what, p) ==
  /\ op = NoOp /\ uses < Uses /\ result.what # "aborted"
  /\ uses' = uses + 1 /\ before' = card /\ result' = Nothing
  /\ op' = [pc |-> what, path |-> p, step |-> "first", wrong |-> {}]

Goes(what, step) == op.pc = what /\ op.step = step
Then(step, wrong) == op' = [op EXCEPT !.step = step, !.wrong = Also(wrong)] /\ UNCHANGED result
Ends(what, version, wrong) ==
  op' = NoOp /\ result' = [what |-> what, path |-> op.path, version |-> version, wrong |-> Also(wrong)]
Fails(what) == Ends(what, Absent, {"call"})

-----------------------------------------------------------------------------
(* OpenFile::Callback for a path of the game's content: of Orig it is      *)
(* asked for the copy, or for the game's own file.                         *)

Redirect(p) ==
  /\ Begin("redirect", p) /\ MountOnce
  /\ UNCHANGED <<card, handles, torn>>

OpenRedirected(seen, isFile) ==
  /\ Goes("redirect", "first") /\ Looks(op.path, seen, isFile)
  /\ LET wrong == WrongOf(op.path, seen, isFile) IN
       \/ isFile /\ Present(op.path) /\ Ends("copy", card[op.path], wrong)
       \/ ~isFile /\ Ends("original", Absent, wrong)
       \/ Ends("failed", Absent, wrong \cup {"call"})
  /\ UNCHANGED <<mounted, once, card, handles, uses, before, torn>>

-----------------------------------------------------------------------------
(* writeFileToPath.  It returns a result with value 1 when all went well.  *)

WriteFile(p) == Begin("write", p) /\ UNCHANGED <<mounted, once, card, handles, torn>>

(* Nobody looks whether the old file went.                                 *)
DeleteOld(seen, isFile) ==
  /\ Goes("write", "first") /\ Looks(op.path, seen, isFile)
  /\ LET wrong == WrongOf(op.path, seen, isFile) IN
       \/ isFile /\ Present(op.path) /\ card' = [card EXCEPT ![op.path] = Absent] /\ Then("create", wrong)
       \/ ~isFile /\ UNCHANGED card /\ Then("create", wrong)
       \/ isFile /\ UNCHANGED card /\ Then("create", wrong \cup {"call"})
  /\ UNCHANGED <<mounted, once, handles, uses, before, torn>>

CreateFile ==
  /\ Goes("write", "create")
  /\ \/ mounted /\ card[op.path] = Absent
        /\ card' = [card EXCEPT ![op.path] = 0] /\ Then("open", {})
     \/ Fails("not_created") /\ UNCHANGED card
  /\ UNCHANGED <<mounted, once, handles, uses, before, torn>>

(* OpenFile on a path of the card, through the hook.                       *)
Open(next) == handles' = handles \cup {uses} /\ Then(next, {})
Unopened(what) == Fails(what) /\ UNCHANGED handles

OpenWritten ==
  /\ Goes("write", "open") /\ MountOnce
  /\ Open("write") \/ Unopened("not_opened")
  /\ UNCHANGED <<card, uses, before, torn>>

WriteContents ==
  /\ Goes("write", "write")
  /\ \/ card' = [card EXCEPT ![op.path] = uses + 1] /\ Then("close", {}) /\ UNCHANGED torn
     \/ Fails("not_written") /\ torn' = torn \cup {uses} /\ UNCHANGED card
  /\ UNCHANGED <<mounted, once, handles, uses, before>>

CloseForgotten == UNCHANGED handles
Close   == handles' = handles \ {uses}

CloseWritten ==
  /\ Goes("write", "close")
  /\ Close /\ Ends("written", card[op.path], {})
  /\ UNCHANGED <<mounted, once, card, uses, before, torn>>

-----------------------------------------------------------------------------
(* loadFileFromPath: a file that is not found, not opened or not read is   *)
(* an abort; one whose size is not told is loaded as an empty one.         *)
(* getFileSize gives -1 for what cannot be opened, or has no size.         *)

LoadFile(p) == Begin("load", p) /\ UNCHANGED <<mounted, once, card, handles, torn>>

FindFile(seen, isFile) ==
  /\ Goes("load", "first") /\ Looks(op.path, seen, isFile)
  /\ LET wrong == WrongOf(op.path, seen, isFile) IN
       IF isFile THEN Then("open", wrong) ELSE Ends("aborted", Absent, wrong)
  /\ UNCHANGED <<mounted, once, card, handles, uses, before, torn>>

OpenLoaded ==
  /\ Goes("load", "open") /\ MountOnce /\ UNCHANGED <<card, uses, before, torn>>
  /\ (mounted' /\ card[op.path] # Absent /\ Open("read")) \/ Unopened("aborted")

ReadContents ==
  /\ Goes("load", "read")
  /\ Then("close", {}) \/ Then("empty", {"call"}) \/ Fails("aborted")
  /\ UNCHANGED <<mounted, once, card, handles, uses, before, torn>>

CloseLoaded ==
  /\ Close
  /\ \/ Goes("load", "close") /\ Ends("loaded", card[op.path], {})
     \/ Goes("load", "empty") /\ Ends("empty", Absent, {})
  /\ UNCHANGED <<mounted, once, card, uses, before, torn>>

GetFileSize(p) ==
  /\ Begin("size", p) /\ UNCHANGED <<mounted, once, card, handles, torn>>

OpenMeasured ==
  /\ Goes("size", "first") /\ MountOnce /\ UNCHANGED <<card, uses, before, torn>>
  /\ \/ mounted' /\ card[op.path] # Absent /\ Open("close")
     \/ Ends("unknown", Absent, IF mounted' /\ card[op.path] # Absent THEN {"call"} ELSE {}) /\ UNCHANGED handles

CloseMeasured ==
  /\ Goes("size", "close") /\ Close
  /\ Ends("measured", card[op.path], {}) \/ Fails("unknown")
  /\ UNCHANGED <<mounted, once, card, uses, before, torn>>

FsStep ==
  \/ \E p \in Paths : Redirect(p) \/ WriteFile(p) \/ LoadFile(p) \/ GetFileSize(p)
  \/ \E seen, isFile \in BOOLEAN :
       OpenRedirected(seen, isFile) \/ DeleteOld(seen, isFile) \/ FindFile(seen, isFile)
  \/ CreateFile \/ OpenWritten \/ WriteContents \/ CloseWritten
  \/ OpenLoaded \/ ReadContents \/ CloseLoaded \/ OpenMeasured \/ CloseMeasured

-----------------------------------------------------------------------------
(* Between operations no handle is open but those of writes that failed or *)
(* of a process that is aborting; an operation touches no file but its     *)
(* own, and that one only if it writes; a write that comes to its end left *)
(* the new version, and a copy or a load gives what is there.  And where   *)
(* no call failed and no unset type was read, an operation came to what it *)
(* is for, or there was no such file: nothing that was there is passed     *)
(* over, left half written or lost.                                        *)
Writes == {"written", "not_created", "not_opened", "not_written"}
Missed == {"original", "aborted", "unknown"}
FilesSound ==
  op = NoOp =>
    /\ result.what = "aborted" \/ handles \subseteq torn
    /\ \A p \in Paths : card[p] # before[p] => p = result.path /\ result.what \in Writes
    /\ result.what = "written" => result.version = uses + 1
    /\ result.what \in {"copy", "loaded"} => result.version = card[result.path] /\ result.version # Absent
    /\ result.wrong = {} =>
         \/ result.what \in {"none", "written", "copy", "loaded", "measured"}
         \/ result.what \in Missed /\ ~Present(result.path)
=============================================================================
