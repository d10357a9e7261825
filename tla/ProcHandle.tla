----------------------------- MODULE ProcHandle -----------------------------
(***************************************************************************)
(* The handle the process has to itself, lib/util/sys/cur_proc_handle.cpp: *)
(* asked of the kernel, or sent by the process to itself.  A session is    *)
(* made, a thread started on a stack inside the caller's frame receives    *)
(* the handle from it, and the caller waits for that thread to be gone.    *)
(*                                                                         *)
(* The handle is a variable without a lock; any thread may ask for it.     *)
(* Faulty variants next to definitions are for TLC only.                   *)
(***************************************************************************)
EXTENDS Integers, FiniteSets

CONSTANTS
  Threads,    \* the threads that ask
  MaxHandles  \* bound on the handles the kernel gives

VARIABLES
  mesosphere,  \* whether the kernel knows InfoType_MesosphereCurrentProcess
  handle,      \* s_Handle
  get,         \* where each thread is in Get
  got,         \* what Get last returned to it
  server,      \* where the thread is that it started
  issued,      \* the handles to the process that the kernel has given
  open,        \* the other handles that are open, <<whose, what>>
  refused      \* whether a call was refused that Get aborts on

handles == <<handle, get, got, server, issued, open, refused>>

InvalidHandle == 0
Junk          == -1
Fresh         == Cardinality(issued) + 1

HandleInit ==
  /\ mesosphere \in BOOLEAN
  /\ handle = InvalidHandle /\ issued = {} /\ open = {} /\ refused = FALSE
  /\ get = [t \in Threads |-> "out"] /\ got = [t \in Threads |-> InvalidHandle]
  /\ server = [t \in Threads |-> "none"]

Goto(t, pc) == get' = [get EXCEPT ![t] = pc]
At(t, pc)   == get[t] = pc /\ ~refused

-----------------------------------------------------------------------------
(* Get.                                                                    *)

Enter(t) ==
  /\ At(t, "out")
  /\ Goto(t, IF handle = InvalidHandle THEN "ask" ELSE "return")
  /\ UNCHANGED <<handle, got, server, issued, open, refused>>

(* The wrapper stores x1 into s_Handle whether the call succeeded or not.  *)
GetViaMesosphere(t) ==
  /\ At(t, "ask")
  /\ IF mesosphere
     THEN /\ Fresh <= MaxHandles
          /\ handle' = Fresh /\ issued' = issued \cup {Fresh} /\ Goto(t, "return")
     ELSE /\ handle' \in {InvalidHandle, Junk} /\ UNCHANGED issued /\ Goto(t, "session")
  /\ UNCHANGED <<got, server, open, refused>>

(* svcCreateSession and svcCreateThread are the calls that may be refused. *)
CreateSession(t) ==
  /\ At(t, "session")
  /\ \/ /\ open' = open \cup {<<t, "server">>, <<t, "client">>}
        /\ Goto(t, "thread") /\ UNCHANGED refused
     \/ refused' = TRUE /\ UNCHANGED <<open, get>>
  /\ UNCHANGED <<handle, got, server, issued>>

CreateThread(t) ==
  /\ At(t, "thread")
  /\ \/ /\ open' = open \cup {<<t, "thread">>}
        /\ server' = [server EXCEPT ![t] = "receive"] /\ Goto(t, "send") /\ UNCHANGED refused
     \/ refused' = TRUE /\ UNCHANGED <<open, server, get>>
  /\ UNCHANGED <<handle, got, issued>>

(* svcSendSyncRequest returns when the session is closed: nobody replies.  *)
Send(t) ==
  /\ At(t, "send") /\ Goto(t, "sent")
  /\ UNCHANGED <<handle, got, server, issued, open, refused>>

CloseClient(t) ==
  /\ At(t, "sent") /\ <<t, "server">> \notin open
  /\ open' = open \ {<<t, "client">>} /\ Goto(t, "wait")
  /\ UNCHANGED <<handle, got, server, issued, refused>>

GoneAnyway(t) == TRUE
Gone(t)       == server[t] = "none"

WaitThread(t) ==
  /\ At(t, "wait") /\ Gone(t)
  /\ open' = open \ {<<t, "thread">>} /\ Goto(t, "return")
  /\ UNCHANGED <<handle, got, server, issued, refused>>

Return(t) ==
  /\ At(t, "return")
  /\ got' = [got EXCEPT ![t] = handle] /\ Goto(t, "out")
  /\ UNCHANGED <<handle, server, issued, open, refused>>

-----------------------------------------------------------------------------
(* ReceiveProcessHandleThreadMain.                                         *)

Serving(t, pc) == server[t] = pc /\ ~refused

Receive(t) ==
  /\ Serving(t, "receive") /\ get[t] = "sent"
  /\ Fresh <= MaxHandles
  /\ issued' = issued \cup {Fresh} /\ handle' = Fresh
  /\ server' = [server EXCEPT ![t] = "close"]
  /\ UNCHANGED <<get, got, open, refused>>

CloseServer(t) ==
  /\ Serving(t, "close")
  /\ open' = open \ {<<t, "server">>} /\ server' = [server EXCEPT ![t] = "exit"]
  /\ UNCHANGED <<handle, get, got, issued, refused>>

ExitThread(t) ==
  /\ Serving(t, "exit")
  /\ server' = [server EXCEPT ![t] = "none"]
  /\ UNCHANGED <<handle, get, got, issued, open, refused>>

Client(t) ==
  \/ GetViaMesosphere(t) \/ CreateSession(t) \/ CreateThread(t) \/ Send(t)
  \/ CloseClient(t) \/ WaitThread(t) \/ Return(t)

Server(t) == Receive(t) \/ CloseServer(t) \/ ExitThread(t)

-----------------------------------------------------------------------------
(* What Get returned is a handle of this process, and the only one it has. *)
HandleValid ==
  /\ \A t \in Threads : got[t] # InvalidHandle => got[t] \in issued
  /\ Cardinality(issued) <= 1

(* Nothing that Get made outlives it: no handle of a session or a thread,  *)
(* and above all not the thread, whose stack was in its frame.             *)
NothingLeft ==
  \A t \in Threads : get[t] = "out" => server[t] = "none" /\ \A h \in open : h[1] # t

(* Whoever asks, from the first time on, which happens while the program   *)
(* starts: one handle of the process, and nothing left of how it was got.  *)
HandleSound == HandleValid /\ NothingLeft
=============================================================================
