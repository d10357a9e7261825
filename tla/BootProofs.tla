----------------------------- MODULE BootProofs ------------------------------
(* Theorems about Boot: how the modules are linked and called, how the     *)
(* process gets the handle to itself, and what is found of its modules and *)
(* regions, for any number of threads, any programs, address spaces and    *)
(* kernels.                                                                *)
EXTENDS Boot, FiniteSetTheorems, WellFoundedInduction, TLAPS

Early == {"link", "scan", "regions", "virtmem", "patcher", "aborted"}

HandleTypeOK ==
  /\ get \in [Threads -> {"out", "ask", "session", "thread", "send", "sent", "wait", "return"}]
  /\ got \in [Threads -> Int]
  /\ server \in [Threads -> {"none", "receive", "close", "exit"}]
  /\ refused \in BOOLEAN

(* A thread that has nothing to do with the exchange.                      *)
Aside(t) == get[t] = "out" /\ server[t] = "none"

Owned(t, whats) == open = {<<t, what>> : what \in whats}
NotYet  == issued = {}
Settled == issued = {1} /\ handle = 1

(* What there is of the exchange at each of the caller's statements: the   *)
(* session, the thread, and whether the handle has come.                   *)
Exchange(t) ==
  /\ get[t] \in {"ask", "session"} => NotYet /\ open = {} /\ server[t] = "none"
  /\ get[t] = "thread" => NotYet /\ Owned(t, {"server", "client"}) /\ server[t] = "none"
  /\ get[t] = "send" => NotYet /\ Owned(t, {"server", "client", "thread"}) /\ server[t] = "receive"
  /\ get[t] = "sent" =>
       /\ server[t] = "receive" => NotYet
       /\ server[t] # "receive" => Settled
       /\ IF server[t] \in {"receive", "close"} THEN Owned(t, {"server", "client", "thread"})
          ELSE Owned(t, {"client", "thread"})
  /\ get[t] = "wait" => Settled /\ Owned(t, {"thread"}) /\ server[t] \in {"exit", "none"}
  /\ get[t] \in {"return", "out"} => Settled /\ open = {} /\ server[t] = "none"

(* Before the view of the game's code is made nobody has asked; then the   *)
(* thread that starts the program does, alone; whoever asks later finds    *)
(* the handle there.                                                       *)
HandleInv ==
  /\ HandleTypeOK
  /\ phase \in Early \cup {"handle", "running"}
  /\ \A t \in Threads : got[t] # InvalidHandle => got[t] \in issued
  /\ phase \in Early =>
       NotYet /\ open = {} /\ handle = InvalidHandle /\ \A t \in Threads : Aside(t)
  /\ phase = "handle" => Exchange(BootThread) /\ \A t \in Threads \ {BootThread} : Aside(t)
  /\ phase = "running" =>
       Settled /\ open = {} /\ \A t \in Threads : server[t] = "none" /\ get[t] \in {"out", "return"}

-----------------------------------------------------------------------------
LEMMA HandleStarts == Init => HandleInv
<1> SUFFICES ASSUME Init PROVE HandleInv
  OBVIOUS
<1>1. HandleTypeOK
  <2>1. refused \in BOOLEAN
    BY Zenon DEF Init, HandleInit
  <2> QED BY <2>1 DEF Init, HandleInit, HandleTypeOK, InvalidHandle
<1> QED BY <1>1 DEF Init, HandleInit, HandleInv, Early, Aside, NotYet

LEMMA HandleStays ==
  ASSUME HandleInv, UNCHANGED handles, phase' = phase \/ {phase, phase'} \subseteq Early
  PROVE  HandleInv'
  BY DEF HandleInv, HandleTypeOK, handles, Exchange, Owned, NotYet, Settled, Aside, Early

LEMMA FirstIsOne == NotYet => Fresh = 1
  BY FS_EmptySet DEF NotYet, Fresh

(* A refused call leaves everything as it was, and nothing goes on.        *)
LEMMA Refusal ==
  ASSUME HandleInv, refused' = TRUE, phase' = phase,
         UNCHANGED <<handle, get, got, server, issued, open>>
  PROVE  HandleInv'
  BY DEF HandleInv, HandleTypeOK, Exchange, Owned, NotYet, Settled, Aside, Early

(* The exchange is the starting thread's alone.                            *)
LEMMA ClientKeeps ==
  ASSUME HandleInv, NEW t \in Threads, Client(t), phase' = phase, phase # "aborted"
  PROVE  HandleInv'
<1> USE BootAssumption DEF HandleInv, HandleTypeOK, At, Goto, Early, Aside
<1>1. phase = "running" => Return(t)
  BY DEF Client, GetViaMesosphere, CreateSession, CreateThread, Send, CloseClient, WaitThread
<1>2. CASE phase = "running"
  BY <1>1, <1>2 DEF Return, Settled
<1>3. CASE phase = "handle" /\ t = BootThread
  <2> USE <1>3
  <2>1. CASE GetViaMesosphere(t)
    BY <2>1, FirstIsOne DEF GetViaMesosphere, Exchange, NotYet, Settled
  <2>2. CASE CreateSession(t)
    <3>1. CASE refused' = TRUE /\ UNCHANGED <<open, get>>
      BY <2>2, <3>1, Refusal DEF CreateSession
    <3>2. CASE get' = [get EXCEPT ![t] = "thread"] /\ UNCHANGED refused
      <4>1. open = {} /\ open' = open \cup {<<t, "server">>, <<t, "client">>}
        BY <2>2, <3>2 DEF CreateSession, Exchange
      <4>2. Owned(t, {"server", "client"})'
        BY <4>1 DEF Owned
      <4> QED BY <2>2, <3>2, <4>2 DEF CreateSession, Exchange, NotYet
    <3> QED BY <2>2, <3>1, <3>2 DEF CreateSession
  <2>3. CASE CreateThread(t)
    <3>1. CASE refused' = TRUE /\ UNCHANGED <<open, server, get>>
      BY <2>3, <3>1, Refusal DEF CreateThread
    <3>2. CASE /\ get' = [get EXCEPT ![t] = "send"] /\ UNCHANGED refused
               /\ server' = [server EXCEPT ![t] = "receive"]
      <4>1. Owned(t, {"server", "client"}) /\ open' = open \cup {<<t, "thread">>}
        BY <2>3, <3>2 DEF CreateThread, Exchange
      <4>2. Owned(t, {"server", "client", "thread"})'
        BY <4>1 DEF Owned
      <4> QED BY <2>3, <3>2, <4>2 DEF CreateThread, Exchange, NotYet
    <3> QED BY <2>3, <3>1, <3>2 DEF CreateThread
  <2>4. CASE Send(t)
    BY <2>4 DEF Send, Exchange, NotYet, Owned
  <2>5. CASE CloseClient(t)
    BY <2>5 DEF CloseClient, Exchange, NotYet, Owned, Settled
  <2>6. CASE WaitThread(t)
    BY <2>6 DEF WaitThread, Gone, Exchange, Owned, Settled
  <2>7. CASE Return(t)
    BY <2>7 DEF Return, Exchange, Settled, Owned
  <2> QED BY <2>1, <2>2, <2>3, <2>4, <2>5, <2>6, <2>7 DEF Client
<1> QED
  BY <1>2, <1>3
  DEF Client, GetViaMesosphere, CreateSession, CreateThread, Send, CloseClient, WaitThread, Return

LEMMA ServerKeeps ==
  ASSUME HandleInv, NEW t \in Threads, Server(t), phase' = phase, phase # "aborted"
  PROVE  HandleInv'
<1> USE BootAssumption DEF HandleInv, HandleTypeOK, Serving, Early, Aside
<1>1. phase = "handle" /\ t = BootThread
  BY DEF Server, Receive, CloseServer, ExitThread
<1>2. CASE Receive(t)
  BY <1>1, <1>2, FirstIsOne DEF Receive, Exchange, NotYet, Settled, Owned
<1>3. CASE CloseServer(t)
  BY <1>1, <1>3 DEF CloseServer, Exchange, Settled, Owned
<1>4. CASE ExitThread(t)
  BY <1>1, <1>4 DEF ExitThread, Exchange, Settled, Owned
<1> QED BY <1>2, <1>3, <1>4 DEF Server

LEMMA NextKeeps == HandleInv /\ [Next]_vars => HandleInv'
<1> SUFFICES ASSUME HandleInv, [Next]_vars PROVE HandleInv'
  OBVIOUS
<1>1. CASE UNCHANGED vars \/ Over
  BY <1>1, HandleStays DEF Over, vars
<1>2. CASE LinkModule \/ StartInit \/ Scan \/ SetRegions \/ SetVirtmem
  <2>1. UNCHANGED handles
    BY <1>2 DEF LinkModule, StartInit, Scan, SetRegions, SetVirtmem
  <2>2. phase' = phase \/ {phase, phase'} \subseteq Early
    BY <1>2 DEF LinkModule, StartInit, Scan, SetRegions, SetVirtmem, Early
  <2> QED BY <2>1, <2>2, HandleStays
<1>3. CASE InitPatcherImpl
  <2>1. CASE phase' = "aborted"
    BY <1>3, <2>1, HandleStays DEF InitPatcherImpl, Early, Enter
  <2>2. CASE Enter(BootThread) /\ phase' = "handle"
    BY <1>3, <2>2, BootAssumption
    DEF InitPatcherImpl, Enter, At, Goto, HandleInv, HandleTypeOK, Early, Aside, Exchange, NotYet, InvalidHandle
  <2> QED BY <1>3, <2>1, <2>2 DEF InitPatcherImpl
<1>4. CASE Main
  BY <1>4, BootAssumption DEF Main, At, handles, HandleInv, HandleTypeOK, Exchange, Settled, Aside, Early
<1>5. ASSUME NEW t \in Threads, Ask(t) PROVE HandleInv'
  BY <1>5 DEF Ask, Enter, At, Goto, HandleInv, HandleTypeOK, Settled, InvalidHandle, Early
<1>6. ASSUME NEW t \in Threads, GetStep(t) PROVE HandleInv'
  BY <1>6, ClientKeeps, ServerKeeps DEF GetStep
<1>7. ASSUME NEW t \in Callers, MakeCall(t) PROVE HandleInv'
  BY <1>7, HandleStays DEF MakeCall
<1> QED BY <1>1, <1>2, <1>3, <1>4, <1>5, <1>6, <1>7 DEF Next, BootStep

LEMMA InvIsSound == HandleInv => HandleSound
<1> SUFFICES ASSUME HandleInv PROVE HandleSound
  OBVIOUS
<1>1. Cardinality(issued) <= 1
  <2>1. NotYet \/ Settled
    BY BootAssumption DEF HandleInv, HandleTypeOK, Exchange, Early
  <2> QED BY <2>1, FS_EmptySet, FS_Singleton DEF NotYet, Settled
<1>2. NothingLeft
  <2> SUFFICES ASSUME NEW t \in Threads, get[t] = "out"
               PROVE  server[t] = "none" /\ \A h \in open : h[1] # t
    BY DEF NothingLeft
  <2>1. server[t] = "none"
    BY DEF HandleInv, Exchange, Aside, Early
  <2>2. CASE phase = "handle" /\ t # BootThread
    <3>1. \E whats : Owned(BootThread, whats) \/ open = {}
      BY <2>2, BootAssumption DEF HandleInv, HandleTypeOK, Exchange
    <3> QED BY <2>1, <2>2, <3>1 DEF Owned
  <2> QED BY <2>1, <2>2 DEF HandleInv, Exchange, Early
<1> QED BY <1>1, <1>2 DEF HandleInv, HandleSound, HandleValid

(* Whoever asks for the process's handle, in whatever order threads run    *)
(* and whatever the kernel refuses, gets the only one there is; and no     *)
(* session, thread or handle of the exchange outlives the call that made   *)
(* it (proc_handle::Get, GetViaIpcTrick).                                  *)
THEOREM HandleIsSound == Spec => []HandleSound
<1>1. Spec => []HandleInv
  BY HandleStarts, NextKeeps, PTL DEF Spec
<1> QED BY <1>1, InvIsSound, PTL

-----------------------------------------------------------------------------
(* The scan.  What is begun is the ranges up to scan.at; a module that the *)
(* scan is inside of is begun, and one behind it is in the table, unless   *)
(* it follows on one that was broken off.                                  *)

Due(k) ==
  /\ k = scan.at => Len(scan.begun) = 1
  /\ k + 1 = scan.at => Len(scan.begun) = 2
  /\ Scanned(k) => \E i \in DOMAIN modules : modules[i][1] = k

IsFound(i) ==
  /\ IsModule(modules[i][1]) /\ modules[i] = [j \in 1..3 |-> modules[i][1] + j - 1]
  /\ \A j \in 1..i-1 : modules[j][3] < modules[i][1]

ScanTypeOK ==
  /\ space \in Spaces
  /\ scan.at \in 0..Len(space) /\ scan.begun \in Seq(Nat) /\ Len(scan.begun) <= 2
  /\ Len(scan.begun) <= scan.at
  /\ modules \in Seq(Seq(Nat)) /\ Len(modules) <= MaxModules
  /\ self \in -1..Len(modules)-1

ScanInv ==
  /\ ScanTypeOK
  /\ \A j \in DOMAIN scan.begun :
       scan.begun[j] = scan.at - Len(scan.begun) + j /\ space[scan.begun[j]] = Parts[j]
  /\ \A i \in DOMAIN modules : IsFound(i)
  /\ phase \in {"link", "scan"} => \A i \in DOMAIN modules : modules[i][3] <= scan.at - Len(scan.begun)
  /\ \A k \in DOMAIN space : IsModule(k) /\ ~BehindBroken(k) => Due(k)
  /\ self # -1 => modules[self + 1][1] = own

LEMMA PartsAre == Parts[1] = "rx" /\ Parts[2] = "r" /\ Parts[3] = "rw"
  BY DEF Parts

LEMMA ModulesAre ==
  ASSUME NEW k \in Int, IsModule(k)
  PROVE  k + 2 \in DOMAIN space /\ space[k] = "rx" /\ space[k+1] = "r" /\ space[k+2] = "rw"
<1>1. \A i \in 1..3 : space[k+i-1] = Parts[i]
  BY DEF IsModule
<1>2. space[k + 1 - 1] = Parts[1] /\ space[k + 2 - 1] = Parts[2] /\ space[k + 3 - 1] = Parts[3]
  BY <1>1
<1>3. k + 1 - 1 = k /\ k + 2 - 1 = k + 1 /\ k + 3 - 1 = k + 2
  OBVIOUS
<1> QED BY <1>2, <1>3, PartsAre DEF IsModule

LEMMA Short ==
  ASSUME NEW s \in Seq(Nat), Len(s) <= 2
  PROVE  Len(s) \in {0, 1, 2} /\ DOMAIN s = 1..Len(s) /\ (Len(s) = 0 => s = <<>>)
<1>1. Len(s) \in Nat /\ DOMAIN s = 1..Len(s)
  OBVIOUS
<1>2. Len(s) = 0 => s = <<>>
  OBVIOUS
<1> QED BY <1>1, <1>2

LEMMA Shapes ==
  ASSUME ScanInv
  PROVE  /\ Len(space) \in Nat /\ DOMAIN space = 1..Len(space) /\ Len(space) > 1 /\ space[1] = "other"
         /\ \A i \in 1..Len(space)-1 : space[i] # space[i+1] \/ space[i] = "other"
         /\ scan.at \in 0..Len(space) /\ Len(scan.begun) \in {0, 1, 2} /\ Len(scan.begun) <= scan.at
         /\ DOMAIN scan.begun = 1..Len(scan.begun)
<1>1. space \in Spaces /\ scan.at \in 0..Len(space) /\ Len(scan.begun) <= scan.at
  BY DEF ScanInv, ScanTypeOK
<1>2. space \in Seq({"rx", "r", "rw", "other"}) /\ Len(space) > 1 /\ space[1] = "other"
      /\ \A i \in 1..Len(space)-1 : space[i] # space[i+1] \/ space[i] = "other"
  BY <1>1, SpacesAssumption
<1>3. Len(space) \in Nat /\ DOMAIN space = 1..Len(space)
  BY <1>2
<1>4. scan.begun \in Seq(Nat) /\ Len(scan.begun) <= 2
  BY DEF ScanInv, ScanTypeOK
<1>5. Len(scan.begun) \in {0, 1, 2} /\ DOMAIN scan.begun = 1..Len(scan.begun)
  BY <1>4, Short
<1> QED BY <1>1, <1>2, <1>3, <1>5

LEMMA TableShape ==
  ASSUME ScanInv
  PROVE  /\ modules \in Seq(Seq(Nat)) /\ Len(modules) \in Nat /\ DOMAIN modules = 1..Len(modules)
         /\ Len(modules) <= MaxModules /\ MaxModules \in Nat /\ self \in -1..Len(modules)-1
         /\ scan.begun \in Seq(Nat)
<1>1. modules \in Seq(Seq(Nat)) /\ Len(modules) <= MaxModules /\ self \in -1..Len(modules)-1
      /\ scan.begun \in Seq(Nat)
  BY DEF ScanInv, ScanTypeOK
<1> QED BY <1>1, ModulesAssumption

(* What is begun, word for word.                                           *)
LEMMA BegunIs ==
  ASSUME ScanInv
  PROVE  /\ Len(scan.begun) = 0 => scan.begun = <<>>
         /\ Len(scan.begun) = 1 => scan.begun[1] = scan.at /\ space[scan.at] = "rx"
         /\ Len(scan.begun) = 2 => /\ scan.begun[1] = scan.at - 1 /\ space[scan.at - 1] = "rx"
                                   /\ scan.begun[2] = scan.at /\ space[scan.at] = "r"
<1>1. /\ scan.begun \in Seq(Nat) /\ scan.at \in Nat
      /\ \A j \in 1..Len(scan.begun) :
           scan.begun[j] = scan.at - Len(scan.begun) + j /\ space[scan.begun[j]] = Parts[j]
  BY Shapes, TableShape DEF ScanInv
<1>2. ASSUME Len(scan.begun) = 1 PROVE scan.begun[1] = scan.at /\ space[scan.at] = "rx"
  <2>1. scan.begun[1] = scan.at - 1 + 1 /\ space[scan.begun[1]] = Parts[1]
    BY <1>1, <1>2
  <2> QED BY <1>1, <2>1, PartsAre
<1>3. ASSUME Len(scan.begun) = 2
      PROVE  /\ scan.begun[1] = scan.at - 1 /\ space[scan.at - 1] = "rx"
             /\ scan.begun[2] = scan.at /\ space[scan.at] = "r"
  <2>1. /\ scan.begun[1] = scan.at - 2 + 1 /\ space[scan.begun[1]] = Parts[1]
        /\ scan.begun[2] = scan.at - 2 + 2 /\ space[scan.begun[2]] = Parts[2]
    BY <1>1, <1>3
  <2>2. scan.at - 2 + 1 = scan.at - 1 /\ scan.at - 2 + 2 = scan.at
    BY <1>1
  <2> QED BY <2>1, <2>2, PartsAre
<1> QED BY <1>1, <1>2, <1>3

(* A row of the table, number for number.                                  *)
LEMMA RowIs ==
  ASSUME ScanInv, NEW i \in DOMAIN modules
  PROVE  /\ IsFound(i) /\ modules[i] \in Seq(Nat) /\ modules[i][1] \in Nat
         /\ modules[i][3] = modules[i][1] + 2
<1>1. IsFound(i)
  BY DEF ScanInv
<1>2. modules[i] \in Seq(Nat)
  BY TableShape
<1>3. DOMAIN modules[i] = 1..3 /\ modules[i][3] = modules[i][1] + 3 - 1
  BY <1>1 DEF IsFound
<1>4. modules[i][1] \in Nat
  BY <1>2, <1>3
<1> QED BY <1>1, <1>2, <1>3, <1>4

LEMMA ScanStarts == Init => ScanInv
<1> SUFFICES ASSUME Init PROVE ScanInv
  OBVIOUS
<1>1. space \in Spaces /\ scan = [at |-> 0, begun |-> <<>>] /\ modules = <<>> /\ self = -1
  BY DEF Init, LayoutInit
<1>2. ScanTypeOK
  BY <1>1, SpacesAssumption, ModulesAssumption DEF ScanTypeOK
<1>3. DOMAIN space \subseteq Nat \ {0}
  BY <1>1, SpacesAssumption
<1>4. \A k \in DOMAIN space : Due(k)
  BY <1>1, <1>3 DEF Due, Scanned
<1> QED BY <1>1, <1>2, <1>4 DEF ScanInv

LEMMA ScanStays ==
  ASSUME ScanInv, UNCHANGED <<scan, modules, self, space, own>>,
         phase' = phase \/ phase' \notin {"link", "scan"} \/ phase = "link"
  PROVE  ScanInv'
<1>1. ScanTypeOK'
  BY DEF ScanInv, ScanTypeOK
<1>2. \A i : IsFound(i)' <=> IsFound(i)
  BY DEF IsFound, IsModule
<1>3. \A k : (Due(k)' <=> Due(k)) /\ (IsModule(k)' <=> IsModule(k)) /\ (BehindBroken(k)' <=> BehindBroken(k))
  BY DEF Due, Scanned, IsModule, BehindBroken
<1> QED BY <1>1, <1>2, <1>3 DEF ScanInv

(* The range that is looked at: the next one, or the first, which begins   *)
(* nothing.                                                                *)
LEMMA NextIs ==
  ASSUME ScanInv
  PROVE  /\ NextRange \in DOMAIN space /\ DOMAIN space = 1..Len(space) /\ Len(space) \in Nat
         /\ NextRange = scan.at + 1 \/ (NextRange = 1 /\ scan.at = Len(space) /\ Wrapped(NextRange))
         /\ space[1] = "other"
  BY Shapes DEF NextRange, Wrapped

LEMMA BrokenOff ==
  ASSUME ScanInv, NEW k, k = NextRange, space[k] # Parts[Len(scan.begun) + 1],
         scan' = [at |-> k, begun |-> <<>>], UNCHANGED <<modules, self, space, own>>,
         (phase' = phase /\ ~Wrapped(k)) \/ phase' \notin {"link", "scan"}
  PROVE  ScanInv'
<1>1. /\ k \in DOMAIN space /\ DOMAIN space = 1..Len(space) /\ Len(space) \in Nat /\ space[1] = "other"
      /\ k = scan.at + 1 \/ (k = 1 /\ scan.at = Len(space) /\ Wrapped(k))
  BY NextIs
<1>2. ScanTypeOK'
  BY <1>1, Shapes, BegunIs DEF ScanInv, ScanTypeOK
<1>3. \A i \in DOMAIN modules : IsFound(i)'
  BY DEF ScanInv, IsFound, IsModule
<1>4. ASSUME NEW m \in DOMAIN space, IsModule(m), ~BehindBroken(m) PROVE Due(m)'
  <2>0. m \in Int
    BY <1>1
  <2>1. m + 2 \in DOMAIN space /\ space[m] = "rx" /\ space[m+1] = "r" /\ space[m+2] = "rw"
    BY <1>1, <1>4, ModulesAre
  <2>2. /\ m = scan.at => Len(scan.begun) = 1
        /\ m + 1 = scan.at => Len(scan.begun) = 2
        /\ Scanned(m) => \E i \in DOMAIN modules : modules[i][1] = m
    BY <1>4 DEF ScanInv, Due
  <2>3. m # k
    <3> SUFFICES ASSUME m = k PROVE FALSE
      OBVIOUS
    <3>1. k = scan.at + 1
      BY <1>1, <2>1
    <3>2. Len(scan.begun) \in {1, 2}
      BY <2>1, PartsAre, Shapes, BegunIs
    <3>3. CASE Len(scan.begun) = 1
      <4>1. space[m-1] = "rx" /\ m - 1 \in 1..Len(space)-1
        BY <1>1, <3>1, <3>3, PartsAre, Shapes, BegunIs
      <4> QED BY <1>1, <2>1, <4>1, Shapes, SMTT(30)
    <3>4. CASE Len(scan.begun) = 2
      <4>1. space[m-2] = "rx" /\ space[m-1] = "r" /\ m > 2
        BY <1>1, <3>1, <3>4, PartsAre, Shapes, BegunIs
      <4> QED BY <1>4, <4>1 DEF BehindBroken
    <3> QED BY <3>2, <3>3, <3>4
  <2>4. m + 1 # k
    <3> SUFFICES ASSUME m + 1 = k PROVE FALSE
      OBVIOUS
    <3>1. Len(scan.begun) = 1
      BY <1>1, <2>0, <2>2, Shapes
    <3> QED BY <2>1, <3>1, PartsAre
  <2>5. m + 2 # k
    <3> SUFFICES ASSUME m + 2 = k PROVE FALSE
      OBVIOUS
    <3>1. Len(scan.begun) = 2
      BY <1>1, <2>0, <2>2, Shapes
    <3> QED BY <2>1, <3>1, PartsAre
  <2>6. m + 2 <= k => \E i \in DOMAIN modules : modules[i][1] = m
    BY <1>1, <2>2, <2>5, Shapes DEF Scanned
  <2> QED BY <2>3, <2>4, <2>6 DEF Due, Scanned
<1>5. phase' \in {"link", "scan"} => \A i \in DOMAIN modules : modules[i][3] <= k
  <2> SUFFICES ASSUME phase' \in {"link", "scan"}, NEW i \in DOMAIN modules PROVE modules[i][3] <= k
    OBVIOUS
  <2>1. k = scan.at + 1 /\ modules[i][3] <= scan.at - Len(scan.begun)
    BY <1>1 DEF ScanInv
  <2>2. modules[i][3] \in Int
    BY RowIs
  <2> QED BY <2>1, <2>2, Shapes
<1>6. \A m : (IsModule(m)' <=> IsModule(m)) /\ (BehindBroken(m)' <=> BehindBroken(m))
  BY DEF IsModule, BehindBroken
<1>7. scan'.at = k /\ Len(scan'.begun) = 0 /\ DOMAIN scan'.begun = {}
  OBVIOUS
<1>8. phase' \in {"link", "scan"} => \A i \in DOMAIN modules' : modules'[i][3] <= scan'.at - Len(scan'.begun)
  BY <1>1, <1>5, <1>7
<1>9. self' # -1 => modules'[self' + 1][1] = own'
  BY DEF ScanInv
<1> QED BY <1>2, <1>3, <1>4, <1>6, <1>7, <1>8, <1>9 DEF ScanInv

(* A sequence that is appended to.                                         *)
LEMMA Appended ==
  ASSUME NEW S, NEW s \in Seq(S), NEW e \in S
  PROVE  /\ Append(s, e) \in Seq(S) /\ Len(Append(s, e)) = Len(s) + 1 /\ Len(s) \in Nat
         /\ DOMAIN Append(s, e) = 1..Len(s)+1 /\ DOMAIN s = 1..Len(s)
         /\ Append(s, e)[Len(s)+1] = e /\ \A i \in 1..Len(s) : Append(s, e)[i] = s[i]
  OBVIOUS

LEMMA GoesOn ==
  ASSUME ScanInv, NEW k, k = NextRange, space[k] = Parts[Len(scan.begun) + 1], Len(scan.begun) < 2,
         scan' = [at |-> k, begun |-> Append(scan.begun, k)], UNCHANGED <<modules, self, space, own>>,
         phase' = phase \/ phase' \notin {"link", "scan"}
  PROVE  ScanInv'
<1> DEFINE n == Len(scan.begun)
           new == Append(scan.begun, k)
<1>0. n \in {0, 1} /\ scan.at \in Nat /\ n <= scan.at /\ scan.begun \in Seq(Nat)
  <2>1. scan.begun \in Seq(Nat)
    BY TableShape
  <2>2. Len(space) \in Nat /\ scan.at \in 0..Len(space) /\ n \in {0, 1, 2} /\ n <= scan.at
    BY Shapes, Zenon
  <2>3. n < 2
    OBVIOUS
  <2> HIDE DEF n
  <2> QED BY ONLY <2>1, <2>2, <2>3
<1>1. /\ k \in 1..Len(space) /\ DOMAIN space = 1..Len(space) /\ Len(space) \in Nat
      /\ k = scan.at + 1 /\ k \in Nat
  <2>1. Parts[n + 1] # "other"
    <3>1. n + 1 = 1 \/ n + 1 = 2
      BY <1>0
    <3> QED BY <3>1, PartsAre
  <2> QED BY <1>0, <2>1, NextIs
<1>2. /\ new \in Seq(Nat) /\ Len(new) = n + 1 /\ DOMAIN new = 1..n+1
      /\ new[n+1] = k /\ \A i \in 1..n : new[i] = scan.begun[i]
  BY <1>0, <1>1, Appended
<1>3. scan'.at = k /\ scan'.begun = new
  OBVIOUS
<1>4. ScanTypeOK'
  BY <1>0, <1>1, <1>2, <1>3 DEF ScanInv, ScanTypeOK
<1>5. \A i : IsFound(i)' <=> IsFound(i)
  BY DEF IsFound, IsModule
<1>6. \A m : (IsModule(m)' <=> IsModule(m)) /\ (BehindBroken(m)' <=> BehindBroken(m))
  BY DEF IsModule, BehindBroken
<1>7. ASSUME NEW m \in DOMAIN space, IsModule(m), ~BehindBroken(m) PROVE Due(m)'
  <2>0. m \in Nat
    BY <1>1
  <2>1. m + 2 \in DOMAIN space /\ space[m] = "rx" /\ space[m+1] = "r" /\ space[m+2] = "rw"
    BY <2>0, <1>7, ModulesAre
  <2>2. /\ m = scan.at => n = 1
        /\ m + 1 = scan.at => n = 2
        /\ Scanned(m) => \E i \in DOMAIN modules : modules[i][1] = m
    BY <1>7 DEF ScanInv, Due
  <2>3. m = k => n = 0
    <3> SUFFICES ASSUME m = k, n = 1 PROVE FALSE
      BY <1>0
    <3>1. space[m] = Parts[2]
      BY <1>0
    <3> QED BY <2>1, <3>1, PartsAre
  <2>4. m + 1 = k => n = 1
    BY <1>0, <1>1, <2>0, <2>2
  <2>5. m + 2 <= k => \E i \in DOMAIN modules : modules[i][1] = m
    BY <1>0, <1>1, <2>0, <2>2 DEF Scanned
  <2> HIDE DEF new, n
  <2> QED BY <1>0, <1>2, <1>3, <2>0, <2>3, <2>4, <2>5 DEF Due, Scanned
<1>8. ASSUME NEW j \in DOMAIN new
      PROVE  new[j] = k - Len(new) + j /\ space[new[j]] = Parts[j]
  <2>1. j \in 1..n+1
    BY <1>2
  <2>2. CASE j = n + 1
    <3>1. k - Len(new) + j = k
      BY <1>0, <1>1, <1>2, <2>2
    <3> QED BY <1>2, <2>2, <3>1
  <2>3. CASE j # n + 1
    <3>1. j \in 1..n
      BY <1>0, <2>1, <2>3
    <3>2. j \in DOMAIN scan.begun
      BY <3>1, Shapes
    <3>3. scan.begun[j] = scan.at - n + j /\ space[scan.begun[j]] = Parts[j]
      BY <3>2 DEF ScanInv
    <3>4. scan.at - n + j = k - Len(new) + j
      BY <1>0, <1>1, <1>2, <3>1
    <3> QED BY <1>2, <3>1, <3>3, <3>4
  <2> QED BY <2>2, <2>3
<1>9. phase' \in {"link", "scan"} => \A i \in DOMAIN modules : modules[i][3] <= k - Len(new)
  <2>1. k - Len(new) = scan.at - n
    BY <1>0, <1>1, <1>2
  <2>2. phase' \in {"link", "scan"} => phase \in {"link", "scan"}
    OBVIOUS
  <2> QED BY <2>1, <2>2 DEF ScanInv
<1>10. \A i \in DOMAIN modules : IsFound(i)'
  BY <1>5 DEF ScanInv
<1>11. self' # -1 => modules'[self' + 1][1] = own'
  BY DEF ScanInv
<1> HIDE DEF new, n
<1> QED BY <1>3, <1>4, <1>6, <1>7, <1>8, <1>9, <1>10, <1>11 DEF ScanInv

(* The row of a module whose third range is k.                             *)
IsRow(row) == row = [j \in 1..3 |-> row[1] + j - 1]

HasEnds(row, k) ==
  /\ row \in Seq(Nat) /\ DOMAIN row = 1..3 /\ Len(row) = 3
  /\ row[1] = k - 2 /\ row[2] = k - 1 /\ row[3] = k
  /\ IsRow(row)

LEMMA RowEnds ==
  ASSUME NEW b \in Seq(Nat), NEW k \in Nat, Len(b) = 2, b[1] = k - 2, b[2] = k - 1
  PROVE  HasEnds(Append(b, k), k)
<1> DEFINE row == Append(b, k)
<1>0. /\ row \in Seq(Nat) /\ Len(row) = Len(b) + 1 /\ row[Len(b)+1] = k
      /\ \A i \in 1..Len(b) : row[i] = b[i]
  BY ONLY b \in Seq(Nat), k \in Nat, Appended
<1> HIDE DEF row
<1>1. row \in Seq(Nat) /\ Len(row) = 3 /\ row[3] = k /\ row[1] = b[1] /\ row[2] = b[2]
  <2>1. Len(b) + 1 = 3 /\ 1 \in 1..Len(b) /\ 2 \in 1..Len(b)
    OBVIOUS
  <2> QED BY ONLY <1>0, <2>1
<1>2. row[1] = k - 2 /\ row[2] = k - 1 /\ row[3] = k
  BY <1>1
<1>3. DOMAIN row = 1..3 /\ row = [j \in 1..3 |-> row[j]]
  BY ONLY <1>1
<1>4. \A j \in 1..3 : row[j] = row[1] + j - 1
  <2> SUFFICES ASSUME NEW j \in 1..3 PROVE row[j] = row[1] + j - 1
    OBVIOUS
  <2>1. j = 1 \/ j = 2 \/ j = 3
    OBVIOUS
  <2> QED BY ONLY <1>2, <2>1, k \in Nat
<1>5. HasEnds(row, k)
  BY ONLY <1>1, <1>2, <1>3, <1>4 DEF IsRow, HasEnds
<1> QED BY ONLY <1>5 DEF row

LEMMA TableGrows ==
  ASSUME NEW s \in Seq(Seq(Nat)), NEW row \in Seq(Nat), NEW t, t = Append(s, row)
  PROVE  /\ t \in Seq(Seq(Nat)) /\ Len(s) \in Nat /\ Len(t) = Len(s) + 1
         /\ DOMAIN t = 1..Len(s)+1 /\ t[Len(s)+1] = row /\ \A i \in 1..Len(s) : t[i] = s[i]
  BY ONLY s \in Seq(Seq(Nat)), row \in Seq(Nat), t = Append(s, row), Appended

NewRow == Append(scan.begun, NextRange)

LEMMA ModuleEnds ==
  ASSUME ScanInv, phase = "scan", NEW k, k = NextRange, space[k] = Parts[3], Len(scan.begun) = 2,
         NewRow \in Seq(Nat), NewRow[1] = k - 2, NewRow[2] = k - 1, NewRow[3] = k,
         IsRow(NewRow),
         scan' = [at |-> k, begun |-> <<>>], modules' = Append(modules, NewRow),
         self' = IF NewRow[1] = own THEN Len(modules) ELSE self,
         UNCHANGED <<space, own>>, Len(modules) < MaxModules
  PROVE  ScanInv'
<1> DEFINE last == Len(modules) + 1
<1>0. scan.at \in Nat /\ 2 <= scan.at
  BY Shapes
<1>1. /\ k \in 1..Len(space) /\ DOMAIN space = 1..Len(space) /\ Len(space) \in Nat
      /\ k = scan.at + 1 /\ k \in Nat
  BY <1>0, NextIs, PartsAre
<1>2. space[k-2] = "rx" /\ space[k-1] = "r" /\ space[k] = "rw"
  <2>1. scan.at - 1 = k - 2 /\ scan.at = k - 1
    BY ONLY <1>0, <1>1
  <2> QED BY <2>1, BegunIs, PartsAre
<1>4. /\ modules' \in Seq(Seq(Nat)) /\ DOMAIN modules' = 1..last /\ modules'[last] = NewRow
      /\ DOMAIN modules = 1..Len(modules) /\ Len(modules) \in Nat /\ Len(modules') = last
      /\ \A i \in 1..Len(modules) : modules'[i] = modules[i]
  <2>1. modules \in Seq(Seq(Nat)) /\ DOMAIN modules = 1..Len(modules)
    BY TableShape
  <2> QED BY ONLY <2>1, NewRow \in Seq(Nat), modules' = Append(modules, NewRow), TableGrows
<1>5. scan'.at = k /\ scan'.begun = <<>> /\ Len(scan'.begun) = 0 /\ DOMAIN scan'.begun = {}
  OBVIOUS
<1>6. ScanTypeOK'
  <2>1. self' \in -1..Len(modules')-1
    BY <1>4, TableShape
  <2>2. Len(modules') <= MaxModules /\ scan'.begun \in Seq(Nat)
    BY <1>4, <1>5, TableShape
  <2> QED BY <1>1, <1>4, <1>5, <2>1, <2>2 DEF ScanInv, ScanTypeOK
<1>7. \A i \in 1..Len(modules) :
        /\ IsFound(i) /\ modules[i][1] \in Nat /\ modules[i][3] = modules[i][1] + 2
        /\ modules[i][3] <= k - 3
  <2> SUFFICES ASSUME NEW i \in 1..Len(modules) PROVE modules[i][3] <= k - 3
    BY RowIs, TableShape
  <2>1. modules[i][3] <= scan.at - 2
    BY <1>4 DEF ScanInv
  <2>2. scan.at - 2 = k - 3
    BY ONLY <1>0, <1>1
  <2> QED BY ONLY <2>1, <2>2
<1>a. \A i \in 1..Len(modules) : modules'[i] = modules[i] /\ modules[i][3] \in Nat /\ modules[i][3] <= k - 3
  <2> SUFFICES ASSUME NEW i \in 1..Len(modules) PROVE modules[i][3] \in Nat
    BY <1>4, <1>7
  <2>1. modules[i][1] \in Nat /\ modules[i][3] = modules[i][1] + 2
    BY <1>7
  <2> QED BY ONLY <2>1
<1>8. \A m : (IsModule(m)' <=> IsModule(m)) /\ (BehindBroken(m)' <=> BehindBroken(m))
  BY DEF IsModule, BehindBroken
<1>9. ASSUME NEW i \in DOMAIN modules' PROVE IsFound(i)'
  <2>1. CASE i = last
    <3>1. IsModule(k - 2)
      <4>1. k - 2 + 2 \in DOMAIN space
        BY ONLY <1>1
      <4>2. ASSUME NEW n \in 1..3 PROVE space[k - 2 + n - 1] = Parts[n]
        <5>1. n = 1 \/ n = 2 \/ n = 3
          OBVIOUS
        <5>2. k - 2 + 1 - 1 = k - 2 /\ k - 2 + 2 - 1 = k - 1 /\ k - 2 + 3 - 1 = k
          BY ONLY <1>1
        <5> QED BY <1>2, <5>1, <5>2, PartsAre
      <4> QED BY <4>1, <4>2 DEF IsModule
    <3>2. \A j \in 1..i-1 : modules'[j][3] < NewRow[1]
      <4> SUFFICES ASSUME NEW j \in 1..i-1 PROVE modules'[j][3] < NewRow[1]
        OBVIOUS
      <4>1. j \in 1..Len(modules)
        BY <1>4, <2>1
      <4>2. modules'[j] = modules[j] /\ modules[j][3] \in Nat /\ modules[j][3] <= k - 3
        BY ONLY <1>a, <4>1
      <4> QED BY ONLY <1>1, NewRow[1] = k - 2, <4>2
    <3>3. IsModule(k - 2)'
      BY ONLY <1>8, <3>1
    <3>4. modules'[i] = NewRow /\ NewRow = [j \in 1..3 |-> NewRow[1] + j - 1] /\ NewRow[1] = k - 2
      BY <1>4, <2>1 DEF IsRow
    <3>5. modules'[i][1] = k - 2 /\ modules'[i] = [j \in 1..3 |-> modules'[i][1] + j - 1]
      BY ONLY <3>4
    <3>6. \A j \in 1..i-1 : modules'[j][3] < modules'[i][1]
      BY ONLY <3>2, <3>4
    <3> QED BY ONLY <3>3, <3>5, <3>6 DEF IsFound, IsModule
  <2>2. CASE i # last
    <3>1. i \in 1..Len(modules) /\ \A j \in 1..i : j \in 1..Len(modules)
      BY <1>4, <2>2, SMTT(30)
    <3>2. modules'[i] = modules[i] /\ \A j \in 1..i-1 : modules'[j] = modules[j]
      BY <1>4, <3>1
    <3>3. IsFound(i)
      BY <1>7, <3>1
    <3> QED BY <1>8, <3>2, <3>3 DEF IsFound
  <2> QED BY <2>1, <2>2
<1>10. ASSUME NEW i \in DOMAIN modules' PROVE modules'[i][3] <= k
  <2>0. i \in 1..last
    BY <1>4, Zenon
  <2>1. CASE i = last
    <3>1. modules'[i] = NewRow /\ NewRow[3] = k
      BY <1>4, <2>1, Zenon
    <3> QED BY ONLY <1>1, <3>1
  <2>2. CASE i # last
    <3>1. i \in 1..Len(modules)
      BY ONLY <1>4, <2>0, <2>2
    <3>2. modules'[i] = modules[i] /\ modules[i][3] \in Nat /\ modules[i][3] <= k - 3
      BY ONLY <1>a, <3>1
    <3> QED BY ONLY <1>1, <3>2
  <2> QED BY <2>1, <2>2
<1>11. ASSUME NEW m \in DOMAIN space, IsModule(m), ~BehindBroken(m) PROVE Due(m)'
  <2>0. m \in Nat
    BY <1>1
  <2>1. m + 2 \in DOMAIN space /\ space[m] = "rx" /\ space[m+1] = "r" /\ space[m+2] = "rw"
    BY <2>0, <1>11, ModulesAre, SMTT(30)
  <2>2. /\ m = scan.at => 2 = 1
        /\ Scanned(m) => \E i \in DOMAIN modules : modules[i][1] = m
    BY <1>11 DEF ScanInv, Due
  <2>3. m # k
    BY <1>2, <2>1
  <2>4. m + 1 # k
    BY <1>0, <1>1, <2>0, <2>2, SMTT(30)
  <2>5. m + 2 <= k => \E i \in DOMAIN modules' : modules'[i][1] = m
    <3>1. CASE m + 2 = k
      <4>1. last \in DOMAIN modules' /\ modules'[last][1] = m
        <5>1. modules'[last] = NewRow /\ NewRow[1] = k - 2 /\ DOMAIN modules' = 1..last /\ Len(modules) \in Nat
          BY <1>4
        <5>2. k - 2 = m /\ last \in 1..last
          BY ONLY <1>1, <2>0, <3>1, <5>1
        <5> QED BY ONLY <5>1, <5>2
      <4> QED BY <4>1
    <3>2. CASE m + 2 <= scan.at
      <4>1. PICK i \in DOMAIN modules : modules[i][1] = m
        BY <2>2, <3>2 DEF Scanned
      <4>2. i \in DOMAIN modules' /\ modules'[i] = modules[i]
        BY <1>4
      <4> QED BY <4>1, <4>2
    <3>3. m + 2 <= k => m + 2 = k \/ m + 2 <= scan.at
      BY ONLY <1>0, <1>1, <2>0
    <3> QED BY <3>1, <3>2, <3>3
  <2> QED BY <1>5, <2>3, <2>4, <2>5 DEF Due, Scanned
<1>12. self' # -1 => modules'[self' + 1][1] = own'
  <2>1. CASE NewRow[1] = own
    BY <1>4, <2>1
  <2>2. CASE NewRow[1] # own
    <3>1. self' = self
      BY <2>2
    <3>2. self # -1 => self + 1 \in 1..Len(modules)
      BY ONLY ScanInv, TableShape
    <3> QED BY <1>4, <3>1, <3>2 DEF ScanInv
  <2> QED BY <2>1, <2>2
<1>13. \A i \in DOMAIN modules' : modules'[i][3] <= scan'.at - Len(scan'.begun)
  <2>1. scan'.at - Len(scan'.begun) = k
    BY ONLY <1>1, <1>5
  <2> QED BY ONLY <1>10, <2>1
<1>14. \A m \in DOMAIN space' : IsModule(m)' /\ ~BehindBroken(m)' => Due(m)'
  BY <1>8, <1>11
<1> QED BY ONLY <1>5, <1>6, <1>9, <1>12, <1>13, <1>14 DEF ScanInv

LEMMA ScanKeeps ==
  ASSUME ScanInv, Scan
  PROVE  ScanInv'
<1>1. UNCHANGED <<space, own>> /\ phase = "scan"
  BY DEF Scan, machine
<1>2. CASE TableFull
  BY <1>1, <1>2, ScanStays DEF Scan
<1>3. CASE ~TableFull
  <2> DEFINE k == NextRange
             begun == Begun(k)
  <2>1. Len(modules) < MaxModules
    BY <1>3, ModulesAssumption, Shapes, BegunIs DEF TableFull, ScanInv, ScanTypeOK
  <2>2. (phase' = phase /\ ~Wrapped(k)) \/ phase' \notin {"link", "scan"}
    BY <1>3 DEF Scan
  <2>3. CASE space[k] # Parts[Len(scan.begun) + 1]
    <3>1. begun = <<>>
      BY <2>3 DEF Begun
    <3>2. scan' = [at |-> k, begun |-> <<>>] /\ UNCHANGED <<modules, self>>
      BY <1>3, <3>1 DEF Scan, ScanRange
    <3> QED BY <1>1, <2>2, <2>3, <3>2, BrokenOff
  <2>4. CASE space[k] = Parts[Len(scan.begun) + 1] /\ Len(scan.begun) < 2
    <3>1. begun = Append(scan.begun, k) /\ Len(begun) < 3
      <4>1. begun = Append(scan.begun, k)
        BY <2>4 DEF Begun
      <4>2. scan.begun \in Seq(Nat) /\ k \in Nat /\ Len(scan.begun) \in Nat
        BY TableShape, Shapes, NextIs
      <4>3. Len(begun) = Len(scan.begun) + 1
        BY ONLY <4>1, <4>2, Appended
      <4> HIDE DEF begun
      <4> QED BY <2>4, <4>1, <4>2, <4>3
    <3>2. scan' = [at |-> k, begun |-> Append(scan.begun, k)] /\ UNCHANGED <<modules, self>>
      BY <1>3, <3>1 DEF Scan, ScanRange
    <3> QED BY <1>1, <2>2, <2>4, <3>2, GoesOn
  <2>5. CASE space[k] = Parts[Len(scan.begun) + 1] /\ Len(scan.begun) = 2
    <3>1. begun = NewRow /\ NewRow = Append(scan.begun, k)
      BY <2>5 DEF Begun, NewRow
    <3>2. k = NextRange /\ k \in Nat /\ scan.at - 1 = k - 2 /\ scan.at = k - 1
      BY <2>5, Shapes, NextIs, PartsAre
    <3>3. scan.begun \in Seq(Nat) /\ scan.begun[1] = k - 2 /\ scan.begun[2] = k - 1
      BY <2>5, <3>2, BegunIs, TableShape
    <3>4. Len(scan.begun) = 2 /\ space[k] = Parts[3]
      BY <2>5
    <3>5. ScanRange /\ ~(Len(NewRow) < 3)
            => /\ scan' = [at |-> k, begun |-> <<>>] /\ modules' = Append(modules, NewRow)
               /\ self' = IF NewRow[1] = own THEN Len(modules) ELSE self
      BY <3>1 DEF ScanRange
    <3> HIDE DEF begun, k
    <3>6. /\ NewRow \in Seq(Nat) /\ Len(NewRow) = 3 /\ NewRow[1] = k - 2 /\ NewRow[2] = k - 1
          /\ NewRow[3] = k /\ IsRow(NewRow)
      <4> DEFINE b == scan.begun
      <4>1. b \in Seq(Nat) /\ k \in Nat /\ Len(b) = 2 /\ b[1] = k - 2 /\ b[2] = k - 1
        BY ONLY <3>2, <3>3, <3>4
      <4>2. NewRow = Append(b, k)
        BY ONLY <3>1
      <4> HIDE DEF b
      <4>3. HasEnds(Append(b, k), k)
        BY ONLY <4>1, RowEnds
      <4>4. HasEnds(NewRow, k)
        BY ONLY <4>2, <4>3
      <4> QED BY ONLY <4>4 DEF HasEnds
    <3>7. /\ scan' = [at |-> k, begun |-> <<>>] /\ modules' = Append(modules, NewRow)
          /\ self' = IF NewRow[1] = own THEN Len(modules) ELSE self
      <4>1. ~(Len(NewRow) < 3)
        BY ONLY <3>6
      <4>2. ScanRange
        BY <1>3 DEF Scan
      <4> QED BY ONLY <4>1, <4>2, <3>5
    <3> QED BY ONLY ScanInv, <1>1, <2>1, <3>2, <3>4, <3>6, <3>7, ModuleEnds
  <2>6. Len(scan.begun) = 2 \/ Len(scan.begun) < 2
    <3>1. Len(scan.begun) \in {0, 1, 2}
      BY Shapes
    <3> QED BY ONLY <3>1
  <2> QED BY <2>3, <2>4, <2>5, <2>6, Zenon
<1> QED BY <1>2, <1>3

LEMMA NextScans == ScanInv /\ [Next]_vars => ScanInv'
<1> SUFFICES ASSUME ScanInv, [Next]_vars PROVE ScanInv'
  OBVIOUS
<1>1. CASE Scan
  BY <1>1, ScanKeeps
<1>2. ASSUME UNCHANGED <<scan, modules, self, space, own>>,
             phase' = phase \/ phase' \notin {"link", "scan"} \/ phase = "link"
      PROVE  ScanInv'
  BY <1>2, ScanStays
<1>3. CASE LinkModule \/ StartInit \/ SetRegions \/ SetVirtmem \/ InitPatcherImpl \/ Main
  BY <1>2, <1>3 DEF LinkModule, StartInit, SetRegions, SetVirtmem, InitPatcherImpl, Main, layout, machine
<1>4. CASE Over \/ UNCHANGED vars
  BY <1>2, <1>4 DEF Over, vars, layout, machine
<1>5. ASSUME NEW t \in Threads, Ask(t) \/ GetStep(t) PROVE ScanInv'
  BY <1>2, <1>5 DEF Ask, GetStep, layout, machine
<1>6. ASSUME NEW t \in Callers, MakeCall(t) PROVE ScanInv'
  BY <1>2, <1>6 DEF MakeCall, layout, machine
<1> QED BY <1>1, <1>3, <1>4, <1>5, <1>6 DEF Next, BootStep

-----------------------------------------------------------------------------
(* The regions.                                                            *)

RegionsInv ==
  LET unset == \A n \in Names : virtmem[n].end = 0
  IN /\ phase \in {"link", "scan", "regions", "virtmem"} => unset
     /\ phase = "virtmem" => regions = [n \in Names |-> Found(n)]
     /\ unset \/ (/\ regions = [n \in Names |-> Found(n)]
                  /\ virtmem = [n \in Names |-> IF Exposes(n) THEN InitWithInfo(n) ELSE Hardcoded(n)])

LEMMA RegionsStart == Init => RegionsInv
  BY DEF Init, LayoutInit, RegionsInv

LEMMA RegionsStay ==
  ASSUME RegionsInv, UNCHANGED <<regions, virtmem, kernel>>,
         \/ phase' = phase \/ phase' \notin {"link", "scan", "regions", "virtmem"}
         \/ (phase \in {"link", "scan"} /\ phase' \in {"scan", "regions"})
  PROVE  RegionsInv'
<1>1. \A n : Found(n)' = Found(n) /\ Exposes(n)' = Exposes(n) /\ InitWithInfo(n)' = InitWithInfo(n)
             /\ Hardcoded(n)' = Hardcoded(n)
  BY DEF Found, Exposes, InitWithInfo, Hardcoded, InferredRange, Inferred, KernelRegion
<1> QED BY <1>1 DEF RegionsInv

LEMMA NextSetsRegions == RegionsInv /\ [Next]_vars => RegionsInv'
<1> SUFFICES ASSUME RegionsInv, [Next]_vars PROVE RegionsInv'
  OBVIOUS
<1>1. UNCHANGED kernel
  BY DEF Next, BootStep, LinkModule, StartInit, Scan, SetRegions, SetVirtmem, InitPatcherImpl, Main, Over, Ask,
         GetStep, MakeCall, vars, machine
<1>2. \A n : Found(n)' = Found(n) /\ Exposes(n)' = Exposes(n) /\ InitWithInfo(n)' = InitWithInfo(n)
             /\ Hardcoded(n)' = Hardcoded(n)
  BY <1>1 DEF Found, Exposes, InitWithInfo, Hardcoded, InferredRange, Inferred, KernelRegion
<1>3. CASE SetRegions
  BY <1>2, <1>3, <1>1 DEF SetRegions, FindRegions, RegionsInv
<1>4. CASE SetVirtmem
  BY <1>2, <1>4, <1>1 DEF SetVirtmem, VirtmemSetup, RegionsInv
<1>5. CASE LinkModule \/ StartInit \/ Scan \/ InitPatcherImpl \/ Main
  BY <1>1, <1>5, RegionsStay DEF LinkModule, StartInit, Scan, InitPatcherImpl, Main, layout
<1>6. CASE Over \/ UNCHANGED vars
  BY <1>1, <1>6, RegionsStay DEF Over, vars, layout
<1>7. ASSUME NEW t \in Threads, Ask(t) \/ GetStep(t) PROVE RegionsInv'
  BY <1>1, <1>7, RegionsStay DEF Ask, GetStep, layout
<1>8. ASSUME NEW t \in Callers, MakeCall(t) PROVE RegionsInv'
  BY <1>1, <1>8, RegionsStay DEF MakeCall, layout
<1> QED BY <1>3, <1>4, <1>5, <1>6, <1>7, <1>8 DEF Next, BootStep

LEMMA InvIsLayout == ScanInv /\ RegionsInv => LayoutSound
<1> SUFFICES ASSUME ScanInv, RegionsInv PROVE LayoutSound
  OBVIOUS
<1>1. LayoutTypeOK
  BY DEF ScanInv, ScanTypeOK, LayoutTypeOK
<1>2. ModulesFound
  BY <1>1 DEF ModulesFound, ScanInv, IsFound, Due
<1>3. ASSUME NEW n \in Names, virtmem[n].end # 0
      PROVE  /\ regions[n].start = virtmem[n].start
             /\ regions[n].start + regions[n].size
                  = virtmem[n].end + (IF Exposes(n) THEN 0 ELSE virtmem[n].start)
  <2>1. regions[n] = Found(n) /\ virtmem[n] = IF Exposes(n) THEN InitWithInfo(n) ELSE Hardcoded(n)
    BY <1>3 DEF RegionsInv
  <2>2. CASE Exposes(n)
    <3>1. KernelRegion[n].start \in Int /\ KernelRegion[n].size \in Int
      BY <1>3 DEF KernelRegion, Names
    <3>2. /\ regions[n] = KernelRegion[n]
          /\ virtmem[n] = [start |-> KernelRegion[n].start, end |-> KernelRegion[n].start + KernelRegion[n].size]
      BY <2>1, <2>2 DEF Found, InitWithInfo
    <3> QED BY <2>2, <3>1, <3>2
  <2>3. CASE ~Exposes(n)
    <3>1. n \in {"aslr", "stack"}
      BY <2>3 DEF Exposes, Names
    <3>2. Inferred[n].low \in Int /\ Inferred[n].high \in Int
      BY <3>1 DEF Inferred
    <3>3. /\ regions[n] = [start |-> Inferred[n].low, size |-> Inferred[n].high]
          /\ virtmem[n] = [start |-> Inferred[n].low, end |-> Inferred[n].high]
      BY <2>1, <2>3 DEF Found, Hardcoded, InferredRange
    <3> QED BY <2>3, <3>2, <3>3
  <2> QED BY <2>2, <2>3
<1> QED BY <1>2, <1>3 DEF LayoutSound, RegionsAgree

(* In every address space that a kernel may report, the modules found are  *)
(* modules of the process, whole, in order and all of those that do not    *)
(* follow on one broken off; and mem_layout.cpp and virtmem.c look for     *)
(* addresses in the same regions (FindModules, FindRegions, virtmemSetup). *)
THEOREM LayoutIsSound == Spec => []LayoutSound
<1>1. Spec => []ScanInv
  BY ScanStarts, NextScans, PTL DEF Spec
<1>2. Spec => []RegionsInv
  BY RegionsStart, NextSetsRegions, PTL DEF Spec
<1> QED BY <1>1, <1>2, InvIsLayout, PTL
-----------------------------------------------------------------------------
(* The linker.  LinkInv says of each module how far its object, its words  *)
(* and its slots are, and of each call what its address is to be.          *)
Untouched == {"loaded", "initialized"}

(* What a call through a slot is to arrive at.                             *)
Arrives(m, e) ==
  IF Resolvable(m, e) THEN Meaning(m, Symbol(m, e)) + (IF object[m].isRela THEN e.addend ELSE 0) ELSE 0

Places == UNION {{Base(m) + o : o \in DOMAIN Image(m).words} : m \in Modules}

LinkTypeOK ==
  /\ program \in Programs /\ lazy \in BOOLEAN /\ asserted \in BOOLEAN /\ loader \in {"game", "self"}
  /\ stage \in [Modules -> {"loaded", "initialized", "relocated", "resolved"}]
  /\ object \in [Modules -> [isRela : BOOLEAN, pltSize : Int, got : Int, owner : Int, stub : Int,
                             relSize : Int, relaSize : Int, relCount : Int, relaCount : Int]]
  /\ word \in [Places -> Int]
  /\ DOMAIN call = Callers

(* A module's object says what its dynamic section does, from when that    *)
(* was read; a program that links itself has none.                         *)
ObjectRead(m) ==
  IF loader = "self" \/ stage[m] = "loaded" THEN object[m] = Cleared
  ELSE /\ object[m].isRela = (Value(Image(m), "PLTREL", "REL") = "RELA")
       /\ object[m].pltSize = Value(Image(m), "PLTRELSZ", 0)
       /\ object[m].got = IF Tagged(Image(m), "PLTGOT") = <<>> THEN 0 ELSE Base(m) + Value(Image(m), "PLTGOT", 0)
       /\ object[m].relSize = Value(Image(m), "RELSZ", 0) /\ object[m].relaSize = Value(Image(m), "RELASZ", 0)
       /\ object[m].relCount = Value(Image(m), "RELCOUNT", 0)
       /\ object[m].relaCount = Value(Image(m), "RELACOUNT", 0)

ObjectIs(m) ==
  /\ ObjectRead(m)
  /\ loader = "self" => stage[m] \in {"loaded", "resolved"}
  /\ stage[m] = "resolved" /\ loader = "game" /\ Range(Image(m).plt) # {} => object[m].owner = m

(* A word of a module is as it was loaded until the step that is to set it.*)
WordsAre(m) ==
  \A e \in Range(Image(m).table) :
    word[Target(m, e)] = IF stage[m] \in Untouched \/ (stage[m] = "relocated" /\ e.type # "relative")
                         THEN Was(m, e) ELSE Asked(m, e)

(* A slot sends its calls to the stub, of which a module has one, or on.   *)
SlotsAre(m) ==
  \A e \in Range(Image(m).plt) :
    IF stage[m] # "resolved" \/ loader = "self" THEN word[Target(m, e)] = Was(m, e)
    ELSE /\ Base(m) + Was(m, e) = object[m].stub
         /\ \/ OddSlot(m, e)
            \/ word[Target(m, e)] = object[m].stub /\ (lazy \/ ~Resolvable(m, e))
            \/ word[Target(m, e)] = Arrives(m, e)

ModuleIs(m) == ObjectIs(m) /\ WordsAre(m) /\ SlotsAre(m)

(* A call through a slot of m.                                             *)
Call(pc, m, e, a) ==
  [pc |-> pc, module |-> m, entry |-> e, slot |-> Target(m, e), address |-> a, regs |-> "kept"]
Calling(t, pc, m, e, a) == call[t] = Call(pc, m, e, a)

(* A call is bound to what its slot means, and has arrived there, or where *)
(* the slot, not bound or an odd one, sent it.                             *)
CallInv ==
  \A t \in Callers :
    \/ call[t] = Idle
    \/ /\ Linked /\ ~asserted
       /\ \E pc \in {"bind", "store", "branch", "arrived"}, m \in Modules, a \in Int : \E e \in JumpSlots(m) :
            /\ Calling(t, pc, m, e, a)
            /\ pc \in {"store", "branch"} => a = Arrives(m, e)
            /\ pc = "arrived" => OddSlot(m, e) \/ a = Arrives(m, e)

LinkInv == LinkTypeOK /\ (\A m \in Modules : ModuleIs(m)) /\ CallInv

-----------------------------------------------------------------------------
(* A set of numbers that is not empty has a least one.                     *)
LEMMA LeastNumber ==
  ASSUME NEW T, T \subseteq Nat, T # {}
  PROVE  \E m \in T : \A k \in T : m <= k
<1> DEFINE R == StrictSubsetOrdering(Nat)
<1> DEFINE U == {1..n : n \in T}
<1>1. IsWellFoundedOn(R, FiniteSubsetsOf(Nat))
  BY FS_StrictSubsetOrderingWellFounded
<1>2. U \subseteq FiniteSubsetsOf(Nat) /\ U # {}
  <2>1. ASSUME NEW n \in Nat PROVE 1..n \in FiniteSubsetsOf(Nat)
    <3>1. IsFiniteSet(1..n)
      BY FS_Interval
    <3>2. 1..n \subseteq Nat
      OBVIOUS
    <3> QED BY <3>1, <3>2 DEF FiniteSubsetsOf
  <2> QED BY <2>1
<1>3. \E x \in U : \A y \in U : ~ (<<y, x>> \in R)
  <2> HIDE DEF R, U
  <2> QED BY <1>1, <1>2, WFMin, Zenon
<1>4. PICK m \in T : \A k \in T : ~ (<<1..k, 1..m>> \in R)
  BY <1>3
<1>5. ASSUME NEW k \in T, k < m PROVE FALSE
  <2> k \in Nat /\ m \in Nat
    OBVIOUS
  <2>1. m \in 1..m /\ m \notin 1..k
    BY <1>5
  <2>2. 1..k \subseteq 1..m
    BY <1>5
  <2>3. <<1..k, 1..m>> \in R
    BY <2>1, <2>2 DEF StrictSubsetOrdering
  <2> QED BY <1>4, <2>3
<1>6. \A k \in T : m <= k
  BY <1>5
<1> QED BY <1>6

-----------------------------------------------------------------------------
LEMMA LoadedWell ==
  ASSUME program \in Programs
  PROVE  /\ WellLoaded(program)
         /\ \A m \in Modules : WellMade(Image(m)) /\ m \in Nat
<1>1. WellLoaded(program)
  BY ProgramsAssumption
<1>2. \A m \in Modules : WellMade(Image(m))
  BY <1>1 DEF WellLoaded, Modules, Image
<1>3. \A m \in Modules : m \in Nat
  BY <1>1 DEF WellLoaded, Modules
<1> QED BY <1>1, <1>2, <1>3

(* Every module loaded is one that tools make.                             *)
LEMMA Loaded ==
  ASSUME LinkTypeOK
  PROVE  /\ WellLoaded(program)
         /\ \A m \in Modules : WellMade(Image(m)) /\ m \in Nat
BY LoadedWell DEF LinkTypeOK

(* Every entry has a word of its own.                                      *)
LEMMA Apart ==
  ASSUME LinkTypeOK, NEW m \in Modules, NEW e \in Entries(Image(m))
  PROVE  /\ Target(m, e) \in Places
         /\ \A n \in Modules : \A f \in Entries(Image(n)) : Target(m, e) = Target(n, f) => m = n /\ e = f
<1>1. e.offset \in DOMAIN Image(m).words
  BY Loaded DEF WellMade, HasEntries
<1>2. Target(m, e) \in Places
  BY <1>1 DEF Places, Target
<1>3. ASSUME NEW n \in Modules, NEW f \in Entries(Image(n)), Target(m, e) = Target(n, f)
      PROVE  m = n /\ e = f
  <2>1. f.offset \in DOMAIN Image(n).words
    BY Loaded DEF WellMade, HasEntries
  <2>2. m = n
    BY <1>1, <1>3, <2>1, Loaded DEF WellLoaded, Target, Base, Image, Modules
  <2>3. e.offset = f.offset
    <3>1. WellMade(Image(m))
      BY Loaded
    <3>2. Base(m) \in Nat /\ e.offset \in Nat /\ f.offset \in Nat
      BY <3>1, <1>1, <2>1, <2>2 DEF WellMade, Base
    <3> QED BY <3>2, <2>2, <1>3 DEF Target
  <2>4. e = f
    BY <2>2, <2>3, Loaded DEF WellMade, HasEntries
  <2> QED BY <2>2, <2>4
<1> QED BY <1>2, <1>3

(* Setting words sets those that are asked for, and no other.              *)
LEMMA Placing ==
  ASSUME LinkTypeOK, NEW m \in Modules, NEW to, DOMAIN to \subseteq Entries(Image(m)),
         \A e \in DOMAIN to : to[e] \in Int
  PROVE  /\ Placed(m, to) \in [Places -> Int]
         /\ \A e \in DOMAIN to : Placed(m, to)[Target(m, e)] = to[e]
         /\ \A e \in Entries(Image(m)) \ DOMAIN to : Placed(m, to)[Target(m, e)] = word[Target(m, e)]
         /\ \A n \in Modules \ {m} : \A e \in Entries(Image(n)) :
              Placed(m, to)[Target(n, e)] = word[Target(n, e)]
<1> DEFINE Asking(a) == {e \in DOMAIN to : Target(m, e) = a}
<1>1. DOMAIN word = Places /\ \A a \in Places : word[a] \in Int
  BY DEF LinkTypeOK
<1>2. Placed(m, to) = [a \in Places |-> IF Asking(a) = {} THEN word[a] ELSE to[CHOOSE e \in Asking(a) : TRUE]]
  BY <1>1 DEF Placed
<1>3. Placed(m, to) \in [Places -> Int]
  <2> SUFFICES ASSUME NEW a \in Places, Asking(a) # {}
               PROVE  to[CHOOSE e \in Asking(a) : TRUE] \in Int
    BY <1>1, <1>2
  <2>1. (CHOOSE e \in Asking(a) : TRUE) \in Asking(a)
    OBVIOUS
  <2> QED BY <2>1
<1>4. ASSUME NEW e \in DOMAIN to PROVE Placed(m, to)[Target(m, e)] = to[e]
  <2>1. Target(m, e) \in Places
    BY Apart
  <2>2. Asking(Target(m, e)) = {e}
    BY Apart
  <2>3. Placed(m, to)[Target(m, e)] = to[CHOOSE f \in {e} : TRUE]
    BY <1>2, <2>1, <2>2
  <2> QED BY <2>3
<1>5. ASSUME NEW n \in Modules, NEW e \in Entries(Image(n)), n # m \/ e \notin DOMAIN to
      PROVE  Placed(m, to)[Target(n, e)] = word[Target(n, e)]
  <2>1. Target(n, e) \in Places
    BY Apart
  <2>2. Asking(Target(n, e)) = {}
    <3> SUFFICES ASSUME NEW f \in DOMAIN to, Target(m, f) = Target(n, e) PROVE FALSE
      OBVIOUS
    <3>1. f \in Entries(Image(m))
      OBVIOUS
    <3> QED BY Apart, <1>5, <3>1
  <2> QED BY <1>2, <2>1, <2>2
<1> QED BY <1>3, <1>4, <1>5

-----------------------------------------------------------------------------
(* The first symbol of the chain with a name is the one that has it.       *)
LEMMA Chained ==
  ASSUME LinkTypeOK, NEW m \in Modules, NEW name
  PROVE  /\ SymbolByName(m, name) = Exported(m, name)
         /\ \A d, f \in Exported(m, name) : d = f
         /\ \A d \in Exported(m, name) : d.value \in Nat
<1> DEFINE symbols == Image(m).symbols
           chain == Image(m).chain
           named == {i \in DOMAIN symbols : symbols[i].bind # "local"}
           found == {k \in DOMAIN chain : symbols[chain[k]].section = "defined" /\ symbols[chain[k]].name = name}
<1>1. HasSymbols(Image(m))
  BY Loaded DEF WellMade
<1>2. ASSUME NEW d \in Exported(m, name)
      PROVE  \E k \in found : symbols[chain[k]] = d
  <2>1. PICK i \in DOMAIN symbols : symbols[i] = d
    BY DEF Exported, Range
  <2>2. i \in named
    BY <2>1 DEF Exported
  <2>3. PICK k \in DOMAIN chain : chain[k] = i
    BY <1>1, <2>2 DEF HasSymbols, Range
  <2> QED BY <2>1, <2>3 DEF Exported
<1>3. ASSUME NEW k \in found
      PROVE  symbols[chain[k]] \in Exported(m, name)
  <2>1. chain[k] \in named
    BY <1>1 DEF HasSymbols, Range
  <2> QED BY <2>1 DEF Exported, Range
<1>4. ASSUME NEW k \in found, NEW l \in found PROVE symbols[chain[k]] = symbols[chain[l]]
  <2>1. chain[k] \in named /\ chain[l] \in named
    BY <1>1 DEF HasSymbols, Range
  <2> QED BY <1>1, <2>1 DEF HasSymbols
<1>5. \A d, f \in Exported(m, name) : d = f
  BY <1>2, <1>4
<1>6. \A d \in Exported(m, name) : d.value \in Nat
  BY <1>1 DEF HasSymbols, Exported
<1>7. found # {} => \E k \in found : \A l \in found : k <= l
  <2>1. found \subseteq Nat
    BY <1>1 DEF HasSymbols
  <2> HIDE DEF found
  <2> QED BY <2>1, LeastNumber
<1>8. SymbolByName(m, name) = {symbols[chain[k]] : k \in {k \in found : \A l \in found : k <= l}}
  BY DEF SymbolByName
<1>9. SymbolByName(m, name) = Exported(m, name)
  <2> HIDE DEF found
  <2>1. SymbolByName(m, name) \subseteq Exported(m, name)
    BY <1>8, <1>3
  <2>2. ASSUME NEW d \in Exported(m, name) PROVE d \in SymbolByName(m, name)
    <3>1. PICK k \in found : \A l \in found : k <= l
      BY <1>2, <1>7
    <3>2. symbols[chain[k]] = d
      BY <1>3, <1>5
    <3> QED BY <1>8, <3>1, <3>2
  <2> QED BY <2>1, <2>2
<1> QED BY <1>5, <1>6, <1>9

(* An exported name has one address, and it is not zero.                   *)
LEMMA OneAddress ==
  ASSUME LinkTypeOK, NEW m \in Modules, NEW name, Exported(m, name) # {}
  PROVE  LET a == Base(m) + (CHOOSE d \in Exported(m, name) : TRUE).value
         IN a \in Nat \ {0} /\ AddressesIn(m, Exported(m, name)) = {a}
<1> DEFINE d == CHOOSE d \in Exported(m, name) : TRUE
<1>1. d \in Exported(m, name)
  OBVIOUS
<1> HIDE DEF d
<1>2. Exported(m, name) = {d} /\ d.value \in Nat
  BY <1>1, Chained
<1>3. Base(m) \in Nat \ {0}
  BY Loaded DEF WellMade, Base
<1>4. AddressesIn(m, {d}) = {Base(m) + d.value}
  BY DEF AddressesIn
<1>5. Base(m) + d.value \in Nat \ {0}
  BY <1>2, <1>3
<1> QED BY <1>2, <1>4, <1>5 DEF d

(* The search finds what a name means, or nothing, or the zero of a hidden *)
(* weak one.                                                               *)
LEMMA SearchFinds ==
  ASSUME LinkTypeOK, NEW m \in Modules, NEW s \in Range(Image(m).symbols)
  PROVE  /\ Meaning(m, s) \in Nat
         /\ TryResolveSymbol(m, s) = IF Meaning(m, s) # 0 THEN {Meaning(m, s)}
                                     ELSE IF s.hidden /\ s.bind = "weak" THEN {0} ELSE {}
<1> DEFINE with == {n \in IF s.hidden THEN {m} ELSE Modules : Exported(n, s.name) # {}}
           near == CHOOSE n \in with : \A o \in with : n <= o
<1>1. s.hidden \in BOOLEAN
  BY Loaded DEF WellMade, HasSymbols
<1>2. Meaning(m, s) =
        IF with # {} THEN Base(near) + (CHOOSE d \in Exported(near, s.name) : TRUE).value
        ELSE IF ~s.hidden /\ s.name \in DOMAIN program.manual THEN program.manual[s.name] ELSE 0
  BY DEF Meaning
<1>3. with \subseteq Modules /\ with \subseteq Nat
  BY Loaded
<1>4. with # {} => near \in with
  <2> HIDE DEF with
  <2> QED BY <1>3, LeastNumber
<1>5. \A n \in Modules : AddressesIn(n, {}) = {}
  BY DEF AddressesIn
<1>6. CASE s.hidden
  <2>1. with = IF Exported(m, s.name) # {} THEN {m} ELSE {}
    BY <1>6
  <2>2. TryResolveSymbol(m, s) = IF Exported(m, s.name) = {} /\ s.bind = "weak" THEN {0}
                                 ELSE AddressesIn(m, Exported(m, s.name))
    BY <1>6, Chained DEF TryResolveSymbol
  <2>3. CASE Exported(m, s.name) = {}
    <3>1. Meaning(m, s) = 0
      BY <1>2, <1>6, <2>1, <2>3
    <3> QED BY <3>1, <2>2, <2>3, <1>5, <1>6
  <2>4. CASE Exported(m, s.name) # {}
    <3>1. near = m
      BY <1>4, <2>1, <2>4
    <3>2. Meaning(m, s) = Base(m) + (CHOOSE d \in Exported(m, s.name) : TRUE).value
      <4> HIDE DEF near
      <4> QED BY <1>2, <2>1, <2>4, <3>1
    <3> QED BY <2>2, <2>4, <3>2, OneAddress
  <2> QED BY <2>3, <2>4
<1>7. CASE ~s.hidden
  <2>1. with = {n \in Modules : Exported(n, s.name) # {}}
    BY <1>7
  <2>2. ASSUME NEW n \in Modules
        PROVE  {x \in SymbolByName(n, s.name) : x.bind # "local"} = Exported(n, s.name)
    BY Chained DEF Exported
  <2>3. LookupGlobalAuto(s.name) = IF with = {} THEN {} ELSE AddressesIn(near, Exported(near, s.name))
    <3>1. {n \in Modules : {x \in SymbolByName(n, s.name) : x.bind # "local"} # {}} = with
      BY <2>1, <2>2
    <3>2. LookupGlobalAuto(s.name) =
            IF with = {} THEN {} ELSE AddressesIn(near, {x \in SymbolByName(near, s.name) : x.bind # "local"})
      <4> DEFINE looked == {n \in Modules : {x \in SymbolByName(n, s.name) : x.bind # "local"} # {}}
                 first(W) == CHOOSE n \in W : \A o \in W : n <= o
      <4>1. LookupGlobalAuto(s.name) =
              IF looked = {} THEN {}
              ELSE AddressesIn(first(looked), {x \in SymbolByName(first(looked), s.name) : x.bind # "local"})
        BY DEF LookupGlobalAuto
      <4>2. looked = with
        BY <3>1
      <4>3. near = first(with)
        OBVIOUS
      <4> HIDE DEF looked, with, near, first
      <4> QED BY <4>1, <4>2, <4>3
    <3> QED BY <3>2, <2>2, <1>3, <1>4
  <2>4. TryResolveSymbol(m, s) = IF LookupGlobalAuto(s.name) # {} THEN LookupGlobalAuto(s.name)
                                 ELSE LookupGlobalManual(s.name)
    BY <1>7 DEF TryResolveSymbol
  <2>5. CASE with = {}
    <3>1. s.name \in DOMAIN program.manual => program.manual[s.name] \in Nat \ {0}
      BY Loaded DEF WellLoaded
    <3>2. TryResolveSymbol(m, s) = IF s.name \in DOMAIN program.manual THEN {program.manual[s.name]} ELSE {}
      BY <2>3, <2>4, <2>5 DEF LookupGlobalManual
    <3>3. Meaning(m, s) = IF s.name \in DOMAIN program.manual THEN program.manual[s.name] ELSE 0
      BY <1>2, <1>7, <2>5
    <3> QED BY <3>1, <3>2, <3>3, <1>7
  <2>6. CASE with # {}
    <3>1. near \in Modules /\ Exported(near, s.name) # {}
      BY <1>3, <1>4, <2>6
    <3> HIDE DEF near, with
    <3>2. Meaning(m, s) = Base(near) + (CHOOSE d \in Exported(near, s.name) : TRUE).value
      BY <1>2, <2>6
    <3>3. Meaning(m, s) \in Nat \ {0} /\ AddressesIn(near, Exported(near, s.name)) = {Meaning(m, s)}
      BY <3>1, <3>2, OneAddress
    <3> QED BY <2>3, <2>4, <2>6, <3>3
  <2> QED BY <2>5, <2>6
<1> QED BY <1>1, <1>6, <1>7

-----------------------------------------------------------------------------
(* The passes over a table reach its relative entries, and then the others.*)
LEMMA TableIs ==
  ASSUME LinkTypeOK, NEW m \in Modules, NEW size, NEW count, NEW entry, NEW each \in {RelSize, RelaSize},
         HasTable(Image(m), size, count, each), Value(Image(m), entry, each) = each
  PROVE  LET all == Range(Image(m).table)
             n == Value(Image(m), count, 0)
         IN /\ Relative(First(m, n)) = Relative(all)
            /\ Relative(First(m, Count(m, count, size, entry, each))) = Relative(all)
            /\ {e \in After(m, n, Value(Image(m), size, 0), each) : e.type \in {"absolute", "globdat"}}
                 = all \ Relative(all)
            /\ all # {} => Value(Image(m), size, 0) > 0
<1> DEFINE table == Image(m).table
           all == Range(table)
           n == Value(Image(m), count, 0)
           total == Value(Image(m), size, 0)
           last == total \div each
<1>1. total \in Nat /\ DOMAIN table = 1..last /\ n \in 0..last
  BY DEF HasTable
<1>2. \A i \in 1..last : table[i].type = "relative" <=> i <= n
  BY <1>1 DEF HasTable
<1>3. last \in Nat /\ (total = 0 => last = 0)
  BY <1>1 DEF RelSize, RelaSize
<1>4. \A e \in all : e.type \in {"relative", "absolute", "globdat"}
  BY Loaded DEF WellMade, HasEntries
<1>5. Count(m, count, size, entry, each) = IF n = 0 THEN last ELSE n
  BY DEF Count
<1>6. /\ First(m, n) = {table[i] : i \in 1..n}
      /\ First(m, last) = {table[i] : i \in 1..last}
      /\ After(m, n, total, each) = {table[i] : i \in n + 1..last}
  BY DEF First, After
<1>7. all = {table[i] : i \in 1..last}
  BY <1>1 DEF Range
<1> HIDE DEF table, all, n, total, last
<1>8. Relative(First(m, n)) = Relative(all)
  BY <1>1, <1>2, <1>3, <1>6, <1>7 DEF Relative
<1>9. Relative(First(m, last)) = Relative(all)
  BY <1>6, <1>7
<1>10. {e \in After(m, n, total, each) : e.type \in {"absolute", "globdat"}} = all \ Relative(all)
  <2>1. ASSUME NEW e \in After(m, n, total, each) PROVE e \in all /\ e.type # "relative"
    <3>1. PICK i \in n + 1..last : e = table[i]
      BY <1>6
    <3>2. i \in 1..last /\ ~(i <= n)
      BY <1>1, <1>3
    <3> QED BY <3>1, <3>2, <1>2, <1>7
  <2>2. ASSUME NEW e \in all, e.type # "relative" PROVE e \in After(m, n, total, each)
    <3>1. PICK i \in 1..last : e = table[i]
      BY <1>7
    <3>2. i \in n + 1..last
      BY <1>1, <1>2, <1>3, <2>2, <3>1
    <3> QED BY <3>1, <3>2, <1>6
  <2> QED BY <2>1, <2>2, <1>4 DEF Relative
<1>11. all # {} => total > 0
  <2> SUFFICES ASSUME total = 0 PROVE all = {}
    BY <1>1
  <2>1. last = 0
    BY <1>3
  <2> QED BY <2>1, <1>7
<1> QED BY <1>5, <1>8, <1>9, <1>10, <1>11 DEF table, all, n, total, last

(* A table that is not there has no entries for either pass.               *)
LEMMA NoTable ==
  ASSUME NEW m \in Modules, NEW size, NEW count, NEW entry, NEW each \in {RelSize, RelaSize},
         HasNone(Image(m), size, count), Value(Image(m), entry, each) = each
  PROVE  LET n == Value(Image(m), count, 0)
         IN /\ First(m, n) = {} /\ First(m, Count(m, count, size, entry, each)) = {}
            /\ After(m, n, Value(Image(m), size, 0), each) = {}
            /\ ~(Value(Image(m), size, 0) > 0)
<1>1. Value(Image(m), size, 0) = 0 /\ Value(Image(m), count, 0) = 0
  BY DEF HasNone
<1>2. 0 \div each = 0
  BY DEF RelSize, RelaSize
<1>3. Count(m, count, size, entry, each) = 0
  BY <1>1, <1>2 DEF Count
<1>4. First(m, 0) = {}
  BY DEF First
<1>5. After(m, 0, 0, each) = {}
  BY <1>2 DEF After
<1> QED BY <1>1, <1>3, <1>4, <1>5

Others(m) == Range(Image(m).table) \ Relative(Range(Image(m).table))

(* A module's counts, and the counts it is given when it links itself.     *)
Counted(m, rels, relas) ==
  \/ rels = Value(Image(m), "RELCOUNT", 0) /\ relas = Value(Image(m), "RELACOUNT", 0)
  \/ /\ rels = Count(m, "RELCOUNT", "RELSZ", "RELENT", RelSize)
     /\ relas = Count(m, "RELACOUNT", "RELASZ", "RELAENT", RelaSize)

LEMMA TablesAre ==
  ASSUME LinkTypeOK, NEW m \in Modules
  PROVE  LET relative == Relative(Range(Image(m).table))
             sum == Value(Image(m), "RELSZ", 0)
         IN /\ \A rels, relas : Counted(m, rels, relas) =>
                 /\ Relative(First(m, rels)) \cup Relative(First(m, relas)) = relative
                 /\ \A e \in relative : e \in Relative(First(m, rels)) <=> sum > 0
            /\ {e \in After(m, Value(Image(m), "RELCOUNT", 0), sum, RelSize)
                       \cup After(m, Value(Image(m), "RELACOUNT", 0), Value(Image(m), "RELASZ", 0), RelaSize) :
                  e.type \in {"absolute", "globdat"}} = Others(m)
<1>1. Value(Image(m), "RELENT", RelSize) = RelSize /\ Value(Image(m), "RELAENT", RelaSize) = RelaSize
  BY Loaded DEF WellMade
<1>2. Relative({}) = {}
  BY DEF Relative
<1>3. Relative(Range(Image(m).table)) # {} => Range(Image(m).table) # {}
  BY DEF Relative
<1>4. RelSize \in {RelSize, RelaSize} /\ RelaSize \in {RelSize, RelaSize}
  OBVIOUS
<1>5. CASE HasTable(Image(m), "RELSZ", "RELCOUNT", RelSize) /\ HasNone(Image(m), "RELASZ", "RELACOUNT")
  <2> DEFINE relative == Relative(Range(Image(m).table))
             n == Value(Image(m), "RELCOUNT", 0)
             c == Count(m, "RELCOUNT", "RELSZ", "RELENT", RelSize)
             na == Value(Image(m), "RELACOUNT", 0)
             ca == Count(m, "RELACOUNT", "RELASZ", "RELAENT", RelaSize)
             sum == Value(Image(m), "RELSZ", 0)
             suma == Value(Image(m), "RELASZ", 0)
  <2>1. /\ Relative(First(m, n)) = relative /\ Relative(First(m, c)) = relative
        /\ {e \in After(m, n, sum, RelSize) : e.type \in {"absolute", "globdat"}} = Others(m)
        /\ Range(Image(m).table) # {} => sum > 0
    BY <1>1, <1>5, <1>4, TableIs DEF Others
  <2>2. First(m, na) = {} /\ First(m, ca) = {} /\ After(m, na, suma, RelaSize) = {}
    BY <1>1, <1>5, <1>4, NoTable
  <2>3. ASSUME NEW rels, NEW relas, Counted(m, rels, relas)
        PROVE  Relative(First(m, rels)) = relative /\ Relative(First(m, relas)) = {}
    BY <2>1, <2>2, <2>3, <1>2 DEF Counted
  <2> HIDE DEF relative, n, c, na, ca, sum, suma
  <2>4. {e \in After(m, n, sum, RelSize) \cup After(m, na, suma, RelaSize) : e.type \in {"absolute", "globdat"}}
          = Others(m)
    BY <2>1, <2>2
  <2> QED BY <2>1, <2>3, <2>4, <1>3 DEF relative, n, na, sum, suma
<1>6. CASE HasTable(Image(m), "RELASZ", "RELACOUNT", RelaSize) /\ HasNone(Image(m), "RELSZ", "RELCOUNT")
  <2> DEFINE relative == Relative(Range(Image(m).table))
             n == Value(Image(m), "RELCOUNT", 0)
             c == Count(m, "RELCOUNT", "RELSZ", "RELENT", RelSize)
             na == Value(Image(m), "RELACOUNT", 0)
             ca == Count(m, "RELACOUNT", "RELASZ", "RELAENT", RelaSize)
             sum == Value(Image(m), "RELSZ", 0)
             suma == Value(Image(m), "RELASZ", 0)
  <2>1. /\ Relative(First(m, na)) = relative /\ Relative(First(m, ca)) = relative
        /\ {e \in After(m, na, suma, RelaSize) : e.type \in {"absolute", "globdat"}} = Others(m)
    BY <1>1, <1>6, <1>4, TableIs DEF Others
  <2>2. First(m, n) = {} /\ First(m, c) = {} /\ After(m, n, sum, RelSize) = {} /\ ~(sum > 0)
    BY <1>1, <1>6, <1>4, NoTable
  <2>3. ASSUME NEW rels, NEW relas, Counted(m, rels, relas)
        PROVE  Relative(First(m, rels)) = {} /\ Relative(First(m, relas)) = relative
    BY <2>1, <2>2, <2>3, <1>2 DEF Counted
  <2> HIDE DEF relative, n, c, na, ca, sum, suma
  <2>4. {e \in After(m, n, sum, RelSize) \cup After(m, na, suma, RelaSize) : e.type \in {"absolute", "globdat"}}
          = Others(m)
    BY <2>1, <2>2
  <2> QED BY <2>2, <2>3, <2>4 DEF relative, n, na, sum, suma
<1> QED BY <1>5, <1>6, Loaded DEF WellMade

-----------------------------------------------------------------------------
(* The entries of a module, and what they come to.                         *)
LEMMA EntryIs ==
  ASSUME LinkTypeOK, NEW m \in Modules, NEW e \in Entries(Image(m))
  PROVE  /\ Meaning(m, Symbol(m, e)) \in Nat /\ Was(m, e) \in Int /\ e.addend \in Int /\ Added(m, e) \in Int
         /\ Base(m) \in Nat \ {0}
         /\ Addresses(m, e) = IF Resolvable(m, e) THEN {Meaning(m, Symbol(m, e))}
                              ELSE IF Symbol(m, e).hidden /\ Symbol(m, e).bind = "weak" THEN {0} ELSE {}
<1>1. HasEntries(Image(m)) /\ WellMade(Image(m))
  BY Loaded DEF WellMade
<1>2. Symbol(m, e) \in Range(Image(m).symbols)
  BY <1>1 DEF HasEntries, Symbol, Range
<1>3. Was(m, e) \in Int /\ e.addend \in Int
  BY <1>1 DEF HasEntries, WellMade, Was
<1>4. Added(m, e) \in Int
  BY <1>3 DEF Added
<1>5. Base(m) \in Nat \ {0}
  BY <1>1 DEF WellMade, Base
<1>6. Meaning(m, Symbol(m, e)) \in Nat
  BY <1>2, SearchFinds
<1>7. Addresses(m, e) = IF Resolvable(m, e) THEN {Meaning(m, Symbol(m, e))}
                        ELSE IF Symbol(m, e).hidden /\ Symbol(m, e).bind = "weak" THEN {0} ELSE {}
  BY <1>2, SearchFinds DEF Addresses, Resolvable
<1> QED BY <1>3, <1>4, <1>5, <1>6, <1>7

(* What tables and slots may ask for.                                      *)
LEMMA KindsOfEntries ==
  ASSUME LinkTypeOK, NEW m \in Modules
  PROVE  LET table == Range(Image(m).table)
             plt == Range(Image(m).plt)
         IN /\ Entries(Image(m)) = table \cup plt
            /\ \A e \in table : e.type \in {"relative", "absolute", "globdat"}
            /\ \A e \in plt : e.type = "jumpslot"
            /\ \A e \in plt : e \notin table
            /\ \A e \in plt : ~Resolvable(m, e) /\ Symbol(m, e).hidden => e.addend = 0
<1>1. WellMade(Image(m))
  BY Loaded
<1>2. \A e \in Range(Image(m).table) : e.type \in {"relative", "absolute", "globdat"}
  BY <1>1 DEF WellMade, HasEntries
<1>3. \A e \in Range(Image(m).plt) : e.type = "jumpslot"
  BY <1>1 DEF WellMade, HasSlots, Range
<1>4. \A e \in Range(Image(m).plt) : Symbol(m, e).hidden => e.addend = 0
  BY <1>1, <1>3 DEF WellMade, HasEntries, Symbol, Entries
<1> QED BY <1>2, <1>3, <1>4 DEF Entries

(* What is in the tables, as a module's object sees them.                  *)
LEMMA ObjectHas ==
  ASSUME LinkTypeOK, NEW m \in Modules, ObjectRead(m)
  PROVE  /\ object[m] = Cleared => JumpSlots(m) = {}
         /\ loader = "game" /\ stage[m] # "loaded" =>
              /\ JumpSlots(m) = Range(Image(m).plt)
              /\ Absolutes(m) = Others(m)
              /\ Counted(m, object[m].relCount, object[m].relaCount)
              /\ Range(Image(m).table) # {} => object[m] # Cleared
<1>1. ASSUME object[m] = Cleared PROVE JumpSlots(m) = {}
  <2>1. object[m].pltSize = 0 /\ ~object[m].isRela
    BY <1>1 DEF Cleared
  <2>2. object[m].pltSize \div (IF object[m].isRela THEN RelaSize ELSE RelSize) = 0
    BY <2>1 DEF RelSize
  <2> QED BY <2>2 DEF JumpSlots
<1>2. ASSUME loader = "game", stage[m] # "loaded"
      PROVE  /\ JumpSlots(m) = Range(Image(m).plt)
             /\ Absolutes(m) = Others(m)
             /\ Counted(m, object[m].relCount, object[m].relaCount)
             /\ Range(Image(m).table) # {} => object[m] # Cleared
  <2>1. /\ object[m].isRela = (Value(Image(m), "PLTREL", "REL") = "RELA")
        /\ object[m].pltSize = Value(Image(m), "PLTRELSZ", 0)
        /\ object[m].relSize = Value(Image(m), "RELSZ", 0) /\ object[m].relaSize = Value(Image(m), "RELASZ", 0)
        /\ object[m].relCount = Value(Image(m), "RELCOUNT", 0)
        /\ object[m].relaCount = Value(Image(m), "RELACOUNT", 0)
    BY <1>2 DEF ObjectRead
  <2>2. JumpSlots(m) = Range(Image(m).plt)
    <3> DEFINE last == object[m].pltSize \div (IF object[m].isRela THEN RelaSize ELSE RelSize)
    <3>1. DOMAIN Image(m).plt = 1..last
      BY <2>1, Loaded DEF WellMade, HasSlots
    <3>2. Range(Image(m).plt) = {Image(m).plt[i] : i \in 1..last}
      BY <3>1 DEF Range
    <3>3. JumpSlots(m) = {e \in {Image(m).plt[i] : i \in 1..last} : e.type = "jumpslot"}
      BY DEF JumpSlots
    <3> HIDE DEF last
    <3> QED BY <3>2, <3>3, KindsOfEntries
  <2>3. Absolutes(m) = Others(m)
    BY <2>1, TablesAre DEF Absolutes
  <2>4. Counted(m, object[m].relCount, object[m].relaCount)
    BY <2>1 DEF Counted
  <2>5. ASSUME Range(Image(m).table) # {}, object[m] = Cleared PROVE FALSE
    <3>1. Value(Image(m), "RELSZ", 0) = 0 /\ Value(Image(m), "RELASZ", 0) = 0
      BY <2>1, <2>5 DEF Cleared
    <3>2. 0 \div RelSize = 0 /\ 0 \div RelaSize = 0
      BY DEF RelSize, RelaSize
    <3>3. DOMAIN Image(m).table = 1..0
      BY <3>1, <3>2, Loaded DEF WellMade, HasTable
    <3> QED BY <2>5, <3>3 DEF Range
  <2> QED BY <2>2, <2>3, <2>4, <2>5
<1> QED BY <1>1, <1>2

-----------------------------------------------------------------------------
(* What is read from the modules as they were loaded stays as it is.       *)
LEMMA Fixed ==
  ASSUME program' = program
  PROVE  /\ Modules' = Modules /\ Places' = Places
         /\ \A m : Image(m)' = Image(m) /\ Base(m)' = Base(m)
         /\ \A m, e : /\ Target(m, e)' = Target(m, e) /\ Was(m, e)' = Was(m, e) /\ Added(m, e)' = Added(m, e)
                      /\ Symbol(m, e)' = Symbol(m, e)
                      /\ Meaning(m, Symbol(m, e))' = Meaning(m, Symbol(m, e))
                      /\ Resolvable(m, e)' = Resolvable(m, e)
<1>1. Modules' = Modules /\ \A m : Image(m)' = Image(m) /\ Base(m)' = Base(m)
  BY DEF Modules, Image, Base
<1>2. Places' = Places
  BY <1>1 DEF Places
<1>3. \A m, e : /\ Target(m, e)' = Target(m, e) /\ Was(m, e)' = Was(m, e) /\ Symbol(m, e)' = Symbol(m, e)
  BY <1>1 DEF Target, Was, Symbol
<1>4. \A m, e : Added(m, e)' = Added(m, e)
  BY <1>1, <1>3 DEF Added
<1>5. \A m, name : Exported(m, name)' = Exported(m, name)
  BY <1>1 DEF Exported
<1>6. ASSUME NEW m, NEW e
      PROVE  Meaning(m, Symbol(m, e))' = Meaning(m, Symbol(m, e))
  <2>1. ASSUME NEW s PROVE Meaning(m, s)' = Meaning(m, s)
    <3>1. PICK with : with = {n \in IF s.hidden THEN {m} ELSE Modules : Exported(n, s.name) # {}}
      OBVIOUS
    <3>2. with = {n \in IF s.hidden THEN {m} ELSE Modules' : Exported(n, s.name)' # {}}
      BY <1>1, <1>5, <3>1
    <3> DEFINE near == CHOOSE n \in with : \A o \in with : n <= o
    <3>3. Meaning(m, s) =
            IF with # {} THEN Base(near) + (CHOOSE d \in Exported(near, s.name) : TRUE).value
            ELSE IF ~s.hidden /\ s.name \in DOMAIN program.manual THEN program.manual[s.name] ELSE 0
      BY <3>1 DEF Meaning
    <3>4. Meaning(m, s)' =
            IF with # {} THEN Base(near)' + (CHOOSE d \in Exported(near, s.name)' : TRUE).value
            ELSE IF ~s.hidden /\ s.name \in DOMAIN program'.manual THEN program'.manual[s.name] ELSE 0
      BY <3>2 DEF Meaning
    <3> HIDE DEF near
    <3>5. Base(near)' = Base(near) /\ Exported(near, s.name)' = Exported(near, s.name)
      BY <1>1, <1>5
    <3> QED BY <3>3, <3>4, <3>5
  <2> QED BY <2>1, <1>3
<1>7. \A m, e : Resolvable(m, e)' = Resolvable(m, e)
  BY <1>6 DEF Resolvable
<1> QED BY <1>1, <1>2, <1>3, <1>4, <1>6, <1>7

(* What the tables ask of a module depends on its object and its image.    *)
LEMMA ObjectFixed ==
  ASSUME program' = program, lazy' = lazy, NEW m, object'[m] = object[m]
  PROVE  /\ JumpSlots(m)' = JumpSlots(m)
         /\ \A e : /\ OddSlot(m, e)' = OddSlot(m, e) /\ Arrives(m, e)' = Arrives(m, e)
                   /\ Asked(m, e)' = Asked(m, e)
<1>1. JumpSlots(m)' = JumpSlots(m)
  BY Fixed DEF JumpSlots
<1>2. ASSUME NEW e
      PROVE  /\ OddSlot(m, e)' = OddSlot(m, e) /\ Arrives(m, e)' = Arrives(m, e)
             /\ Asked(m, e)' = Asked(m, e)
  <2>1. OddSlot(m, e)' = OddSlot(m, e)
    BY DEF OddSlot
  <2>2. Arrives(m, e)' = Arrives(m, e)
    BY Fixed DEF Arrives
  <2>3. Asked(m, e)' = Asked(m, e)
    BY Fixed DEF Asked, Cleared
  <2> QED BY <2>1, <2>2, <2>3
<1> QED BY <1>1, <1>2

(* A step that leaves the words and the object of a module leaves it well. *)
LEMMA Elsewhere ==
  ASSUME NEW m, ModuleIs(m), program' = program, lazy' = lazy, loader' = loader,
         object'[m] = object[m], stage'[m] = stage[m],
         \A e \in Entries(Image(m)) : word'[Target(m, e)] = word[Target(m, e)]
  PROVE  ModuleIs(m)'
<1>1. ObjectRead(m)'
  BY Fixed DEF ModuleIs, ObjectIs, ObjectRead, Cleared
<1>2. ObjectIs(m)'
  BY <1>1, Fixed DEF ModuleIs, ObjectIs
<1>3. WordsAre(m)'
  <2> SUFFICES ASSUME NEW e \in Range(Image(m).table)
               PROVE  word'[Target(m, e)] = IF stage[m] \in Untouched \/ (stage[m] = "relocated" /\ e.type # "relative")
                                            THEN Was(m, e) ELSE Asked(m, e)
    BY Fixed, ObjectFixed DEF WordsAre, Untouched
  <2>1. word'[Target(m, e)] = word[Target(m, e)]
    BY DEF Entries
  <2> QED BY <2>1 DEF ModuleIs, WordsAre
<1>4. SlotsAre(m)'
  <2> SUFFICES ASSUME NEW e \in Range(Image(m).plt)
               PROVE  IF stage[m] # "resolved" \/ loader = "self" THEN word'[Target(m, e)] = Was(m, e)
                      ELSE /\ Base(m) + Was(m, e) = object[m].stub
                           /\ \/ OddSlot(m, e)
                              \/ word'[Target(m, e)] = object[m].stub /\ (lazy \/ ~Resolvable(m, e))
                              \/ word'[Target(m, e)] = Arrives(m, e)
    BY Fixed, ObjectFixed DEF SlotsAre
  <2>1. word'[Target(m, e)] = word[Target(m, e)]
    BY DEF Entries
  <2> QED BY <2>1 DEF ModuleIs, SlotsAre
<1> QED BY <1>2, <1>3, <1>4 DEF ModuleIs

(* While a module is not linked, nobody calls.                             *)
LEMMA NobodyCalls ==
  ASSUME CallInv, NEW m \in Modules, stage[m] # "resolved", call' = call
  PROVE  CallInv'
<1>1. \A t \in Callers : call[t] = Idle
  BY DEF CallInv, Linked
<1> QED BY <1>1 DEF CallInv, Idle

LEMMA CallsStay ==
  ASSUME CallInv, program' = program, lazy' = lazy, object' = object, stage' = stage, asserted' = asserted,
         NEW t \in Callers, call'[t] = call[t]
  PROVE  \/ call'[t] = Idle
         \/ /\ Linked' /\ ~asserted'
            /\ \E pc \in {"bind", "store", "branch", "arrived"}, m \in Modules', a \in Int : \E e \in JumpSlots(m)' :
                 /\ Calling(t, pc, m, e, a)'
                 /\ pc \in {"store", "branch"} => a = Arrives(m, e)'
                 /\ pc = "arrived" => OddSlot(m, e)' \/ a = Arrives(m, e)'
<1>1. CASE call[t] = Idle
  BY <1>1 DEF Idle
<1>2. CASE call[t] # Idle
  <2>1. /\ Linked /\ ~asserted
        /\ \E pc \in {"bind", "store", "branch", "arrived"}, m \in Modules, a \in Int : \E e \in JumpSlots(m) :
             /\ Calling(t, pc, m, e, a)
             /\ pc \in {"store", "branch"} => a = Arrives(m, e)
             /\ pc = "arrived" => OddSlot(m, e) \/ a = Arrives(m, e)
    BY <1>2 DEF CallInv
  <2>2. Linked'
    BY <2>1, Fixed DEF Linked
  <2>5. PICK pc \in {"bind", "store", "branch", "arrived"}, m \in Modules, a \in Int : \E e \in JumpSlots(m) :
             /\ Calling(t, pc, m, e, a)
             /\ pc \in {"store", "branch"} => a = Arrives(m, e)
             /\ pc = "arrived" => OddSlot(m, e) \/ a = Arrives(m, e)
    BY <2>1
  <2>3. PICK e \in JumpSlots(m) :
             /\ Calling(t, pc, m, e, a)
             /\ pc \in {"store", "branch"} => a = Arrives(m, e)
             /\ pc = "arrived" => OddSlot(m, e) \/ a = Arrives(m, e)
    BY <2>5
  <2>4. Calling(t, pc, m, e, a)'
    BY <2>3, Fixed DEF Calling, Call
  <2> QED BY <2>1, <2>2, <2>3, <2>4, Fixed, ObjectFixed
<1> QED BY <1>1, <1>2

-----------------------------------------------------------------------------
LEMMA LinkStarts == Init => LinkInv
<1> SUFFICES ASSUME Init PROVE LinkInv
  OBVIOUS
<1>1. /\ program \in Programs /\ lazy \in BOOLEAN /\ asserted \in BOOLEAN /\ loader \in {"game", "self"}
      /\ \A m \in Modules : stage[m] = "loaded" /\ object[m] = Cleared
      /\ \A t \in Callers : call[t] = Idle
      /\ DOMAIN call = Callers
  BY DEF Init, RtldInit
<1>2. \A m \in Modules : WellMade(Image(m))
  BY <1>1, LoadedWell
<1>3. WellLoaded(program)
  BY <1>1, LoadedWell
<1>4. ASSUME NEW m \in Modules, NEW o \in DOMAIN Image(m).words
      PROVE  word[Base(m) + o] = Image(m).words[o] /\ Image(m).words[o] \in Int
  <2> DEFINE a == Base(m) + o
             n == CHOOSE n \in Modules : a - Base(n) \in DOMAIN Image(n).words
  <2>1. a \in Places
    BY DEF Places
  <2>2. word[a] = Image(n).words[a - Base(n)]
    BY <2>1 DEF Init, RtldInit, Places
  <2>3. Base(m) \in Nat /\ o \in Nat /\ Image(m).words[o] \in Int
    BY <1>2 DEF WellMade, Base
  <2>4. a - Base(m) = o
    BY <2>3
  <2>5. n \in Modules /\ a - Base(n) \in DOMAIN Image(n).words
    BY <2>4
  <2>6. n = m
    <3> HIDE DEF n
    <3>1. Base(n) \in Nat
      BY <1>2, <2>5 DEF WellMade, Base
    <3>2. Base(n) + (a - Base(n)) = Base(m) + o
      BY <3>1, <2>3
    <3> QED BY <3>2, <2>5, <1>3 DEF WellLoaded, Base, Image, Modules
  <2> HIDE DEF n
  <2> QED BY <2>2, <2>3, <2>4, <2>6 DEF a
<1>5. word \in [Places -> Int]
  <2>1. DOMAIN word = Places /\ \E f : word = [a \in Places |-> f[a]]
    <3>1. PICK f : f = [a \in Places |-> LET m == CHOOSE n \in Modules : a - Base(n) \in DOMAIN Image(n).words
                                         IN Image(m).words[a - Base(m)]]
      OBVIOUS
    <3>2. word = [a \in Places |-> f[a]] /\ DOMAIN word = Places
      BY <3>1 DEF Init, RtldInit, Places
    <3> QED BY <3>2
  <2>2. \A a \in Places : word[a] \in Int
    BY <1>4 DEF Places
  <2> QED BY <2>1, <2>2
<1>6. stage \in [Modules -> {"loaded", "initialized", "relocated", "resolved"}]
  BY DEF Init, RtldInit
<1>7. object \in [Modules -> [isRela : BOOLEAN, pltSize : Int, got : Int, owner : Int, stub : Int,
                              relSize : Int, relaSize : Int, relCount : Int, relaCount : Int]]
  BY DEF Init, RtldInit, Cleared
<1>8. LinkTypeOK
  BY <1>1, <1>5, <1>6, <1>7 DEF LinkTypeOK
<1>9. ASSUME NEW m \in Modules, NEW e \in Entries(Image(m)) PROVE word[Target(m, e)] = Was(m, e)
  <2>1. e.offset \in DOMAIN Image(m).words
    BY <1>2 DEF WellMade, HasEntries
  <2> QED BY <2>1, <1>4 DEF Target, Was
<1>10. ASSUME NEW m \in Modules PROVE ModuleIs(m)
  <2>1. ObjectIs(m)
    BY <1>1 DEF ObjectIs, ObjectRead
  <2>2. WordsAre(m)
    BY <1>1, <1>9 DEF WordsAre, Untouched, Entries
  <2>3. SlotsAre(m)
    BY <1>1, <1>9 DEF SlotsAre, Entries
  <2> QED BY <2>1, <2>2, <2>3 DEF ModuleIs
<1>11. CallInv
  BY <1>1 DEF CallInv
<1> QED BY <1>8, <1>10, <1>11 DEF LinkInv

LEMMA Initializes ==
  ASSUME LinkInv, NEW m \in Modules, Initialize(m), loader = "game", loader' = loader
  PROVE  LinkInv'
<1> USE DEF LinkInv
<1>1. /\ stage[m] = "loaded" /\ program' = program /\ lazy' = lazy /\ word' = word /\ call' = call
  BY DEF Initialize
<1>2. CallInv'
  BY <1>1, NobodyCalls
<1>3. CASE ~Asserts(m)
  <2>1. object' = object /\ stage' = stage /\ asserted' = TRUE
    BY <1>3 DEF Initialize
  <2>2. LinkTypeOK'
    BY <1>1, <2>1, Fixed DEF LinkTypeOK
  <2>3. \A n \in Modules : ModuleIs(n)'
    BY <1>1, <2>1, Elsewhere
  <2> QED BY <1>1, <1>2, <2>2, <2>3, Fixed
<1>4. CASE Asserts(m)
  <2> DEFINE image == Image(m)
  <2>1. /\ stage' = [stage EXCEPT ![m] = "initialized"] /\ asserted' = asserted
        /\ object' = [object EXCEPT ![m] = [object[m] EXCEPT
               !.isRela = Value(image, "PLTREL", "REL") = "RELA",
               !.pltSize = Value(image, "PLTRELSZ", 0),
               !.got = IF Tagged(image, "PLTGOT") = <<>> THEN 0 ELSE Base(m) + Value(image, "PLTGOT", 0),
               !.stub = 0,
               !.relSize = Value(image, "RELSZ", 0), !.relaSize = Value(image, "RELASZ", 0),
               !.relCount = Value(image, "RELCOUNT", object[m].relCount),
               !.relaCount = Value(image, "RELACOUNT", object[m].relaCount)]]
    BY <1>4 DEF Initialize
  <2>2. object[m] = Cleared /\ m \in DOMAIN object /\ m \in DOMAIN stage
    BY <1>1 DEF ModuleIs, ObjectIs, ObjectRead, LinkTypeOK
  <2>12. PICK isRela, pltSize, place, relSize, relaSize, relCount, relaCount :
           /\ isRela = (Value(image, "PLTREL", "REL") = "RELA")
           /\ pltSize = Value(image, "PLTRELSZ", 0)
           /\ place = IF Tagged(image, "PLTGOT") = <<>> THEN 0 ELSE Base(m) + Value(image, "PLTGOT", 0)
           /\ relSize = Value(image, "RELSZ", 0) /\ relaSize = Value(image, "RELASZ", 0)
           /\ relCount = Value(image, "RELCOUNT", 0) /\ relaCount = Value(image, "RELACOUNT", 0)
    BY Zenon
  <2>13. isRela \in BOOLEAN
    BY <2>12, Zenon
  <2>17. object'[m] = [object[m] EXCEPT
               !.isRela = Value(image, "PLTREL", "REL") = "RELA",
               !.pltSize = Value(image, "PLTRELSZ", 0),
               !.got = IF Tagged(image, "PLTGOT") = <<>> THEN 0 ELSE Base(m) + Value(image, "PLTGOT", 0),
               !.stub = 0,
               !.relSize = Value(image, "RELSZ", 0), !.relaSize = Value(image, "RELASZ", 0),
               !.relCount = Value(image, "RELCOUNT", object[m].relCount),
               !.relaCount = Value(image, "RELACOUNT", object[m].relaCount)]
    BY <2>1, <2>2, Zenon
  <2>14. object'[m] = [Cleared EXCEPT
               !.isRela = Value(image, "PLTREL", "REL") = "RELA",
               !.pltSize = Value(image, "PLTRELSZ", 0),
               !.got = IF Tagged(image, "PLTGOT") = <<>> THEN 0 ELSE Base(m) + Value(image, "PLTGOT", 0),
               !.stub = 0,
               !.relSize = Value(image, "RELSZ", 0), !.relaSize = Value(image, "RELASZ", 0),
               !.relCount = Value(image, "RELCOUNT", Cleared.relCount),
               !.relaCount = Value(image, "RELACOUNT", Cleared.relaCount)]
    BY <2>17, <2>2, Zenon
  <2>15. Cleared.relCount = 0 /\ Cleared.relaCount = 0
    BY DEF Cleared
  <2>16. object'[m] = [Cleared EXCEPT !.isRela = isRela, !.pltSize = pltSize, !.got = place, !.stub = 0,
               !.relSize = relSize, !.relaSize = relaSize, !.relCount = relCount, !.relaCount = relaCount]
    BY <2>12, <2>14, <2>15, Zenon
  <2>3. object'[m] = [isRela |-> isRela, pltSize |-> pltSize, got |-> place, owner |-> 0, stub |-> 0,
                      relSize |-> relSize, relaSize |-> relaSize, relCount |-> relCount, relaCount |-> relaCount]
    BY <2>16 DEF Cleared
  <2>4. \A n \in Modules \ {m} : object'[n] = object[n] /\ stage'[n] = stage[n]
    BY <2>1, <2>2
  <2>5. stage'[m] = "initialized"
    BY <2>1, <2>2
  <2>6. WellMade(image) /\ Base(m) \in Nat
    BY Loaded DEF WellMade, Base
  <2>7. /\ Value(image, "PLTRELSZ", 0) \in Nat /\ Value(image, "PLTGOT", 0) \in Nat
        /\ Value(image, "RELSZ", 0) \in Nat /\ Value(image, "RELASZ", 0) \in Nat
        /\ Value(image, "RELCOUNT", 0) \in Nat /\ Value(image, "RELACOUNT", 0) \in Nat
    <3>1. Value(image, "PLTRELSZ", 0) \in Nat /\ Value(image, "PLTGOT", 0) \in Nat
      BY <2>6 DEF WellMade, HasSlots
    <3>2. ASSUME NEW size, NEW count, NEW each \in {RelSize, RelaSize}, HasTable(image, size, count, each)
          PROVE  Value(image, size, 0) \in Nat /\ Value(image, count, 0) \in Nat
      BY <3>2 DEF HasTable, RelSize, RelaSize
    <3>3. ASSUME NEW size, NEW count, HasNone(image, size, count)
          PROVE  Value(image, size, 0) \in Nat /\ Value(image, count, 0) \in Nat
      BY <3>3 DEF HasNone
    <3>4. RelSize \in {RelSize, RelaSize} /\ RelaSize \in {RelSize, RelaSize}
      OBVIOUS
    <3> QED BY <2>6, <3>1, <3>2, <3>3, <3>4 DEF WellMade
  <2>8. object'[m] \in [isRela : BOOLEAN, pltSize : Int, got : Int, owner : Int, stub : Int,
                        relSize : Int, relaSize : Int, relCount : Int, relaCount : Int]
    <3>1. place \in Int
      BY <2>12, <2>6, <2>7
    <3>2. pltSize \in Int /\ relSize \in Int /\ relaSize \in Int /\ relCount \in Int /\ relaCount \in Int
      BY <2>12, <2>7
    <3> QED BY <2>3, <2>13, <3>1, <3>2
  <2>9. LinkTypeOK'
    <3>1. DOMAIN object' = Modules /\ DOMAIN stage' = Modules
      BY <2>1 DEF LinkTypeOK
    <3>2. object' \in [Modules -> [isRela : BOOLEAN, pltSize : Int, got : Int, owner : Int, stub : Int,
                              relSize : Int, relaSize : Int, relCount : Int, relaCount : Int]]
      <4> DEFINE Record == [isRela : BOOLEAN, pltSize : Int, got : Int, owner : Int, stub : Int,
                              relSize : Int, relaSize : Int, relCount : Int, relaCount : Int]
      <4>1. \A n \in Modules : object[n] \in Record
        BY DEF LinkTypeOK
      <4> HIDE DEF Record
      <4>2. object' = [n \in Modules |-> object'[n]]
        BY <2>1 DEF LinkTypeOK
      <4>3. \A n \in Modules : object'[n] \in Record
        BY <4>1, <2>4, <2>8 DEF Record
      <4>4. object' \in [Modules -> Record]
        BY <4>2, <4>3
      <4> QED BY <4>4 DEF Record
    <3>3. stage' \in [Modules -> {"loaded", "initialized", "relocated", "resolved"}]
      BY <2>1 DEF LinkTypeOK
    <3> QED BY <1>1, <2>1, <3>2, <3>3, Fixed DEF LinkTypeOK
  <2>10. ModuleIs(m)'
    <3>1. ObjectRead(m)'
      <4>1. /\ object'[m].isRela = isRela /\ object'[m].pltSize = pltSize /\ object'[m].got = place
            /\ object'[m].relSize = relSize /\ object'[m].relaSize = relaSize
            /\ object'[m].relCount = relCount /\ object'[m].relaCount = relaCount
        BY <2>3
      <4>2. /\ object'[m].isRela = (Value(Image(m)', "PLTREL", "REL") = "RELA")
            /\ object'[m].pltSize = Value(Image(m)', "PLTRELSZ", 0)
            /\ object'[m].got = IF Tagged(Image(m)', "PLTGOT") = <<>> THEN 0
                                ELSE Base(m)' + Value(Image(m)', "PLTGOT", 0)
            /\ object'[m].relSize = Value(Image(m)', "RELSZ", 0) /\ object'[m].relaSize = Value(Image(m)', "RELASZ", 0)
            /\ object'[m].relCount = Value(Image(m)', "RELCOUNT", 0)
            /\ object'[m].relaCount = Value(Image(m)', "RELACOUNT", 0)
        BY <4>1, <2>12, <1>1, Fixed, Zenon
      <4> QED BY <4>2, <2>5, Zenon DEF ObjectRead
    <3>2. ObjectIs(m)'
      BY <3>1, <2>5 DEF ObjectIs
    <3>3. WordsAre(m)'
      BY <1>1, <2>5, Fixed DEF WordsAre, ModuleIs, Untouched
    <3>4. SlotsAre(m)'
      BY <1>1, <2>5, Fixed DEF SlotsAre, ModuleIs
    <3> QED BY <3>2, <3>3, <3>4 DEF ModuleIs
  <2>11. \A n \in Modules \ {m} : ModuleIs(n)'
    BY <1>1, <2>4, Elsewhere
  <2> QED BY <1>1, <1>2, <2>9, <2>10, <2>11, Fixed
<1> QED BY <1>3, <1>4

-----------------------------------------------------------------------------
(* One pass moves the relative words of a module, and no other.            *)
LEMMA Relocating ==
  ASSUME LinkTypeOK, NEW m \in Modules, ModuleIs(m), stage[m] \in Untouched,
         NEW rels, NEW relas, Counted(m, rels, relas), RelocateWith(m, rels, relas)
  PROVE  /\ word' \in [Places -> Int]
         /\ \A e \in Range(Image(m).table) :
              word'[Target(m, e)] = IF e.type = "relative" THEN Base(m) + Added(m, e) ELSE Was(m, e)
         /\ \A e \in Range(Image(m).plt) : word'[Target(m, e)] = Was(m, e)
         /\ \A n \in Modules \ {m} : \A e \in Entries(Image(n)) : word'[Target(n, e)] = word[Target(n, e)]
<1> DEFINE relative == Relative(Range(Image(m).table))
           rel == Relative(First(m, rels))
<1>1. /\ rel \cup Relative(First(m, relas)) = relative
      /\ \A e \in relative : e \in rel <=> Value(Image(m), "RELSZ", 0) > 0
  BY TablesAre
<1>2. PICK to : to = [e \in relative |-> Base(m) + (IF e \in rel THEN word[Target(m, e)] ELSE e.addend)]
  OBVIOUS
<1>3. word' = Placed(m, to)
  BY <1>1, <1>2 DEF RelocateWith
<1>4. relative \subseteq Entries(Image(m)) /\ \A e \in relative : e.type = "relative" /\ e \in Range(Image(m).table)
  BY DEF Relative, Entries
<1>5. \A e \in Range(Image(m).table) : word[Target(m, e)] = Was(m, e)
  BY DEF ModuleIs, WordsAre
<1>6. \A e \in Range(Image(m).plt) : word[Target(m, e)] = Was(m, e)
  BY DEF ModuleIs, SlotsAre, Untouched
<1>7. ASSUME NEW e \in relative PROVE to[e] = Base(m) + Added(m, e) /\ to[e] \in Int
  <2>1. to[e] = Base(m) + Added(m, e)
    BY <1>1, <1>2, <1>4, <1>5 DEF Added
  <2>2. Base(m) \in Nat /\ Added(m, e) \in Int
    BY <1>4, EntryIs
  <2> QED BY <2>1, <2>2
<1>8. DOMAIN to = relative
  BY <1>2
<1>9. /\ Placed(m, to) \in [Places -> Int]
      /\ \A e \in DOMAIN to : Placed(m, to)[Target(m, e)] = to[e]
      /\ \A e \in Entries(Image(m)) \ DOMAIN to : Placed(m, to)[Target(m, e)] = word[Target(m, e)]
      /\ \A n \in Modules \ {m} : \A e \in Entries(Image(n)) :
           Placed(m, to)[Target(n, e)] = word[Target(n, e)]
  <2>1. DOMAIN to \subseteq Entries(Image(m)) /\ \A e \in DOMAIN to : to[e] \in Int
    BY <1>4, <1>7, <1>8
  <2> HIDE DEF relative
  <2> QED BY <2>1, Placing
<1>10. ASSUME NEW e \in Range(Image(m).table)
       PROVE  word'[Target(m, e)] = IF e.type = "relative" THEN Base(m) + Added(m, e) ELSE Was(m, e)
  <2>1. e \in Entries(Image(m)) /\ (e.type = "relative" <=> e \in relative)
    BY DEF Entries, Relative
  <2> HIDE DEF relative
  <2> QED BY <2>1, <1>3, <1>5, <1>7, <1>8, <1>9
<1>11. ASSUME NEW e \in Range(Image(m).plt) PROVE word'[Target(m, e)] = Was(m, e)
  <2>1. e \in Entries(Image(m)) /\ e \notin relative
    BY KindsOfEntries DEF Entries, Relative
  <2> HIDE DEF relative
  <2> QED BY <2>1, <1>3, <1>6, <1>8, <1>9
<1> QED BY <1>3, <1>9, <1>10, <1>11

LEMMA Relocates ==
  ASSUME LinkInv, NEW m \in Modules, Relocate(m), loader = "game", loader' = loader
  PROVE  LinkInv'
<1> USE DEF LinkInv
<1>1. /\ stage[m] = "initialized" /\ stage' = [stage EXCEPT ![m] = "relocated"]
      /\ program' = program /\ lazy' = lazy /\ object' = object /\ call' = call /\ asserted' = asserted
      /\ RelocateWith(m, object[m].relCount, object[m].relaCount)
  BY DEF Relocate
<1>2. CallInv'
  BY <1>1, NobodyCalls
<1>3. ObjectRead(m) /\ stage[m] \in Untouched
  BY <1>1 DEF ModuleIs, ObjectIs, Untouched
<1>4. Counted(m, object[m].relCount, object[m].relaCount)
  BY <1>1, <1>3, ObjectHas
<1>5. /\ word' \in [Places -> Int]
      /\ \A e \in Range(Image(m).table) :
           word'[Target(m, e)] = IF e.type = "relative" THEN Base(m) + Added(m, e) ELSE Was(m, e)
      /\ \A e \in Range(Image(m).plt) : word'[Target(m, e)] = Was(m, e)
      /\ \A n \in Modules \ {m} : \A e \in Entries(Image(n)) : word'[Target(n, e)] = word[Target(n, e)]
  BY <1>1, <1>3, <1>4, Relocating
<1>6. stage'[m] = "relocated" /\ \A n \in Modules \ {m} : stage'[n] = stage[n]
  BY <1>1 DEF LinkTypeOK
<1>7. LinkTypeOK'
  <2>1. stage' \in [Modules -> {"loaded", "initialized", "relocated", "resolved"}]
    BY <1>1 DEF LinkTypeOK
  <2> QED BY <1>1, <1>5, <2>1, Fixed DEF LinkTypeOK
<1>8. ModuleIs(m)'
  <2>1. ObjectIs(m)'
    <3>1. ObjectRead(m)'
      BY <1>1, <1>3, <1>6, Fixed DEF ObjectRead
    <3> QED BY <1>6, <3>1 DEF ObjectIs
  <2>2. WordsAre(m)'
    <3>1. \A e : Asked(m, e)' = Asked(m, e)
      BY <1>1, ObjectFixed
    <3>2. Image(m)' = Image(m) /\ \A e : Target(m, e)' = Target(m, e) /\ Was(m, e)' = Was(m, e)
      BY <1>1, Fixed
    <3> SUFFICES ASSUME NEW e \in Range(Image(m).table)
                 PROVE  word'[Target(m, e)] = IF e.type # "relative" THEN Was(m, e) ELSE Asked(m, e)
      BY <1>6, <3>1, <3>2 DEF WordsAre, Untouched
    <3> QED BY <1>5 DEF Asked
  <2>3. SlotsAre(m)'
    BY <1>1, <1>5, <1>6, Fixed DEF SlotsAre
  <2> QED BY <2>1, <2>2, <2>3 DEF ModuleIs
<1>9. \A n \in Modules \ {m} : ModuleIs(n)'
  BY <1>1, <1>5, <1>6, Elsewhere
<1> QED BY <1>1, <1>2, <1>7, <1>8, <1>9, Fixed

LEMMA LinksItself ==
  ASSUME LinkInv, NEW m \in Modules, DynamicSelf(m), loader = "self", loader' = loader
  PROVE  LinkInv'
<1> USE DEF LinkInv
<1> DEFINE rels == Count(m, "RELCOUNT", "RELSZ", "RELENT", RelSize)
           relas == Count(m, "RELACOUNT", "RELASZ", "RELAENT", RelaSize)
<1>1. /\ stage[m] = "loaded" /\ stage' = [stage EXCEPT ![m] = "resolved"]
      /\ program' = program /\ lazy' = lazy /\ object' = object /\ call' = call /\ asserted' = asserted
      /\ RelocateWith(m, rels, relas)
  BY DEF DynamicSelf
<1>2. CallInv'
  BY <1>1, NobodyCalls
<1>3. object[m] = Cleared /\ stage[m] \in Untouched
  BY <1>1 DEF ModuleIs, ObjectIs, ObjectRead, Untouched
<1>4. Counted(m, rels, relas)
  BY DEF Counted
<1> HIDE DEF rels, relas
<1>5. /\ word' \in [Places -> Int]
      /\ \A e \in Range(Image(m).table) :
           word'[Target(m, e)] = IF e.type = "relative" THEN Base(m) + Added(m, e) ELSE Was(m, e)
      /\ \A e \in Range(Image(m).plt) : word'[Target(m, e)] = Was(m, e)
      /\ \A n \in Modules \ {m} : \A e \in Entries(Image(n)) : word'[Target(n, e)] = word[Target(n, e)]
  BY <1>1, <1>3, <1>4, Relocating
<1>6. stage'[m] = "resolved" /\ \A n \in Modules \ {m} : stage'[n] = stage[n]
  BY <1>1 DEF LinkTypeOK
<1>7. LinkTypeOK'
  <2>1. stage' \in [Modules -> {"loaded", "initialized", "relocated", "resolved"}]
    BY <1>1 DEF LinkTypeOK
  <2> QED BY <1>1, <1>5, <2>1, Fixed DEF LinkTypeOK
<1>8. ModuleIs(m)'
  <2>1. ObjectIs(m)'
    <3>1. ObjectRead(m)'
      BY <1>1, <1>3 DEF ObjectRead, Cleared
    <3> QED BY <1>6, <3>1 DEF ObjectIs
  <2>2. WordsAre(m)'
    <3> SUFFICES ASSUME NEW e \in Range(Image(m).table)
                 PROVE  word'[Target(m, e)] = Asked(m, e)
      BY <1>1, <1>6, Fixed, ObjectFixed DEF WordsAre, Untouched
    <3> QED BY <1>3, <1>5 DEF Asked
  <2>3. SlotsAre(m)'
    BY <1>1, <1>5, <1>6, Fixed DEF SlotsAre
  <2> QED BY <2>1, <2>2, <2>3 DEF ModuleIs
<1>9. \A n \in Modules \ {m} : ModuleIs(n)'
  BY <1>1, <1>5, <1>6, Elsewhere
<1> QED BY <1>1, <1>2, <1>7, <1>8, <1>9, Fixed

-----------------------------------------------------------------------------
(* A set of at most one element.                                           *)
LEMMA AtMostOne ==
  ASSUME NEW S, IsFiniteSet(S), ~(Cardinality(S) > 1), NEW a \in S, NEW b \in S
  PROVE  a = b
<1> SUFFICES ASSUME a # b PROVE FALSE
  OBVIOUS
<1>1. IsFiniteSet({a}) /\ Cardinality({a}) = 1
  BY FS_Singleton
<1>2. Cardinality({a} \cup {b}) = 2
  BY <1>1, FS_AddElement
<1>3. Cardinality({a} \cup {b}) <= Cardinality(S)
  BY FS_Subset
<1>4. Cardinality(S) \in Nat
  BY FS_CardinalityType
<1> QED BY <1>2, <1>3, <1>4

(* The stubs of a module can be counted.                                   *)
LEMMA SlotsAreFinite ==
  ASSUME LinkTypeOK, NEW m \in Modules
  PROVE  IsFiniteSet({StubOf(m, e) : e \in Range(Image(m).plt)})
<1> DEFINE each == IF Value(Image(m), "PLTREL", "REL") = "RELA" THEN RelaSize ELSE RelSize
           last == Value(Image(m), "PLTRELSZ", 0) \div each
           f == [i \in 1..last |-> StubOf(m, Image(m).plt[i])]
           all == {StubOf(m, e) : e \in Range(Image(m).plt)}
<1>1. DOMAIN Image(m).plt = 1..last /\ Value(Image(m), "PLTRELSZ", 0) \in Nat
  BY Loaded DEF WellMade, HasSlots
<1>2. last \in Int
  BY <1>1 DEF RelSize, RelaSize
<1>3. IsFiniteSet(1..last)
  <2> HIDE DEF last
  <2> QED BY <1>2, FS_Interval
<1>4. Range(Image(m).plt) = {Image(m).plt[i] : i \in 1..last}
  BY <1>1 DEF Range
<1> HIDE DEF last
<1>5. f \in Surjection(1..last, all)
  BY <1>4 DEF Surjection
<1> HIDE DEF f, all
<1>6. IsFiniteSet(all)
  BY <1>3, <1>5, FS_Surjection
<1> QED BY <1>6 DEF all

(* What resolving leaves in the words of a module.                         *)
LEMMA Resolving ==
  ASSUME LinkTypeOK, NEW m \in Modules, ModuleIs(m), stage[m] = "relocated", loader = "game",
         word' = Placed(m, [e \in Absolutes(m) \cup JumpSlots(m) |->
                              IF e.type = "jumpslot" THEN JumpSlot(m, e) ELSE Absolute(m, e)])
  PROVE  /\ word' \in [Places -> Int]
         /\ \A e \in Range(Image(m).table) : word'[Target(m, e)] = Asked(m, e)
         /\ \A e \in Range(Image(m).plt) :
              \/ OddSlot(m, e)
              \/ word'[Target(m, e)] = Base(m) + Was(m, e) /\ (lazy \/ ~Resolvable(m, e))
              \/ word'[Target(m, e)] = Arrives(m, e)
         /\ \A n \in Modules \ {m} : \A e \in Entries(Image(n)) : word'[Target(n, e)] = word[Target(n, e)]
<1> DEFINE table == Range(Image(m).table)
           plt == Range(Image(m).plt)
<1>1. /\ JumpSlots(m) = plt /\ Absolutes(m) = Others(m)
      /\ table # {} => object[m] # Cleared
  BY ObjectHas DEF ModuleIs, ObjectIs
<1>2. PICK to : to = [e \in Others(m) \cup plt |->
                        IF e.type = "jumpslot" THEN JumpSlot(m, e) ELSE Absolute(m, e)]
  OBVIOUS
<1>3. word' = Placed(m, to) /\ DOMAIN to = Others(m) \cup plt
  BY <1>1, <1>2
<1>4. /\ Entries(Image(m)) = table \cup plt /\ \A e \in plt : e.type = "jumpslot" /\ e \notin table
      /\ \A e \in table : e.type \in {"relative", "absolute", "globdat"}
      /\ \A e \in plt : ~Resolvable(m, e) /\ Symbol(m, e).hidden => e.addend = 0
  BY KindsOfEntries
<1>5. Others(m) \subseteq table /\ \A e \in table : e.type # "relative" <=> e \in Others(m)
  BY DEF Others, Relative
<1>6. \A e \in table : word[Target(m, e)] = IF e.type # "relative" THEN Was(m, e) ELSE Asked(m, e)
  BY DEF ModuleIs, WordsAre, Untouched
<1>7. \A e \in plt : word[Target(m, e)] = Was(m, e)
  BY DEF ModuleIs, SlotsAre
<1>8. ASSUME NEW e \in Others(m) PROVE to[e] = Asked(m, e) /\ to[e] \in Int
  <2>1. to[e] = Absolute(m, e)
    BY <1>2, <1>4, <1>5
  <2>2. /\ Meaning(m, Symbol(m, e)) \in Nat /\ Was(m, e) \in Int /\ Added(m, e) \in Int
        /\ Addresses(m, e) = IF Resolvable(m, e) THEN {Meaning(m, Symbol(m, e))}
                              ELSE IF Symbol(m, e).hidden /\ Symbol(m, e).bind = "weak" THEN {0} ELSE {}
    BY <1>4, <1>5, EntryIs
  <2>3. word[Target(m, e)] = Was(m, e)
    BY <1>5, <1>6
  <2>4. Absolute(m, e) = IF Addresses(m, e) = {} THEN Was(m, e)
                         ELSE (CHOOSE a \in Addresses(m, e) : TRUE) + Added(m, e)
    BY <2>3 DEF Absolute, Added
  <2>5. e.type # "relative" /\ object[m] # Cleared
    BY <1>1, <1>5
  <2>6. CASE Resolvable(m, e)
    <3>1. Absolute(m, e) = Meaning(m, Symbol(m, e)) + Added(m, e)
      BY <2>2, <2>4, <2>6
    <3> QED BY <2>1, <2>2, <2>5, <2>6, <3>1 DEF Asked
  <2>7. CASE ~Resolvable(m, e) /\ Symbol(m, e).hidden /\ Symbol(m, e).bind = "weak"
    <3>1. Absolute(m, e) = 0 + Added(m, e)
      BY <2>2, <2>4, <2>7
    <3> QED BY <2>1, <2>2, <2>5, <2>7, <3>1 DEF Asked
  <2>8. CASE ~Resolvable(m, e) /\ ~(Symbol(m, e).hidden /\ Symbol(m, e).bind = "weak")
    <3>1. Absolute(m, e) = Was(m, e)
      BY <2>2, <2>4, <2>8
    <3> QED BY <2>1, <2>2, <2>5, <2>8, <3>1 DEF Asked
  <2> QED BY <2>6, <2>7, <2>8
<1>9. ASSUME NEW e \in plt
      PROVE  /\ to[e] \in Int
             /\ \/ OddSlot(m, e)
                \/ to[e] = Base(m) + Was(m, e) /\ (lazy \/ ~Resolvable(m, e))
                \/ to[e] = Arrives(m, e)
  <2>1. to[e] = JumpSlot(m, e)
    BY <1>2, <1>4
  <2>2. /\ Meaning(m, Symbol(m, e)) \in Nat /\ Was(m, e) \in Int /\ e.addend \in Int /\ Base(m) \in Nat
        /\ Addresses(m, e) = IF Resolvable(m, e) THEN {Meaning(m, Symbol(m, e))}
                              ELSE IF Symbol(m, e).hidden /\ Symbol(m, e).bind = "weak" THEN {0} ELSE {}
    BY <1>4, EntryIs
  <2>3. word[Target(m, e)] = Was(m, e)
    BY <1>7
  <2>4. JumpSlot(m, e) =
          IF lazy \/ Addresses(m, e) = {} THEN Base(m) + Was(m, e)
          ELSE (CHOOSE a \in Addresses(m, e) : TRUE) + (IF object[m].isRela THEN e.addend ELSE Was(m, e))
    BY <2>3 DEF JumpSlot, StubOf
  <2>5. CASE lazy \/ Addresses(m, e) = {}
    <3>1. lazy \/ ~Resolvable(m, e)
      BY <2>2, <2>5
    <3>2. to[e] = Base(m) + Was(m, e)
      BY <2>1, <2>4, <2>5
    <3>3. Base(m) + Was(m, e) \in Int
      BY <2>2
    <3> QED BY <3>1, <3>2, <3>3
  <2>6. CASE ~lazy /\ Resolvable(m, e)
    <3>1. JumpSlot(m, e) = Meaning(m, Symbol(m, e)) + (IF object[m].isRela THEN e.addend ELSE Was(m, e))
      BY <2>2, <2>4, <2>6
    <3>2. JumpSlot(m, e) \in Int
      BY <2>2, <3>1
    <3>3. CASE object[m].isRela
      BY <2>1, <2>6, <3>1, <3>2, <3>3 DEF Arrives
    <3>4. CASE ~object[m].isRela
      BY <2>1, <2>6, <3>2, <3>4 DEF OddSlot
    <3> QED BY <3>3, <3>4
  <2>7. CASE ~lazy /\ ~Resolvable(m, e) /\ Addresses(m, e) # {}
    <3>1. Addresses(m, e) = {0} /\ e.addend = 0
      BY <1>4, <2>2, <2>7
    <3>2. JumpSlot(m, e) = 0 + (IF object[m].isRela THEN e.addend ELSE Was(m, e))
      BY <2>4, <2>7, <3>1
    <3>3. CASE object[m].isRela
      BY <2>1, <2>7, <3>1, <3>2, <3>3 DEF Arrives
    <3>4. CASE ~object[m].isRela
      BY <2>1, <2>2, <2>7, <3>2, <3>4 DEF OddSlot
    <3> QED BY <3>3, <3>4
  <2> QED BY <2>5, <2>6, <2>7
<1> HIDE DEF table, plt
<1>10. /\ Placed(m, to) \in [Places -> Int]
       /\ \A e \in DOMAIN to : Placed(m, to)[Target(m, e)] = to[e]
       /\ \A e \in Entries(Image(m)) \ DOMAIN to : Placed(m, to)[Target(m, e)] = word[Target(m, e)]
       /\ \A n \in Modules \ {m} : \A e \in Entries(Image(n)) :
            Placed(m, to)[Target(n, e)] = word[Target(n, e)]
  <2>1. DOMAIN to \subseteq Entries(Image(m))
    BY <1>3, <1>4, <1>5
  <2>2. \A e \in DOMAIN to : to[e] \in Int
    BY <1>3, <1>8, <1>9
  <2> QED BY <2>1, <2>2, Placing
<1>11. ASSUME NEW e \in table PROVE word'[Target(m, e)] = Asked(m, e)
  <2>1. CASE e \in Others(m)
    BY <2>1, <1>3, <1>8, <1>10
  <2>2. CASE e \notin Others(m)
    <3>1. e \in Entries(Image(m)) \ DOMAIN to
      BY <2>2, <1>3, <1>4
    <3> QED BY <3>1, <2>2, <1>3, <1>5, <1>6, <1>10
  <2> QED BY <2>1, <2>2
<1> QED BY <1>3, <1>9, <1>10, <1>11 DEF table, plt

LEMMA Resolves ==
  ASSUME LinkInv, NEW m \in Modules, ResolveSymbols(m), loader = "game", loader' = loader
  PROVE  LinkInv'
<1> USE DEF LinkInv
<1> DEFINE stubs == {StubOf(m, e) : e \in JumpSlots(m)}
<1>1. stage[m] = "relocated" /\ program' = program /\ lazy' = lazy /\ call' = call
  BY DEF ResolveSymbols
<1>2. CallInv'
  BY <1>1, NobodyCalls
<1>3. CASE Cardinality(stubs) > 1
  <2>1. object' = object /\ stage' = stage /\ word' = word /\ asserted' = TRUE
    BY <1>3 DEF ResolveSymbols
  <2>2. LinkTypeOK'
    BY <1>1, <2>1, Fixed DEF LinkTypeOK
  <2>3. \A n \in Modules : ModuleIs(n)'
    BY <1>1, <2>1, Elsewhere
  <2> QED BY <1>1, <1>2, <2>2, <2>3, Fixed
<1>4. CASE ~(Cardinality(stubs) > 1)
  <2>1. /\ word' = Placed(m, [e \in Absolutes(m) \cup JumpSlots(m) |->
                                IF e.type = "jumpslot" THEN JumpSlot(m, e) ELSE Absolute(m, e)])
        /\ object' = [object EXCEPT ![m].stub = IF stubs = {} THEN @ ELSE CHOOSE a \in stubs : TRUE,
                                    ![m].owner = IF object[m].got = 0 THEN @ ELSE m]
        /\ stage' = [stage EXCEPT ![m] = "resolved"] /\ asserted' = asserted
    BY <1>4 DEF ResolveSymbols
  <2>2. ObjectRead(m) /\ m \in DOMAIN object /\ m \in DOMAIN stage
    BY DEF ModuleIs, ObjectIs, LinkTypeOK
  <2>3. /\ JumpSlots(m) = Range(Image(m).plt)
        /\ Range(Image(m).table) # {} => object[m] # Cleared
    BY <1>1, <2>2, ObjectHas
  <2>4. PICK stub, owner : /\ stub = IF stubs = {} THEN object[m].stub ELSE CHOOSE a \in stubs : TRUE
                           /\ owner = IF object[m].got = 0 THEN object[m].owner ELSE m
    BY Zenon
  <2>5. object'[m] = [object[m] EXCEPT !.stub = stub, !.owner = owner]
    <3> HIDE DEF stubs
    <3> QED BY <2>1, <2>2, <2>4
  <2>6. PICK isRela, pltSize, place, oldOwner, oldStub, relSize, relaSize, relCount, relaCount :
          object[m] = [isRela |-> isRela, pltSize |-> pltSize, got |-> place, owner |-> oldOwner, stub |-> oldStub,
                       relSize |-> relSize, relaSize |-> relaSize, relCount |-> relCount, relaCount |-> relaCount]
    BY DEF LinkTypeOK
  <2>7. /\ isRela \in BOOLEAN /\ pltSize \in Int /\ place \in Int /\ oldOwner \in Int /\ oldStub \in Int
         /\ relSize \in Int /\ relaSize \in Int /\ relCount \in Int /\ relaCount \in Int
    <3> DEFINE Record == [isRela : BOOLEAN, pltSize : Int, got : Int, owner : Int, stub : Int,
                              relSize : Int, relaSize : Int, relCount : Int, relaCount : Int]
    <3>1. object[m] \in Record
      BY DEF LinkTypeOK
    <3>2. [isRela |-> isRela, pltSize |-> pltSize, got |-> place, owner |-> oldOwner, stub |-> oldStub,
                       relSize |-> relSize, relaSize |-> relaSize, relCount |-> relCount, relaCount |-> relaCount]
            \in Record
      <4> HIDE DEF Record
      <4> QED BY <2>6, <3>1
    <3> QED BY <3>2
  <2>8. object'[m] = [isRela |-> isRela, pltSize |-> pltSize, got |-> place, owner |-> owner, stub |-> stub,
                      relSize |-> relSize, relaSize |-> relaSize, relCount |-> relCount, relaCount |-> relaCount]
    <3>1. PICK record : record = [isRela |-> isRela, pltSize |-> pltSize, got |-> place, owner |-> oldOwner,
                                  stub |-> oldStub, relSize |-> relSize, relaSize |-> relaSize,
                                  relCount |-> relCount, relaCount |-> relaCount]
      OBVIOUS
    <3>2. object'[m] = [record EXCEPT !.stub = stub, !.owner = owner]
      BY <2>5, <2>6, <3>1, Zenon
    <3>3. PICK middle : middle = [record EXCEPT !.stub = stub]
      OBVIOUS
    <3>4. middle = [isRela |-> isRela, pltSize |-> pltSize, got |-> place, owner |-> oldOwner, stub |-> stub,
                    relSize |-> relSize, relaSize |-> relaSize, relCount |-> relCount, relaCount |-> relaCount]
      BY ONLY <3>1, <3>3
    <3>5. [middle EXCEPT !.owner = owner] =
            [isRela |-> isRela, pltSize |-> pltSize, got |-> place, owner |-> owner, stub |-> stub,
             relSize |-> relSize, relaSize |-> relaSize, relCount |-> relCount, relaCount |-> relaCount]
      BY ONLY <3>4
    <3> QED BY <3>2, <3>3, <3>5, Zenon
  <2>9. \A n \in Modules \ {m} : object'[n] = object[n] /\ stage'[n] = stage[n]
    <3> HIDE DEF stubs
    <3> QED BY <2>1 DEF LinkTypeOK
  <2>10. stage'[m] = "resolved"
    BY <2>1, <2>2
  <2>11. /\ word' \in [Places -> Int]
         /\ \A e \in Range(Image(m).table) : word'[Target(m, e)] = Asked(m, e)
         /\ \A e \in Range(Image(m).plt) :
              \/ OddSlot(m, e)
              \/ word'[Target(m, e)] = Base(m) + Was(m, e) /\ (lazy \/ ~Resolvable(m, e))
              \/ word'[Target(m, e)] = Arrives(m, e)
         /\ \A n \in Modules \ {m} : \A e \in Entries(Image(n)) : word'[Target(n, e)] = word[Target(n, e)]
    BY <1>1, <2>1, Resolving
  <2>12. \A e \in Range(Image(m).plt) : StubOf(m, e) = Base(m) + Was(m, e) /\ StubOf(m, e) \in Int
    <3> SUFFICES ASSUME NEW e \in Range(Image(m).plt)
                 PROVE  StubOf(m, e) = Base(m) + Was(m, e) /\ StubOf(m, e) \in Int
      OBVIOUS
    <3>1. word[Target(m, e)] = Was(m, e)
      BY <1>1 DEF ModuleIs, SlotsAre
    <3>2. Base(m) \in Nat /\ Was(m, e) \in Int
      BY EntryIs DEF Entries
    <3> QED BY <3>1, <3>2 DEF StubOf
  <2>13. ASSUME NEW e \in Range(Image(m).plt) PROVE Base(m) + Was(m, e) = stub
    <3>1. IsFiniteSet(stubs)
      BY <2>3, SlotsAreFinite
    <3>2. StubOf(m, e) \in stubs
      BY <2>3
    <3>3. stub \in stubs
      <4> HIDE DEF stubs
      <4> QED BY <3>2, <2>4
    <3>4. stub = StubOf(m, e)
      <4> HIDE DEF stubs
      <4> QED BY <1>4, <3>1, <3>2, <3>3, AtMostOne
    <3> QED BY <3>4, <2>12
  <2>14. stub \in Int /\ owner \in Int
    <3>1. stubs # {} => stub \in Int
      <4> SUFFICES ASSUME stubs # {} PROVE stub \in Int
        OBVIOUS
      <4>1. stub \in stubs
        <5> HIDE DEF stubs
        <5> QED BY <2>4
      <4> QED BY <4>1, <2>3, <2>12
    <3>2. object[m].stub \in Int /\ object[m].owner \in Int
      BY <2>6, <2>7
    <3>3. m \in Int
      BY Loaded
    <3> HIDE DEF stubs
    <3> QED BY <2>4, <3>1, <3>2, <3>3
  <2>15. Range(Image(m).plt) # {} => owner = m
    <3> SUFFICES ASSUME Range(Image(m).plt) # {} PROVE owner = m
      OBVIOUS
    <3>1. WellMade(Image(m)) /\ Base(m) \in Nat \ {0}
      BY Loaded DEF WellMade, Base
    <3>2. Tagged(Image(m), "PLTGOT") # <<>> /\ Value(Image(m), "PLTGOT", 0) \in Nat
      BY <3>1 DEF WellMade, HasSlots, Range
    <3>3. object[m].got = Base(m) + Value(Image(m), "PLTGOT", 0)
      BY <1>1, <2>2, <3>2 DEF ObjectRead
    <3>4. object[m].got # 0
      BY <3>1, <3>2, <3>3
    <3> QED BY <2>4, <3>4
  <2>16. LinkTypeOK'
    <3> DEFINE Record == [isRela : BOOLEAN, pltSize : Int, got : Int, owner : Int, stub : Int,
                              relSize : Int, relaSize : Int, relCount : Int, relaCount : Int]
    <3>1. \A n \in Modules : object[n] \in Record
      BY DEF LinkTypeOK
    <3>2. object'[m] \in Record
      BY <2>8, <2>14, <2>7
    <3> HIDE DEF Record, stubs
    <3>3. object' = [n \in Modules |-> object'[n]]
      BY <2>1 DEF LinkTypeOK
    <3>4. \A n \in Modules : object'[n] \in Record
      BY <3>1, <3>2, <2>9
    <3>5. object' \in [Modules -> Record]
      BY <3>3, <3>4
    <3>6. stage' \in [Modules -> {"loaded", "initialized", "relocated", "resolved"}]
      BY <2>1 DEF LinkTypeOK
    <3> QED BY <1>1, <2>1, <2>11, <3>5, <3>6, Fixed DEF LinkTypeOK, Record
  <2>17. ModuleIs(m)'
    <3>1. \A e : /\ Added(m, e)' = Added(m, e) /\ Was(m, e)' = Was(m, e) /\ Target(m, e)' = Target(m, e)
                 /\ Symbol(m, e)' = Symbol(m, e) /\ Resolvable(m, e)' = Resolvable(m, e)
                 /\ Meaning(m, Symbol(m, e))' = Meaning(m, Symbol(m, e))
      BY <1>1, Fixed
    <3>2. Image(m)' = Image(m) /\ Base(m)' = Base(m)
      BY <1>1, Fixed
    <3>3. object'[m].isRela = object[m].isRela
      BY <2>6, <2>8
    <3>4. \A e : OddSlot(m, e)' = OddSlot(m, e) /\ Arrives(m, e)' = Arrives(m, e)
      <4>1. \A e : OddSlot(m, e)' = OddSlot(m, e)
        BY <1>1, <3>3 DEF OddSlot
      <4>2. \A e : Arrives(m, e)' = Arrives(m, e)
        BY <3>1, <3>3 DEF Arrives
      <4> QED BY <4>1, <4>2
    <3>5. ObjectIs(m)'
      <4>1. ObjectRead(m)'
        <5>1. /\ object'[m].isRela = object[m].isRela /\ object'[m].pltSize = object[m].pltSize
              /\ object'[m].got = object[m].got /\ object'[m].relSize = object[m].relSize
              /\ object'[m].relaSize = object[m].relaSize /\ object'[m].relCount = object[m].relCount
              /\ object'[m].relaCount = object[m].relaCount
          BY <2>6, <2>8
        <5>2. loader = "game" /\ stage[m] # "loaded" /\ stage'[m] # "loaded"
          BY <1>1, <2>10
        <5> QED BY <5>1, <5>2, <2>2, <3>2, Zenon DEF ObjectRead
      <4>2. object'[m].owner = owner
        BY <2>8
      <4> QED BY <4>1, <4>2, <2>10, <2>15, <3>2 DEF ObjectIs
    <3>6. WordsAre(m)'
      <4>1. ASSUME NEW e \in Range(Image(m).table) PROVE Asked(m, e)' = Asked(m, e)
        <5>1. object[m] # Cleared
          BY <2>3
        <5>2. object'[m] # Cleared
          <6> SUFFICES ASSUME object'[m] = Cleared PROVE FALSE
            OBVIOUS
          <6>1. relSize = 0 /\ relaSize = 0
            BY <2>8 DEF Cleared
          <6>2. object[m].relSize = 0 /\ object[m].relaSize = 0
            BY <6>1, <2>6
          <6>3. Value(Image(m), "RELSZ", 0) = 0 /\ Value(Image(m), "RELASZ", 0) = 0
            BY <6>2, <1>1, <2>2 DEF ObjectRead
          <6>4. 0 \div RelSize = 0 /\ 0 \div RelaSize = 0
            BY DEF RelSize, RelaSize
          <6>5. DOMAIN Image(m).table = 1..0
            BY <6>3, <6>4, Loaded DEF WellMade, HasTable
          <6> QED BY <6>5 DEF Range
        <5>3. Cleared' = Cleared
          BY DEF Cleared
        <5> QED BY <5>1, <5>2, <5>3, <3>1, <3>2 DEF Asked
      <4> SUFFICES ASSUME NEW e \in Range(Image(m).table)
                   PROVE  word'[Target(m, e)] = Asked(m, e)'
        BY <2>10, <3>1, <3>2 DEF WordsAre, Untouched
      <4> QED BY <2>11, <4>1
    <3>7. SlotsAre(m)'
      <4> SUFFICES ASSUME NEW e \in Range(Image(m).plt)
                   PROVE  /\ Base(m) + Was(m, e) = stub
                          /\ \/ OddSlot(m, e)
                             \/ word'[Target(m, e)] = stub /\ (lazy \/ ~Resolvable(m, e))
                             \/ word'[Target(m, e)] = Arrives(m, e)
        <5>1. object'[m].stub = stub
          BY <2>8
        <5> QED BY <5>1, <1>1, <2>10, <3>1, <3>2, <3>4 DEF SlotsAre
      <4> QED BY <2>11, <2>13
    <3> QED BY <3>5, <3>6, <3>7 DEF ModuleIs
  <2>18. \A n \in Modules \ {m} : ModuleIs(n)'
    BY <1>1, <2>9, <2>11, Elsewhere
  <2> QED BY <1>1, <1>2, <2>16, <2>17, <2>18, Fixed
<1> QED BY <1>3, <1>4

-----------------------------------------------------------------------------
(* A step of one thread's call leaves the calls of the others as they are. *)

(* The steps of a call, and what they make of it.                          *)
Stores(calls, t, a) == [calls EXCEPT ![t].pc = "store", ![t].address = a]
Branches(calls, t)  == [calls EXCEPT ![t].pc = "branch"]
Reaches(calls, t)   == [calls EXCEPT ![t].pc = "arrived", ![t].regs = "kept"]
With(calls, t, now) == [calls EXCEPT ![t] = now]

LEMMA CallTurns ==
  ASSUME NEW r, NEW pc, NEW m, NEW e, NEW a, r = Call(pc, m, e, a), NEW pc2, NEW a2
  PROVE  /\ [r EXCEPT !.pc = pc2] = Call(pc2, m, e, a)
         /\ [r EXCEPT !.address = a2] = Call(pc, m, e, a2)
         /\ [r EXCEPT !.regs = "kept"] = Call(pc, m, e, a)
<1>1. [r EXCEPT !.pc = pc2] = Call(pc2, m, e, a)
  BY DEF Call
<1>2. [r EXCEPT !.address = a2] = Call(pc, m, e, a2)
  BY DEF Call
<1>3. [r EXCEPT !.regs = "kept"] = Call(pc, m, e, a)
  BY DEF Call
<1> QED BY <1>1, <1>2, <1>3

LEMMA CallsTurn ==
  ASSUME NEW calls, NEW t \in DOMAIN calls, NEW pc, NEW m, NEW e, NEW a, calls[t] = Call(pc, m, e, a)
  PROVE  /\ \A to : Stores(calls, t, to) = With(calls, t, Call("store", m, e, to))
         /\ Branches(calls, t) = With(calls, t, Call("branch", m, e, a))
         /\ Reaches(calls, t) = With(calls, t, Call("arrived", m, e, a))
<1>1. ASSUME NEW pc2
      PROVE  /\ [calls EXCEPT ![t].pc = pc2] = [calls EXCEPT ![t] = Call(pc2, m, e, a)]
             /\ \A to : [calls EXCEPT ![t].pc = pc2, ![t].address = to] = [calls EXCEPT ![t] = Call(pc2, m, e, to)]
             /\ [calls EXCEPT ![t].pc = pc2, ![t].regs = "kept"] = [calls EXCEPT ![t] = Call(pc2, m, e, a)]
  <2>1. [calls EXCEPT ![t].pc = pc2] = [calls EXCEPT ![t] = Call(pc2, m, e, a)]
    <3>1. [calls[t] EXCEPT !.pc = pc2] = Call(pc2, m, e, a)
      BY CallTurns
    <3> QED BY <3>1, Zenon
  <2>2. PICK now : now = [calls EXCEPT ![t] = Call(pc2, m, e, a)]
    OBVIOUS
  <2>3. now[t] = Call(pc2, m, e, a) /\ \A v : [now EXCEPT ![t] = v] = [calls EXCEPT ![t] = v]
    BY <2>2
  <2>4. ASSUME NEW to
        PROVE  [calls EXCEPT ![t].pc = pc2, ![t].address = to] = [calls EXCEPT ![t] = Call(pc2, m, e, to)]
    <3>1. [now[t] EXCEPT !.address = to] = Call(pc2, m, e, to)
      BY <2>3, CallTurns
    <3>2. [now EXCEPT ![t].address = to] = [now EXCEPT ![t] = Call(pc2, m, e, to)]
      BY <3>1, Zenon
    <3>3. [now EXCEPT ![t].address = to] = [calls EXCEPT ![t] = Call(pc2, m, e, to)]
      BY <3>2, <2>3
    <3> QED BY <3>3, <2>1, <2>2, Zenon
  <2>5. [calls EXCEPT ![t].pc = pc2, ![t].regs = "kept"] = [calls EXCEPT ![t] = Call(pc2, m, e, a)]
    <3>1. [now[t] EXCEPT !.regs = "kept"] = Call(pc2, m, e, a)
      BY <2>3, CallTurns
    <3>2. [now EXCEPT ![t].regs = "kept"] = [now EXCEPT ![t] = Call(pc2, m, e, a)]
      BY <3>1, Zenon
    <3>3. [now EXCEPT ![t].regs = "kept"] = [calls EXCEPT ![t] = Call(pc2, m, e, a)]
      BY <3>2, <2>3
    <3> QED BY <3>3, <2>1, <2>2, Zenon
  <2> QED BY <2>1, <2>4, <2>5, Zenon
<1>2. \A to : Stores(calls, t, to) = With(calls, t, Call("store", m, e, to))
  BY <1>1, Zenon DEF Stores, With
<1>3. Branches(calls, t) = With(calls, t, Call("branch", m, e, a))
  BY <1>1, Zenon DEF Branches, With
<1>4. Reaches(calls, t) = With(calls, t, Call("arrived", m, e, a))
  BY <1>1, Zenon DEF Reaches, With
<1> QED BY <1>2, <1>3, <1>4

LEMMA CallMoves ==
  ASSUME LinkTypeOK, CallInv, Linked, ~asserted,
         program' = program, lazy' = lazy, object' = object, stage' = stage, asserted' = asserted,
         NEW t \in Callers, NEW now, call' = [call EXCEPT ![t] = now],
         \/ now = Idle
         \/ \E pc \in {"bind", "store", "branch", "arrived"}, m \in Modules, a \in Int : \E e \in JumpSlots(m) :
              /\ now = Call(pc, m, e, a)
              /\ pc \in {"store", "branch"} => a = Arrives(m, e)
              /\ pc = "arrived" => OddSlot(m, e) \/ a = Arrives(m, e)
  PROVE  CallInv' /\ DOMAIN call' = Callers
<1>1. DOMAIN call = Callers
  BY DEF LinkTypeOK
<1>2. call'[t] = now /\ \A u \in Callers \ {t} : call'[u] = call[u]
  BY <1>1
<1>3. DOMAIN call' = Callers
  BY <1>1
<1>4. Linked' /\ ~asserted'
  BY Fixed DEF Linked
<1>5. ASSUME NEW u \in Callers \ {t}
      PROVE  \/ call'[u] = Idle
             \/ /\ Linked' /\ ~asserted'
                /\ \E pc \in {"bind", "store", "branch", "arrived"}, m \in Modules', a \in Int :
                   \E e \in JumpSlots(m)' :
                     /\ Calling(u, pc, m, e, a)'
                     /\ pc \in {"store", "branch"} => a = Arrives(m, e)'
                     /\ pc = "arrived" => OddSlot(m, e)' \/ a = Arrives(m, e)'
  BY <1>2, CallsStay
<1>6. CASE now = Idle
  <2>1. call'[t] = Idle
    BY <1>2, <1>6
  <2> QED BY <1>3, <1>5, <2>1 DEF CallInv, Idle
<1>7. CASE now # Idle
  <2>1. PICK pc \in {"bind", "store", "branch", "arrived"}, m \in Modules, a \in Int : \E e \in JumpSlots(m) :
              /\ now = Call(pc, m, e, a)
              /\ pc \in {"store", "branch"} => a = Arrives(m, e)
              /\ pc = "arrived" => OddSlot(m, e) \/ a = Arrives(m, e)
    BY <1>7
  <2>2. PICK e \in JumpSlots(m) :
              /\ now = Call(pc, m, e, a)
              /\ pc \in {"store", "branch"} => a = Arrives(m, e)
              /\ pc = "arrived" => OddSlot(m, e) \/ a = Arrives(m, e)
    BY <2>1
  <2>3. Calling(t, pc, m, e, a)'
    BY <1>2, <2>2, Fixed DEF Calling, Call
  <2>4. /\ m \in Modules' /\ e \in JumpSlots(m)'
        /\ pc \in {"store", "branch"} => a = Arrives(m, e)'
        /\ pc = "arrived" => OddSlot(m, e)' \/ a = Arrives(m, e)'
    BY <2>2, Fixed, ObjectFixed
  <2>5. \E pc1 \in {"bind", "store", "branch", "arrived"}, m1 \in Modules', a1 \in Int : \E e1 \in JumpSlots(m1)' :
          /\ Calling(t, pc1, m1, e1, a1)'
          /\ pc1 \in {"store", "branch"} => a1 = Arrives(m1, e1)'
          /\ pc1 = "arrived" => OddSlot(m1, e1)' \/ a1 = Arrives(m1, e1)'
    BY <2>3, <2>4
  <2> QED BY <1>3, <1>4, <1>5, <2>5 DEF CallInv, Idle
<1> QED BY <1>6, <1>7

(* A slot of a linked module.                                              *)
LEMMA SlotIs ==
  ASSUME LinkInv, Linked, NEW m \in Modules, NEW e \in JumpSlots(m)
  PROVE  /\ loader = "game" /\ e \in Range(Image(m).plt) /\ e \in Entries(Image(m)) /\ Target(m, e) \in Places
         /\ word[Target(m, e)] \in Int /\ Arrives(m, e) \in Int
         /\ \/ word[Target(m, e)] = object[m].stub
            \/ OddSlot(m, e) \/ word[Target(m, e)] = Arrives(m, e)
<1> USE DEF LinkInv
<1>1. stage[m] = "resolved" /\ ObjectRead(m)
  BY DEF Linked, ModuleIs, ObjectIs
<1>2. loader = "game"
  <2> SUFFICES ASSUME loader = "self" PROVE FALSE
    BY DEF LinkTypeOK
  <2>1. object[m] = Cleared
    BY <1>1 DEF ObjectRead
  <2> QED BY <1>1, <2>1, ObjectHas
<1>3. e \in Range(Image(m).plt)
  BY <1>1, <1>2, ObjectHas
<1>4. e \in Entries(Image(m))
  BY <1>3 DEF Entries
<1>5. Target(m, e) \in Places
  BY <1>4, Apart
<1>6. word[Target(m, e)] \in Int
  BY <1>5 DEF LinkTypeOK
<1>7. Arrives(m, e) \in Int
  <2>1. Meaning(m, Symbol(m, e)) \in Nat /\ e.addend \in Int
    BY <1>4, EntryIs
  <2> QED BY <2>1 DEF Arrives
<1>8. \/ word[Target(m, e)] = object[m].stub
      \/ OddSlot(m, e) \/ word[Target(m, e)] = Arrives(m, e)
  BY <1>1, <1>2, <1>3 DEF ModuleIs, SlotsAre
<1> QED BY <1>2, <1>3, <1>4, <1>5, <1>6, <1>7, <1>8

BindsTo(m, e) ==
  IF Addresses(m, e) \subseteq {0} THEN 0
  ELSE (CHOOSE a \in Addresses(m, e) : TRUE) + (IF object[m].isRela THEN e.addend ELSE 0)

(* What the linker binds a slot to is the meaning of the slot's own entry. *)
LEMMA BindingIs ==
  ASSUME LinkInv, Linked, NEW m \in Modules, NEW e \in JumpSlots(m)
  PROVE  /\ object[m].owner = m /\ Index(m, Target(m, e)) + 1 \in DOMAIN Image(m).plt
         /\ LazyBindSymbol(m, Index(m, Target(m, e))) = Arrives(m, e)
<1> USE DEF LinkInv
<1>1. loader = "game" /\ e \in Range(Image(m).plt) /\ e \in Entries(Image(m))
  BY SlotIs
<1>2. stage[m] = "resolved" /\ ObjectRead(m) /\ ObjectIs(m)
  BY DEF Linked, ModuleIs, ObjectIs
<1>3. object[m].owner = m
  BY <1>1, <1>2 DEF ObjectIs
<1>4. PICK k \in DOMAIN Image(m).plt : Image(m).plt[k] = e
  BY <1>1 DEF Range
<1>5. HasSlots(Image(m)) /\ Base(m) \in Nat
  BY Loaded DEF WellMade, Base
<1>6. /\ k \in Int /\ Value(Image(m), "PLTGOT", 0) \in Nat /\ Tagged(Image(m), "PLTGOT") # <<>>
      /\ e.offset = Value(Image(m), "PLTGOT", 0) + 2 + k
  BY <1>4, <1>5 DEF HasSlots
<1>7. object[m].got = Base(m) + Value(Image(m), "PLTGOT", 0)
  BY <1>1, <1>2, <1>6 DEF ObjectRead
<1>8. Index(m, Target(m, e)) + 1 = k
  BY <1>5, <1>6, <1>7 DEF Index, Target
<1>9. LazyBindSymbol(m, Index(m, Target(m, e))) = BindsTo(m, e)
  <2>1. LazyBindSymbol(m, Index(m, Target(m, e))) = BindsTo(m, Image(m).plt[Index(m, Target(m, e)) + 1])
    BY Zenon DEF LazyBindSymbol, BindsTo
  <2> QED BY <1>4, <1>8, <2>1
<1>10. /\ Meaning(m, Symbol(m, e)) \in Nat
       /\ Addresses(m, e) = IF Resolvable(m, e) THEN {Meaning(m, Symbol(m, e))}
                            ELSE IF Symbol(m, e).hidden /\ Symbol(m, e).bind = "weak" THEN {0} ELSE {}
  BY <1>1, EntryIs
<1>11. BindsTo(m, e) = Arrives(m, e)
  <2>1. CASE Resolvable(m, e)
    <3>1. Meaning(m, Symbol(m, e)) # 0 /\ Addresses(m, e) = {Meaning(m, Symbol(m, e))}
      BY <1>10, <2>1 DEF Resolvable
    <3> QED BY <3>1, <2>1 DEF Arrives, BindsTo
  <2>2. CASE ~Resolvable(m, e)
    <3>1. Addresses(m, e) \subseteq {0}
      BY <1>10, <2>2
    <3> QED BY <3>1, <2>2 DEF Arrives, BindsTo
  <2> QED BY <2>1, <2>2
<1> QED BY <1>3, <1>4, <1>8, <1>9, <1>11

(* A thread that is not out is making one of the calls.                    *)
LEMMA Making ==
  ASSUME CallInv, NEW t \in Callers, call[t].pc # "out"
  PROVE  /\ Linked /\ ~asserted
         /\ \E pc \in {"bind", "store", "branch", "arrived"}, m \in Modules, a \in Int : \E e \in JumpSlots(m) :
              /\ call[t] = Call(pc, m, e, a)
              /\ pc \in {"store", "branch"} => a = Arrives(m, e)
              /\ pc = "arrived" => OddSlot(m, e) \/ a = Arrives(m, e)
<1>1. call[t] # Idle
  BY DEF Idle
<1> QED BY <1>1, Zenon DEF CallInv, Calling, Call

LEMMA Stays ==
  ASSUME LinkInv, program' = program, lazy' = lazy, object' = object, stage' = stage, asserted' = asserted,
         loader' = loader, word' = word, CallInv', DOMAIN call' = Callers
  PROVE  LinkInv'
<1> USE DEF LinkInv
<1>1. LinkTypeOK'
  BY Fixed DEF LinkTypeOK
<1>2. \A m \in Modules : ModuleIs(m)'
  BY Elsewhere
<1> QED BY <1>1, <1>2, Fixed

LEMMA StartsToCall ==
  ASSUME LinkInv, NEW t \in Callers, CallSome(t), loader' = loader
  PROVE  LinkInv'
<1> USE DEF LinkInv
<1>1. PICK m \in Modules : \E e \in JumpSlots(m) : CallThrough(t, m, e)
  BY DEF CallSome
<1>2. PICK e \in JumpSlots(m) : CallThrough(t, m, e)
  BY <1>1
<1>3. /\ Linked /\ ~asserted /\ program' = program /\ lazy' = lazy /\ object' = object /\ stage' = stage
      /\ asserted' = asserted /\ word' = word
  BY <1>2 DEF CallThrough
<1>4. PICK pc : pc = IF word[Target(m, e)] = object[m].stub THEN "bind" ELSE "arrived"
  OBVIOUS
<1>5. call' = [call EXCEPT ![t] = Call(pc, m, e, word[Target(m, e)])]
  BY <1>2, <1>4 DEF CallThrough, Call
<1>6. /\ pc \in {"bind", "arrived"} /\ word[Target(m, e)] \in Int
      /\ pc = "arrived" => OddSlot(m, e) \/ word[Target(m, e)] = Arrives(m, e)
  BY <1>3, <1>4, SlotIs
<1>7. CallInv' /\ DOMAIN call' = Callers
  BY <1>3, <1>5, <1>6, CallMoves
<1> QED BY <1>3, <1>7, Stays

LEMMA CallStepKeeps ==
  ASSUME LinkInv, NEW t \in Callers, CallStep(t), loader' = loader
  PROVE  LinkInv'
<1> USE DEF LinkInv
<1>1. call[t].pc # "out" /\ DOMAIN call = Callers
  BY DEF CallStep, Bind, StoreSlot, Branch, ReturnFrom, LinkTypeOK
<1>2. Linked /\ ~asserted
  BY <1>1, Making
<1>3. PICK pc \in {"bind", "store", "branch", "arrived"}, m \in Modules, a \in Int : \E e \in JumpSlots(m) :
        /\ call[t] = Call(pc, m, e, a)
        /\ pc \in {"store", "branch"} => a = Arrives(m, e)
        /\ pc = "arrived" => OddSlot(m, e) \/ a = Arrives(m, e)
  BY <1>1, Making
<1>4. PICK e \in JumpSlots(m) :
        /\ call[t] = Call(pc, m, e, a)
        /\ pc \in {"store", "branch"} => a = Arrives(m, e)
        /\ pc = "arrived" => OddSlot(m, e) \/ a = Arrives(m, e)
  BY <1>3
<1>5. program' = program /\ lazy' = lazy /\ object' = object /\ stage' = stage /\ asserted' = asserted
  BY DEF CallStep, Bind, StoreSlot, Branch, ReturnFrom
<1>6. /\ call[t].pc = pc /\ call[t].module = m /\ call[t].entry = e /\ call[t].slot = Target(m, e)
      /\ call[t].address = a /\ call[t].regs = "kept"
  BY <1>4 DEF Call
<1>7. Arrives(m, e) \in Int
  BY <1>2, SlotIs
<1>8. CASE Bind(t)
  <2>1. /\ pc = "bind" /\ word' = word
        /\ call' = [call EXCEPT ![t].pc = "store", ![t].address = Arrives(m, e)]
    <3>1. pc = "bind" /\ word' = word
      BY <1>6, <1>8 DEF Bind
    <3>2. /\ object[m].owner = m /\ Index(m, Target(m, e)) + 1 \in DOMAIN Image(m).plt
          /\ LazyBindSymbol(m, Index(m, Target(m, e))) = Arrives(m, e)
      BY <1>2, BindingIs
    <3>3. PICK address : address = IF Index(m, Target(m, e)) + 1 \in DOMAIN Image(m).plt
                                   THEN LazyBindSymbol(m, Index(m, Target(m, e))) ELSE -1
      OBVIOUS
    <3>4. call' = [call EXCEPT ![t].pc = "store", ![t].address = address]
      BY <1>6, <1>8, <3>2, <3>3, Zenon DEF Bind
    <3>5. address = Arrives(m, e)
      BY <3>2, <3>3
    <3> QED BY <3>1, <3>4, <3>5, Zenon
  <2>2. call' = [call EXCEPT ![t] = Call("store", m, e, Arrives(m, e))]
    <3>1. t \in DOMAIN call /\ call[t] = Call(pc, m, e, a)
      BY <1>1, <1>4
    <3>2. call' = Stores(call, t, Arrives(m, e))
      BY <2>1 DEF Stores
    <3>3. call' = With(call, t, Call("store", m, e, Arrives(m, e)))
      BY <3>1, <3>2, CallsTurn
    <3> QED BY <3>3 DEF With
  <2>3. CallInv' /\ DOMAIN call' = Callers
    BY <1>2, <1>5, <1>7, <2>2, CallMoves
  <2> QED BY <1>5, <2>1, <2>3, Stays
<1>9. CASE Branch(t)
  <2>1. Restored
    BY DEF Restored, Pops, Pushes
  <2>2. /\ pc = "branch" /\ word' = word
        /\ call' = [call EXCEPT ![t].pc = "arrived", ![t].regs = "kept"]
    <3>1. pc = "branch" /\ word' = word
      BY <1>6, <1>9 DEF Branch
    <3>2. PICK regs : regs = IF Restored THEN "kept" ELSE "lost"
      OBVIOUS
    <3>3. call' = [call EXCEPT ![t].pc = "arrived", ![t].regs = regs]
      BY <1>9, <3>2, Zenon DEF Branch
    <3>4. regs = "kept"
      BY <2>1, <3>2
    <3> QED BY <3>1, <3>3, <3>4, Zenon
  <2>3. call' = [call EXCEPT ![t] = Call("arrived", m, e, a)]
    <3>1. t \in DOMAIN call /\ call[t] = Call(pc, m, e, a)
      BY <1>1, <1>4
    <3>2. call' = Reaches(call, t)
      BY <2>2 DEF Reaches
    <3>3. call' = With(call, t, Call("arrived", m, e, a))
      BY <3>1, <3>2, CallsTurn
    <3> QED BY <3>3 DEF With
  <2>4. CallInv' /\ DOMAIN call' = Callers
    <3>1. pc = "branch"
      BY <2>2
    <3>2. a = Arrives(m, e)
      BY <1>4, <3>1
    <3> HIDE DEF LinkInv
    <3> QED BY <1>2, <1>5, <1>7, <2>3, <3>2, CallMoves DEF LinkInv
  <2> QED BY <1>5, <2>2, <2>4, Stays
<1>10. CASE ReturnFrom(t)
  <2>1. word' = word /\ call' = [call EXCEPT ![t] = Idle]
    BY <1>10 DEF ReturnFrom
  <2>2. CallInv' /\ DOMAIN call' = Callers
    BY <1>2, <1>5, <2>1, CallMoves
  <2> QED BY <1>5, <2>1, <2>2, Stays
<1>11. CASE StoreSlot(t)
  <2>1. /\ pc = "store" /\ word' = [word EXCEPT ![Target(m, e)] = Arrives(m, e)]
        /\ call' = [call EXCEPT ![t].pc = "branch"]
    BY <1>4, <1>6, <1>11 DEF StoreSlot
  <2>2. call' = [call EXCEPT ![t] = Call("branch", m, e, a)]
    <3>1. t \in DOMAIN call /\ call[t] = Call(pc, m, e, a)
      BY <1>1, <1>4
    <3>2. call' = Branches(call, t)
      BY <2>1 DEF Branches
    <3>3. call' = With(call, t, Call("branch", m, e, a))
      BY <3>1, <3>2, CallsTurn
    <3> QED BY <3>3 DEF With
  <2>3. CallInv' /\ DOMAIN call' = Callers
    BY <1>2, <1>4, <1>5, <2>1, <2>2, CallMoves
  <2>4. /\ loader = "game" /\ e \in Range(Image(m).plt) /\ e \in Entries(Image(m)) /\ Target(m, e) \in Places
    BY <1>2, SlotIs
  <2>5. /\ word' \in [Places -> Int] /\ word'[Target(m, e)] = Arrives(m, e)
        /\ \A p \in Places \ {Target(m, e)} : word'[p] = word[p]
    BY <1>7, <2>1, <2>4 DEF LinkTypeOK
  <2>6. ASSUME NEW n \in Modules, NEW f \in Entries(Image(n)), n # m \/ f # e
        PROVE  word'[Target(n, f)] = word[Target(n, f)]
    BY <2>4, <2>5, <2>6, Apart
  <2>7. LinkTypeOK'
    BY <1>5, <2>3, <2>5, Fixed DEF LinkTypeOK
  <2>8. ASSUME NEW n \in Modules, n # m PROVE ModuleIs(n)'
    BY <1>5, <2>6, <2>8, Elsewhere
  <2>9. ModuleIs(m)'
    <3>1. ObjectRead(m)'
      BY <1>5, Fixed DEF ModuleIs, ObjectIs, ObjectRead, Cleared
    <3>2. ObjectIs(m)'
      BY <1>5, <3>1, Fixed DEF ModuleIs, ObjectIs
    <3>3. WordsAre(m)'
      <4> SUFFICES ASSUME NEW f \in Range(Image(m).table)
                   PROVE  word'[Target(m, f)] =
                            IF stage[m] \in Untouched \/ (stage[m] = "relocated" /\ f.type # "relative")
                            THEN Was(m, f) ELSE Asked(m, f)
        BY <1>5, Fixed, ObjectFixed DEF WordsAre, Untouched
      <4>1. f # e /\ f \in Entries(Image(m))
        BY <2>4, KindsOfEntries
      <4>2. word'[Target(m, f)] = word[Target(m, f)]
        BY <2>6, <4>1
      <4> QED BY <4>2 DEF ModuleIs, WordsAre
    <3>4. SlotsAre(m)'
      <4>1. stage[m] = "resolved"
        BY <1>2 DEF Linked
      <4> SUFFICES ASSUME NEW f \in Range(Image(m).plt)
                   PROVE  /\ Base(m) + Was(m, f) = object[m].stub
                          /\ \/ OddSlot(m, f)
                             \/ word'[Target(m, f)] = object[m].stub /\ (lazy \/ ~Resolvable(m, f))
                             \/ word'[Target(m, f)] = Arrives(m, f)
        BY <1>5, <2>4, <4>1, Fixed, ObjectFixed DEF SlotsAre
      <4>2. /\ Base(m) + Was(m, f) = object[m].stub
            /\ \/ OddSlot(m, f)
               \/ word[Target(m, f)] = object[m].stub /\ (lazy \/ ~Resolvable(m, f))
               \/ word[Target(m, f)] = Arrives(m, f)
        BY <2>4, <4>1 DEF ModuleIs, SlotsAre
      <4>3. f # e => word'[Target(m, f)] = word[Target(m, f)]
        BY <2>6 DEF Entries
      <4> QED BY <2>5, <4>2, <4>3
    <3> QED BY <3>2, <3>3, <3>4 DEF ModuleIs
  <2> QED BY <2>3, <2>7, <2>8, <2>9, <1>5, Fixed
<1> QED BY <1>8, <1>9, <1>10, <1>11 DEF CallStep

LEMMA Unlinked ==
  ASSUME LinkInv, UNCHANGED <<link, loader>>
  PROVE  LinkInv'
<1>1. /\ program' = program /\ lazy' = lazy /\ object' = object /\ stage' = stage /\ asserted' = asserted
      /\ word' = word /\ call' = call /\ loader' = loader
  BY DEF link
<1>2. DOMAIN call' = Callers
  BY <1>1 DEF LinkInv, LinkTypeOK
<1>3. CallInv'
  <2> SUFFICES ASSUME NEW t \in Callers
               PROVE  \/ call'[t] = Idle
                      \/ /\ Linked' /\ ~asserted'
                         /\ \E pc \in {"bind", "store", "branch", "arrived"}, m \in Modules', a \in Int :
                              \E e \in JumpSlots(m)' :
                                /\ Calling(t, pc, m, e, a)'
                                /\ pc \in {"store", "branch"} => a = Arrives(m, e)'
                                /\ pc = "arrived" => OddSlot(m, e)' \/ a = Arrives(m, e)'
    BY Zenon DEF CallInv, Idle
  <2> QED BY <1>1, CallsStay DEF LinkInv
<1> QED BY <1>1, <1>2, <1>3, Stays

(* Every step of the program keeps what is linked.                         *)
LEMMA NextLinks == LinkInv /\ [Next]_vars => LinkInv'
<1> SUFFICES ASSUME LinkInv, [Next]_vars PROVE LinkInv'
  OBVIOUS
<1>1. CASE LinkModule
  <2>1. loader' = loader /\ loader \in {"game", "self"}
    BY <1>1 DEF LinkModule, LinkInv, LinkTypeOK
  <2>2. PICK m \in Modules : IF loader = "game" THEN LinkStep(m) ELSE DynamicSelf(m)
    BY <1>1 DEF LinkModule
  <2>3. CASE loader = "game"
    BY <2>1, <2>2, <2>3, Initializes, Relocates, Resolves DEF LinkStep
  <2>4. CASE loader = "self"
    BY <2>1, <2>2, <2>4, LinksItself
  <2> QED BY <2>1, <2>3, <2>4
<1>2. CASE \E t \in Callers : MakeCall(t)
  <2>1. PICK t \in Callers : MakeCall(t)
    BY <1>2
  <2> QED BY <2>1, StartsToCall, CallStepKeeps DEF MakeCall
<1>3. CASE UNCHANGED <<link, loader>>
  BY <1>3, Unlinked
<1>4. CASE Over
  BY <1>3, <1>4 DEF Over, vars
<1>5. CASE BootStep /\ ~LinkModule
  <2>1. UNCHANGED <<link, loader>>
    BY <1>5 DEF BootStep, StartInit, Scan, SetRegions, SetVirtmem, InitPatcherImpl, Main
  <2> QED BY <2>1, <1>3
<1>6. CASE \E t \in Threads : Ask(t) \/ GetStep(t)
  <2>1. UNCHANGED <<link, loader>>
    BY <1>6 DEF Ask, GetStep
  <2> QED BY <2>1, <1>3
<1>7. CASE UNCHANGED vars
  BY <1>3, <1>7 DEF vars
<1> QED BY <1>1, <1>2, <1>4, <1>5, <1>6, <1>7 DEF Next

(* What LinkInv says of modules that are linked is what is asked of them.  *)
LEMMA InvLinks == LinkInv => LinkSound
<1> SUFFICES ASSUME LinkInv PROVE LinkSound
  OBVIOUS
<1>1. ASSUME Linked, NEW m \in Modules, NEW e \in Range(Image(m).table)
      PROVE  word[Target(m, e)] = Asked(m, e)
  <2>1. stage[m] = "resolved"
    BY <1>1 DEF Linked
  <2> QED BY <2>1 DEF LinkInv, ModuleIs, WordsAre, Untouched
<1>2. ASSUME Linked, NEW m \in Modules, NEW e \in JumpSlots(m)
      PROVE  OddSlot(m, e) \/ SlotHolds(m, e, word[Target(m, e)])
  <2>1. stage[m] = "resolved" /\ loader = "game" /\ e \in Range(Image(m).plt)
    BY <1>2, SlotIs DEF Linked
  <2>2. /\ Base(m) + Was(m, e) = object[m].stub
        /\ \/ OddSlot(m, e)
           \/ word[Target(m, e)] = object[m].stub /\ (lazy \/ ~Resolvable(m, e))
           \/ word[Target(m, e)] = Arrives(m, e)
    BY <2>1 DEF LinkInv, ModuleIs, SlotsAre
  <2>3. CASE word[Target(m, e)] = Arrives(m, e) /\ Resolvable(m, e)
    BY <2>3 DEF Arrives, SlotHolds
  <2>4. CASE word[Target(m, e)] = Arrives(m, e) /\ ~Resolvable(m, e)
    BY <2>4 DEF Arrives, SlotHolds
  <2>5. CASE word[Target(m, e)] = object[m].stub /\ (lazy \/ ~Resolvable(m, e))
    BY <2>2, <2>5 DEF SlotHolds
  <2> QED BY <2>2, <2>3, <2>4, <2>5
<1>3. ASSUME NEW t \in Callers, call[t].pc = "arrived"
      PROVE  \/ OddSlot(call[t].module, call[t].entry)
             \/ /\ call[t].regs = "kept"
                /\ call[t].address =
                     IF Resolvable(call[t].module, call[t].entry)
                     THEN Meaning(call[t].module, Symbol(call[t].module, call[t].entry))
                            + (IF object[call[t].module].isRela THEN call[t].entry.addend ELSE 0)
                     ELSE 0
  <2>1. PICK pc \in {"bind", "store", "branch", "arrived"}, m \in Modules, a \in Int : \E e \in JumpSlots(m) :
          /\ call[t] = Call(pc, m, e, a)
          /\ pc \in {"store", "branch"} => a = Arrives(m, e)
          /\ pc = "arrived" => OddSlot(m, e) \/ a = Arrives(m, e)
    BY <1>3, Making DEF LinkInv
  <2>2. PICK e \in JumpSlots(m) :
          /\ call[t] = Call(pc, m, e, a)
          /\ pc = "arrived" => OddSlot(m, e) \/ a = Arrives(m, e)
    BY <2>1
  <2>3. /\ call[t].pc = pc /\ call[t].module = m /\ call[t].entry = e /\ call[t].address = a
        /\ call[t].regs = "kept"
    BY <2>2 DEF Call
  <2>4. OddSlot(m, e) \/ a = Arrives(m, e)
    BY <1>3, <2>2, <2>3
  <2> QED BY <2>3, <2>4 DEF Arrives
<1>4. SlotsLinked
  BY <1>1, <1>2 DEF SlotsLinked
<1>5. CallsArrive
  BY <1>3, Zenon DEF CallsArrive
<1> QED BY <1>4, <1>5 DEF LinkSound

(* For every list of modules that tools make, loaded where they do not     *)
(* overlap, linked lazily or at once, or the program moving itself: once   *)
(* linked, every word holds what its relocation asks for, every slot its   *)
(* stub or the meaning of its symbol, and every call of every thread       *)
(* arrives at that meaning with its registers, whatever calls are being    *)
(* bound beside it (ModuleObject, rtld_bind.s, __rtld_lazy_bind_symbol).   *)
THEOREM LinkIsSound == Spec => []LinkSound
<1>1. Spec => []LinkInv
  BY LinkStarts, NextLinks, PTL DEF Spec
<1> QED BY <1>1, InvLinks, PTL
=============================================================================
