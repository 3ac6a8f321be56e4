------------------------------ MODULE UPnPPorts ------------------------------
(***************************************************************************)
(* src/upnp_ports.cpp: the hooks on sendto, closesocket and WSACleanup     *)
(* that run on the game's threads, the worker that talks to the NAT        *)
(* helper, the installation of both, and the DLL's teardown.               *)
(*                                                                         *)
(* An action is what one thread does between two accesses to shared memory *)
(* that another thread can tell apart.  Variables named g_... are the      *)
(* globals of the file; tpc, wpc, ipc and dpc say where the game threads,  *)
(* the worker, the installer (EnsureInit) and the thread that runs         *)
(* DllMain(DLL_PROCESS_DETACH) stand.                                      *)
(*                                                                         *)
(* A definition marked WRONG is a mistake one could make in the one that   *)
(* follows it.  Nothing uses it: PROJECT.json pairs it with the property   *)
(* that notices the mistake.                                               *)
(***************************************************************************)
EXTENDS Integers, Sequences

CONSTANTS
  Threads,       \* threads of the game that call the hooked functions
  Sockets,       \* sockets the game's server opens
  Ports,         \* port numbers, all different from 0
  Handles,       \* handles the NAT helper can give out (bounds its leases)
  MAX_MAPPINGS,  \* the size of g_maps
  Fails,         \* TRUE: the NAT helper, CreateEvent and CreateThread may fail
  Endings,       \* how the DLL may end: "exit" of the process, or its "unload"
  NoPort,        \* the port number 0 of an empty request slot
  NoSock,        \* INVALID_SOCKET
  Worker, Detacher, NoOne   \* the other owners of g_lock, and nobody

ASSUME BoundsAssumption == MAX_MAPPINGS \in Nat \ {0}

ASSUME SwitchAssumption == Fails \in BOOLEAN /\ Endings \subseteq {"exit", "unload"}

ASSUME NamesAssumption ==
  /\ NoPort \notin Ports /\ NoSock \notin Sockets
  /\ Worker # Detacher /\ Worker # NoOne /\ Detacher # NoOne
  /\ {Worker, Detacher, NoOne} \cap Threads = {}

VARIABLES
  g_nat,                 \* g_nat is not NULL
  g_maps,                \* g_maps[0 .. g_mapCount - 1]
  cursor,                \* i of nat_release_all, a local of the owner of g_lock
  leases, refused,       \* what the NAT helper holds open for us, and the part
                         \* of it that DeregisterPorts failed to give back
  g_lock,                \* the owner of the critical section
  g_lockReady, g_disabled, g_stop,
  g_querySock,
  g_want,                \* g_wantQuery (index FALSE), g_wantGame (index TRUE)
  g_wantRelease,
  g_wakeup, g_released,  \* auto-reset events: "null", "unset" or "set"
  tpc, call,             \* game threads: place, arguments of the hooked call
  open,                  \* the sockets the game has open
  wpc, job, got, ready,  \* worker: place, q and g, the lease just granted, ready
  ipc, hooked,           \* installer: place, number of hooks enabled
  dpc,                   \* detaching thread: place
  proc                   \* "running", "exiting", "unloaded" or "gone"

natVars   == <<g_nat, g_maps, cursor, leases, refused>>
flagVars  == <<g_lockReady, g_disabled, g_stop>>
askVars   == <<g_querySock, g_want, g_wantRelease>>
eventVars == <<g_wakeup, g_released>>
gameVars  == <<tpc, call, open>>
workVars  == <<wpc, job, got, ready>>
restVars  == <<ipc, hooked, dpc, proc>>
vars == <<natVars, g_lock, flagVars, askVars, eventVars, gameVars, workVars, restVars>>

Lease == [handle : Handles, port : Ports, tcp : BOOLEAN]
Slot  == Ports \union {NoPort}
Call  == [sock : Sockets \union {NoSock}, port : Slot, tcp : BOOLEAN]

NoCall     == [sock |-> NoSock, port |-> NoPort, tcp |-> FALSE]
EmptySlots == [tcp \in BOOLEAN |-> NoPort]
Running    == proc = "running"

\* SetEvent, on an event that may not exist.
Signalled(e) == IF e = "null" THEN "null" ELSE "set"

ThreadAt(t, here)    == Running /\ tpc[t] = here
ThreadGoes(t, there) == tpc' = [tpc EXCEPT ![t] = there]
WorkerAt(here)       == Running /\ wpc = here
InstallAt(here)      == Running /\ dpc = "idle" /\ ipc = here

\* EnterCriticalSection, and whether TryEnterCriticalSection can fail.
EntersAnyway(me) == g_lock' = me               \* WRONG: no mutual exclusion
Enters(me)       == g_lock = NoOne /\ g_lock' = me
NeverRefused     == FALSE                      \* WRONG: the lock is waited for
TryRefused       == g_lock # NoOne

-----------------------------------------------------------------------------
(* The game's sockets. *)

OpenSocket(s) ==
  /\ Running /\ s \notin open
  /\ open' = open \union {s}
  /\ UNCHANGED <<natVars, g_lock, flagVars, askVars, eventVars, tpc, call, workVars, restVars>>

\* closesocket while it is not hooked yet: no code of the shim runs.
PlainClose(s) ==
  /\ Running /\ hooked < 2 /\ s \in open
  /\ open' = open \ {s}
  /\ UNCHANGED <<natVars, g_lock, flagVars, askVars, eventVars, tpc, call, workVars, restVars>>

-----------------------------------------------------------------------------
(* hook_sendto and want_port. *)

\* A datagram "\heartbeat\<p>...": remember its socket, then ask for UDP p.
SendHeartbeat(t, s, p) ==
  /\ ThreadAt(t, "idle") /\ hooked >= 1 /\ s \in open /\ ~g_disabled
  /\ g_querySock' = s
  /\ call' = [call EXCEPT ![t] = [sock |-> s, port |-> p, tcp |-> FALSE]]
  /\ ThreadGoes(t, "want")
  /\ UNCHANGED <<natVars, g_lock, flagVars, g_want, g_wantRelease, eventVars, open, workVars, restVars>>

\* A status reply with "\hostport\<p>": ask for TCP p.
SendStatus(t, p) ==
  /\ ThreadAt(t, "idle") /\ hooked >= 1 /\ open # {} /\ ~g_disabled
  /\ call' = [call EXCEPT ![t] = [sock |-> NoSock, port |-> p, tcp |-> TRUE]]
  /\ ThreadGoes(t, "want")
  /\ UNCHANGED <<natVars, g_lock, flagVars, askVars, eventVars, open, workVars, restVars>>

WantPort(t) ==
  /\ ThreadAt(t, "want")
  /\ IF g_disabled
       THEN ThreadGoes(t, "idle") /\ UNCHANGED g_want
       ELSE /\ g_want' = [g_want EXCEPT ![call[t].tcp] = call[t].port]
            /\ ThreadGoes(t, IF g_want' = g_want THEN "idle" ELSE "signal")
  /\ call' = [call EXCEPT ![t] = NoCall]
  /\ UNCHANGED <<natVars, g_lock, flagVars, g_querySock, g_wantRelease, eventVars, open, workVars, restVars>>

\* SetEvent(g_wakeup), for a wanted port or for a release handed over.
SetWakeup(t) ==
  /\ \/ ThreadAt(t, "signal") /\ ThreadGoes(t, "idle")
     \/ ThreadAt(t, "wake") /\ ThreadGoes(t, "await")
  /\ g_wakeup' = Signalled(g_wakeup)
  /\ UNCHANGED <<natVars, g_lock, flagVars, askVars, g_released, call, open, workVars, restVars>>

-----------------------------------------------------------------------------
(* hook_closesocket, hook_WSACleanup and release_now. *)

CloseSocket(t, s) ==
  /\ ThreadAt(t, "idle") /\ hooked >= 2 /\ s \in open
  /\ call' = [call EXCEPT ![t] = [NoCall EXCEPT !.sock = s]]
  /\ ThreadGoes(t, IF s = g_querySock THEN "forget" ELSE "return")
  /\ UNCHANGED <<natVars, g_lock, flagVars, askVars, eventVars, open, workVars, restVars>>

ForgetQuerySock(t) ==
  /\ ThreadAt(t, "forget")
  /\ g_querySock' = NoSock
  /\ ThreadGoes(t, "check")
  /\ UNCHANGED <<natVars, g_lock, flagVars, g_want, g_wantRelease, eventVars, call, open, workVars, restVars>>

WSACleanup(t) ==
  /\ ThreadAt(t, "idle") /\ hooked = 3
  /\ call' = [call EXCEPT ![t] = NoCall]
  /\ ThreadGoes(t, "check")
  /\ UNCHANGED <<natVars, g_lock, flagVars, askVars, eventVars, open, workVars, restVars>>

\* g_mapCount is read without the lock.
CheckMaps(t) ==
  /\ ThreadAt(t, "check")
  /\ ThreadGoes(t, IF ~g_lockReady \/ g_maps = <<>> THEN "return" ELSE "try")
  /\ UNCHANGED <<natVars, g_lock, flagVars, askVars, eventVars, call, open, workVars, restVars>>

TryLock(t) ==
  /\ ThreadAt(t, "try")
  /\ \/ Enters(t) /\ ThreadGoes(t, "sweep")
     \/ TryRefused /\ ThreadGoes(t, "handoff") /\ UNCHANGED g_lock
  /\ UNCHANGED <<natVars, flagVars, askVars, eventVars, call, open, workVars, restVars>>

HandOff(t) ==
  /\ ThreadAt(t, "handoff")
  /\ g_wantRelease' = TRUE
  /\ ThreadGoes(t, "wake")
  /\ UNCHANGED <<natVars, g_lock, flagVars, g_querySock, g_want, eventVars, call, open, workVars, restVars>>

\* WaitForSingleObject(g_released, 3000): the event, or the timeout.
AwaitReleased(t) ==
  /\ ThreadAt(t, "await")
  /\ \/ g_released = "set" /\ g_released' = "unset"
     \/ UNCHANGED g_released
  /\ ThreadGoes(t, "return")
  /\ UNCHANGED <<natVars, g_lock, flagVars, askVars, g_wakeup, call, open, workVars, restVars>>

\* The hook calls the original function, which closes the socket.
CallOriginal(t) ==
  /\ ThreadAt(t, "return")
  /\ open' = open \ {call[t].sock}
  /\ call' = [call EXCEPT ![t] = NoCall]
  /\ ThreadGoes(t, "idle")
  /\ UNCHANGED <<natVars, g_lock, flagVars, askVars, eventVars, workVars, restVars>>

-----------------------------------------------------------------------------
(* nat_release_all, by a game thread, the worker or the detaching thread.  *)

\* DeregisterPorts on the next mapping; its result is only logged.
Deregister ==
  /\ g_nat /\ cursor <= Len(g_maps)
  /\ \/ /\ leases' = leases \ {g_maps[cursor]}
        /\ UNCHANGED refused
     \/ /\ Fails
        /\ refused' = refused \union {g_maps[cursor]}
        /\ UNCHANGED leases
  /\ cursor' = cursor + 1
  /\ UNCHANGED <<g_nat, g_maps, g_lock, flagVars, askVars, eventVars, gameVars, workVars, restVars>>

ThreadSweep(t) == ThreadAt(t, "sweep") /\ Deregister
WorkerSweep    == WorkerAt("sweep") /\ Deregister
DetachSweep    == Running /\ dpc = "sweep" /\ Deregister

EndsEarly == ~g_nat \/ cursor >= Len(g_maps)   \* WRONG: i < g_mapCount - 1
SweepEnds == ~g_nat \/ cursor > Len(g_maps)

\* The loop ends, g_mapCount = 0, and the caller leaves the critical section.
SweepDone ==
  /\ SweepEnds
  /\ g_maps' = IF g_nat THEN <<>> ELSE g_maps
  /\ cursor' = 1
  /\ g_lock' = NoOne
  /\ UNCHANGED <<leases, refused>>

ThreadSwept(t) ==
  /\ ThreadAt(t, "sweep") /\ SweepDone
  /\ ThreadGoes(t, "return")
  /\ UNCHANGED <<g_nat, flagVars, askVars, eventVars, call, open, workVars, restVars>>

-----------------------------------------------------------------------------
(* The worker thread. *)

NoTimeout == FALSE                             \* WRONG: the wait is INFINITE
TimesOut  == TRUE

\* The wait for g_wakeup ends with the event or after 5 s; it does not begin
\* once g_stop is set.
WaitWakeup ==
  /\ WorkerAt("wait")
  /\ \/ g_stop /\ wpc' = "exited" /\ UNCHANGED g_wakeup
     \/ g_wakeup = "set" /\ wpc' = "woken" /\ g_wakeup' = "unset"
     \/ TimesOut /\ wpc' = "woken" /\ UNCHANGED g_wakeup
  /\ UNCHANGED <<natVars, g_lock, flagVars, askVars, g_released, gameVars, job, got, ready, restVars>>

\* A release takes precedence; otherwise both request slots are emptied.
TakeRequests ==
  /\ WorkerAt("woken")
  /\ IF g_stop
       THEN wpc' = "exited" /\ UNCHANGED <<g_wantRelease, g_want, job>>
     ELSE IF g_wantRelease
       THEN wpc' = "lockRelease" /\ g_wantRelease' = FALSE /\ UNCHANGED <<g_want, job>>
     ELSE /\ wpc' = IF g_want = EmptySlots THEN "wait" ELSE "lockRegister"
          /\ job' = g_want /\ g_want' = EmptySlots
          /\ UNCHANGED g_wantRelease
  /\ UNCHANGED <<natVars, g_lock, flagVars, g_querySock, eventVars, gameVars, got, ready, restVars>>

OpensAgain == "open"                           \* WRONG: ready is not looked at
NeverOpens == "register"                       \* WRONG: nor is the helper opened
OnceLocked == IF ready THEN "register" ELSE "open"

WorkerLocks ==
  /\ \/ WorkerAt("lockRelease") /\ wpc' = "sweep"
     \/ WorkerAt("lockRegister") /\ wpc' = OnceLocked
  /\ Enters(Worker)
  /\ UNCHANGED <<natVars, flagVars, askVars, eventVars, gameVars, job, got, ready, restVars>>

WorkerSwept ==
  /\ WorkerAt("sweep") /\ SweepDone
  /\ wpc' = "notify"
  /\ UNCHANGED <<g_nat, flagVars, askVars, eventVars, gameVars, job, got, ready, restVars>>

NotifyReleased ==
  /\ WorkerAt("notify")
  /\ g_released' = Signalled(g_released)
  /\ wpc' = "wait"
  /\ UNCHANGED <<natVars, g_lock, flagVars, askVars, g_wakeup, gameVars, job, got, ready, restVars>>

\* nat_open: LoadLibrary needs the loader lock, which DllMain holds while it
\* runs.  That it, the creation of the helper or its Initialize fails is one.
OpenNat ==
  /\ WorkerAt("open")
  /\ g_nat \/ dpc = "idle"
  /\ \/ g_nat' = TRUE /\ wpc' = "gateway"
     \/ ~g_nat /\ Fails /\ wpc' = "giveUp" /\ UNCHANGED g_nat
  /\ UNCHANGED <<g_maps, cursor, leases, refused, g_lock, flagVars, askVars, eventVars, gameVars, job, got, ready, restVars>>

\* nat_wait_gateway.  A round that finds no gateway changes nothing; the loop
\* ends without one when g_stop is set or the rounds run out.
WaitGateway ==
  /\ WorkerAt("gateway")
  /\ \/ ~g_stop /\ ready' = TRUE /\ wpc' = "register"
     \/ (g_stop \/ Fails) /\ wpc' = "giveUp" /\ UNCHANGED ready
  /\ UNCHANGED <<natVars, g_lock, flagVars, askVars, eventVars, gameVars, job, got, restVars>>

\* No helper or no gateway: the worker ends and never tries again.
GiveUp ==
  /\ WorkerAt("giveUp")
  /\ g_disabled' = TRUE
  /\ g_lock' = NoOne
  /\ wpc' = "exited"
  /\ UNCHANGED <<natVars, g_lockReady, g_stop, askVars, eventVars, gameVars, job, got, ready, restVars>>

\* The query port (UDP) is registered before the game port (TCP).
NextTcp == job[FALSE] = NoPort
HaveJob == WorkerAt("register") /\ job # EmptySlots

MapsOverfull == Len(g_maps) > MAX_MAPPINGS     \* WRONG: > for >=
MapsFull == Len(g_maps) >= MAX_MAPPINGS

MappedButLast(port, tcp) ==                    \* WRONG: i < g_mapCount - 1
  \E i \in 1 .. Len(g_maps) - 1 : g_maps[i].port = port /\ g_maps[i].tcp = tcp

AlreadyMapped(port, tcp) ==
  \E i \in 1 .. Len(g_maps) : g_maps[i].port = port /\ g_maps[i].tcp = tcp

Skipped == MapsFull \/ AlreadyMapped(job[NextTcp], NextTcp)

\* nat_register grants a lease, with the fixed port or on its second try.
RegisterPort ==
  /\ HaveJob /\ ~Skipped /\ g_nat
  /\ \E h \in Handles :
       /\ \A m \in leases : m.handle # h
       /\ got' = {[handle |-> h, port |-> job[NextTcp], tcp |-> NextTcp]}
  /\ leases' = leases \union got'
  /\ wpc' = "store"
  /\ UNCHANGED <<g_nat, g_maps, cursor, refused, g_lock, flagVars, askVars, eventVars, gameVars, job, ready, restVars>>

\* nat_register returns early, or both its tries fail.
DropJob ==
  /\ HaveJob
  /\ Skipped \/ (g_nat /\ Fails)
  /\ job' = [job EXCEPT ![NextTcp] = NoPort]
  /\ UNCHANGED <<natVars, g_lock, flagVars, askVars, eventVars, gameVars, wpc, got, ready, restVars>>

\* The call goes through a NULL g_nat and takes the process down.
RegisterThroughNull ==
  /\ HaveJob /\ ~Skipped /\ ~g_nat
  /\ wpc' = "fault" /\ proc' = "gone"
  /\ UNCHANGED <<natVars, g_lock, flagVars, askVars, eventVars, gameVars, job, got, ready, ipc, hooked, dpc>>

StoreMapping ==
  /\ WorkerAt("store")
  /\ \E m \in got : g_maps' = Append(g_maps, m)
  /\ got' = {}
  /\ job' = [job EXCEPT ![NextTcp] = NoPort]
  /\ wpc' = "register"
  /\ UNCHANGED <<g_nat, cursor, leases, refused, g_lock, flagVars, askVars, eventVars, gameVars, ready, restVars>>

EndsWhenReady == ready                         \* WRONG: one job is all it does
WorkerEnds    == g_disabled

WorkerUnlocks ==
  /\ WorkerAt("register") /\ job = EmptySlots
  /\ g_lock' = NoOne
  /\ wpc' = IF WorkerEnds THEN "exited" ELSE "wait"
  /\ UNCHANGED <<natVars, flagVars, askVars, eventVars, gameVars, job, got, ready, restVars>>

-----------------------------------------------------------------------------
(* UPnPPorts_Install, called once, from EnsureInit, on behalf of COM, which    *)
(* holds a reference to the DLL meanwhile.                                    *)

InstallBegin ==
  /\ InstallAt("start")
  /\ g_lockReady' = TRUE
  /\ ipc' = "hook"
  /\ UNCHANGED <<natVars, g_lock, g_disabled, g_stop, askVars, eventVars, gameVars, workVars, hooked, dpc, proc>>

\* sendto, closesocket and WSACleanup, in this order.
InstallHook ==
  /\ InstallAt("hook")
  /\ hooked' = hooked + 1
  /\ ipc' = IF hooked' = 3 THEN "finish" ELSE "hook"
  /\ UNCHANGED <<natVars, g_lock, flagVars, askVars, eventVars, gameVars, workVars, dpc, proc>>

\* DPSHIM_NO_UPNP is set, ws2_32 is not available, or a hook cannot be made;
\* the hooks enabled before stay.
InstallFails ==
  /\ InstallAt("start") \/ InstallAt("hook")
  /\ g_lockReady' \in {g_lockReady, TRUE}
  /\ g_disabled' = TRUE
  /\ ipc' = "done"
  /\ UNCHANGED <<natVars, g_lock, g_stop, askVars, eventVars, gameVars, workVars, hooked, dpc, proc>>

\* Either event and the thread may fail to be created; the code goes on.
InstallFinish ==
  /\ InstallAt("finish")
  /\ LET made(yes, no) == IF Fails THEN {yes, no} ELSE {yes} IN
       /\ g_wakeup' \in made("unset", "null") /\ g_released' \in made("unset", "null")
       /\ wpc' \in made("wait", "none")
  /\ ipc' = "done"
  /\ UNCHANGED <<natVars, g_lock, flagVars, askVars, gameVars, job, got, ready, hooked, dpc, proc>>

-----------------------------------------------------------------------------
(* DllMain(DLL_PROCESS_DETACH) and UPnPPorts_Shutdown. *)

\* The process exits: every other thread is gone, wherever it stood.
ExitProcess ==
  /\ "exit" \in Endings /\ Running /\ dpc = "idle"
  /\ proc' = "exiting" /\ dpc' = "stop"
  /\ UNCHANGED <<natVars, g_lock, flagVars, askVars, eventVars, gameVars, workVars, ipc, hooked>>

\* The DLL is unloaded: nobody is inside EnsureInit, but the worker runs on.
UnloadDll ==
  /\ "unload" \in Endings /\ Running /\ dpc = "idle" /\ ipc \in {"start", "done"}
  /\ dpc' = "stop"
  /\ UNCHANGED <<natVars, g_lock, flagVars, askVars, eventVars, gameVars, workVars, ipc, hooked, proc>>

Detaching == proc \in {"running", "exiting"}

SkipsUnready == ~g_lockReady                   \* WRONG: processExiting ignored
SkipsRelease == proc = "exiting" \/ ~g_lockReady

SignalStop ==
  /\ Detaching /\ dpc = "stop"
  /\ g_stop' = TRUE
  /\ g_wakeup' = Signalled(g_wakeup)
  /\ dpc' = IF SkipsRelease THEN "done" ELSE "lock"
  /\ UNCHANGED <<natVars, g_lock, g_lockReady, g_disabled, askVars, g_released, gameVars, workVars, ipc, hooked, proc>>

DetachLocks ==
  /\ Detaching /\ dpc = "lock" /\ Enters(Detacher)
  /\ dpc' = "sweep"
  /\ UNCHANGED <<natVars, flagVars, askVars, eventVars, gameVars, workVars, ipc, hooked, proc>>

\* The sweep is over: the helper is closed before the lock is left.
DetachSwept ==
  /\ Running /\ dpc = "sweep" /\ SweepDone
  /\ g_nat' = FALSE
  /\ dpc' = "done"
  /\ UNCHANGED <<flagVars, askVars, eventVars, gameVars, workVars, ipc, hooked, proc>>

DetachReturns ==
  /\ Detaching /\ dpc = "done"
  /\ proc' = IF Running THEN "unloaded" ELSE "gone"
  /\ UNCHANGED <<natVars, g_lock, flagVars, askVars, eventVars, gameVars, workVars, ipc, hooked, dpc>>

-----------------------------------------------------------------------------
Init ==
  /\ g_nat = FALSE /\ g_maps = <<>> /\ cursor = 1 /\ leases = {} /\ refused = {}
  /\ g_lock = NoOne /\ g_lockReady = FALSE /\ g_disabled = FALSE /\ g_stop = FALSE
  /\ g_querySock = NoSock /\ g_want = EmptySlots /\ g_wantRelease = FALSE
  /\ g_wakeup = "null" /\ g_released = "null"
  /\ tpc = [t \in Threads |-> "idle"] /\ call = [t \in Threads |-> NoCall] /\ open = {}
  /\ wpc = "none" /\ job = EmptySlots /\ got = {} /\ ready = FALSE
  /\ ipc = "start" /\ hooked = 0 /\ dpc = "idle" /\ proc = "running"

GameCall(t) ==
  \/ \E s \in Sockets, p \in Ports : SendHeartbeat(t, s, p)
  \/ \E p \in Ports : SendStatus(t, p)
  \/ \E s \in Sockets : CloseSocket(t, s)
  \/ WSACleanup(t)

\* What a game thread does once it is inside a hook.
HookStep(t) ==
  \/ WantPort(t) \/ SetWakeup(t) \/ ForgetQuerySock(t) \/ CheckMaps(t)
  \/ TryLock(t) \/ ThreadSweep(t) \/ ThreadSwept(t)
  \/ HandOff(t) \/ AwaitReleased(t) \/ CallOriginal(t)

WorkerStep ==
  \/ WaitWakeup \/ TakeRequests \/ WorkerLocks
  \/ WorkerSweep \/ WorkerSwept \/ NotifyReleased
  \/ OpenNat \/ WaitGateway \/ GiveUp
  \/ RegisterPort \/ DropJob \/ RegisterThroughNull \/ StoreMapping
  \/ WorkerUnlocks

InstallStep == InstallBegin \/ InstallHook \/ InstallFails \/ InstallFinish

DetachStep ==
  SignalStop \/ DetachLocks \/ DetachSweep \/ DetachSwept \/ DetachReturns

Next ==
  \/ \E s \in Sockets : OpenSocket(s) \/ PlainClose(s)
  \/ \E t \in Threads : GameCall(t) \/ HookStep(t)
  \/ WorkerStep \/ InstallStep
  \/ ExitProcess \/ UnloadDll \/ DetachStep

Spec == Init /\ [][Next]_vars
=============================================================================
