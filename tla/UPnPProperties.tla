--------------------------- MODULE UPnPProperties ---------------------------
(***************************************************************************)
(* What UPnPPorts must get right: the lock and the leases it protects, the *)
(* teardown of the process, and that every hooked call, hand-over and      *)
(* teardown ends.                                                          *)
(***************************************************************************)
EXTENDS UPnPPorts

ThreadPlaces == {"idle", "want", "signal", "forget", "check", "try", "sweep",
                 "handoff", "wake", "await", "return"}

WorkerPlaces == {"none", "wait", "woken", "lockRelease", "sweep", "notify",
                 "lockRegister", "open", "gateway", "giveUp", "register",
                 "store", "exited", "fault"}

\* g_maps is never written past its end: the one bound on the array is the test
\* at the top of nat_register, made before the router is asked.
BookTypes ==
  /\ g_nat \in BOOLEAN /\ cursor \in Nat
  /\ g_maps \in Seq(Lease) /\ Len(g_maps) <= MAX_MAPPINGS
  /\ leases \subseteq Lease /\ refused \subseteq Lease

SharedTypes ==
  /\ g_lock \in Threads \union {Worker, Detacher, NoOne}
  /\ g_lockReady \in BOOLEAN /\ g_disabled \in BOOLEAN /\ g_stop \in BOOLEAN
  /\ g_querySock \in Sockets \union {NoSock}
  /\ g_want \in [BOOLEAN -> Slot] /\ g_wantRelease \in BOOLEAN
  /\ g_wakeup \in {"null", "unset", "set"} /\ g_released \in {"null", "unset", "set"}

ActorTypes ==
  /\ tpc \in [Threads -> ThreadPlaces] /\ call \in [Threads -> Call]
  /\ open \subseteq Sockets
  /\ wpc \in WorkerPlaces /\ job \in [BOOLEAN -> Slot]
  /\ got \subseteq Lease /\ ready \in BOOLEAN
  /\ ipc \in {"start", "hook", "finish", "done"} /\ hooked \in 0 .. 3
  /\ dpc \in {"idle", "stop", "lock", "sweep", "done"}
  /\ proc \in {"running", "exiting", "unloaded", "gone"}

\* Every variable has its type, the array g_maps its bound included.
TypeOK == BookTypes /\ SharedTypes /\ ActorTypes

-----------------------------------------------------------------------------
(* Safety. *)

SweepingThread == \E t \in Threads : tpc[t] = "sweep"
Sweeping       == SweepingThread \/ wpc = "sweep" \/ dpc = "sweep"
LockedPlaces   == {"sweep", "open", "gateway", "giveUp", "register", "store"}

\* Whoever sweeps, discovers or registers owns g_lock, so no two of the game's
\* threads, the worker and the detaching thread are ever in there together.
LockDiscipline ==
  /\ \A t \in Threads : tpc[t] = "sweep" => g_lock = t
  /\ wpc \in LockedPlaces => g_lock = Worker
  /\ dpc = "sweep" => g_lock = Detacher

Kept == { g_maps[i] : i \in cursor .. Len(g_maps) }

\* Every lease the router holds for us is a mapping not yet swept, the one just
\* granted, or one whose DeregisterPorts failed; and every such mapping is held.
\* No lease is lost (a port forwarded for the rest of its hour) and none is
\* given back twice, whichever of the three threads sweeps.
LeasesAccounted == leases = Kept \union got \union refused

\* No port is leased twice for the same protocol: g_maps has one entry per
\* (port, protocol), and the worker never asks for a pair it has.
NoDuplicateMapping ==
  /\ \A i, j \in 1 .. Len(g_maps) :
       g_maps[i].port = g_maps[j].port /\ g_maps[i].tcp = g_maps[j].tcp => i = j
  /\ \A m \in got, i \in 1 .. Len(g_maps) :
       ~(g_maps[i].port = m.port /\ g_maps[i].tcp = m.tcp)

\* g_disabled is final and the worker ends when it sets it, so from then on
\* nobody would serve a release: nothing may be mapped when it is set.
DisabledMeansUnmapped == g_disabled => g_maps = <<>> /\ got = {}

\* The only long stay inside g_lock is the discovery of the gateway, up to 20 s.
\* Nothing is mapped during it, so no closesocket or WSACleanup that has
\* something to release ever finds the lock held for that long.
DiscoveryUnmapped == wpc \in {"open", "gateway"} => g_maps = <<>> /\ leases \subseteq refused

\* Once the process exits, the other threads are gone and DLLs may be gone: the
\* teardown calls no COM object and takes no lock, orphaned or not.
TeardownSilent == [][proc = "exiting" => UNCHANGED <<natVars, g_lock>>]_vars

\* An unload that completes leaves nothing leased that the router would take
\* back, wherever it found the worker and the game's threads.
UnloadReleases == proc = "unloaded" => leases \subseteq refused

\* The worker never calls RegisterPorts through a NULL g_nat.
NoNullHelper == wpc # "fault"

\* UPnPPorts keeps the promise of PortLeases.  A lease the router would not take
\* back has left the book.
Promise == INSTANCE PortLeases WITH book <- leases \ refused, sweeping <- Sweeping

ImplementsPortLeases == Promise!Spec

-----------------------------------------------------------------------------
(* Why the safety properties hold: an inductive invariant.                    *)

\* The mappings and the leases.  The lease just granted is new to the book, and
\* a lease whose return was refused is in it no more.
BookInv ==
  /\ cursor \in 1 .. Len(g_maps) + 1
  /\ ~Sweeping => cursor = 1
  /\ LeasesAccounted
  /\ NoDuplicateMapping
  /\ \A m \in refused : m \notin got /\ m \notin Kept
  /\ wpc # "store" => got = {}
  /\ wpc = "store" => /\ Len(g_maps) < MAX_MAPPINGS
                      /\ \E m \in Lease : got = {m}

\* What the worker's place says of the helper, of ready and of g_disabled.
PhaseInv ==
  /\ ipc # "done" => wpc = "none" /\ ~g_disabled
  /\ ipc = "start" => hooked = 0
  /\ ipc = "hook" => hooked < 3
  /\ ipc \in {"hook", "finish"} => g_lockReady
  /\ wpc \in {"none", "open", "gateway", "giveUp"} => ~ready
  /\ wpc \in {"register", "store"} => ready
  /\ wpc \in {"gateway", "store"} => g_nat
  /\ ~ready => g_maps = <<>>
  /\ ~g_nat => g_maps = <<>>
  /\ g_disabled => ~ready /\ wpc \in {"none", "exited"}
  /\ ~g_lockReady => ~g_nat /\ wpc = "none"

\* How far the DLL's end has come.
EndingInv ==
  /\ proc = "exiting" => dpc \in {"stop", "done"}
  /\ proc = "unloaded" => dpc = "done"
  /\ dpc = "done" /\ proc \in {"running", "unloaded"} => ~g_nat
  /\ "unload" \notin Endings =>
       /\ dpc # "idle" => proc \in {"exiting", "gone"}
       /\ dpc \notin {"lock", "sweep"}
       /\ ready => g_nat
       /\ wpc # "fault"

IInv == TypeOK /\ LockDiscipline /\ BookInv /\ PhaseInv /\ EndingInv

-----------------------------------------------------------------------------
(* Liveness.  A thread that can run does; DeregisterPorts, a lock that is     *)
(* free and an elapsed timeout let it.  Nothing makes the game call a hooked  *)
(* function, open a socket or exit.                                           *)

GameFairness   == \A t \in Threads : WF_vars(HookStep(t))
WorkerFairness == WF_vars(WorkerStep)
DetachFairness == WF_vars(DetachStep)

FairSpec == Spec /\ GameFairness /\ WorkerFairness /\ DetachFairness

\* The worker may be stuck in discovery; a property about what it does for the
\* game has its fairness as a hypothesis.
LonelySpec == Spec /\ GameFairness /\ DetachFairness

\* A hooked call ends, even one that finds the worker inside g_lock for good:
\* only TryEnterCriticalSection and a wait with a timeout stand in its way.
HookReturns ==
  \A t \in Threads : tpc[t] # "idle" ~> tpc[t] = "idle" \/ ~Running

\* The process can always exit, even with g_lock orphaned by a thread that was
\* killed inside it.
ExitCompletes == proc = "exiting" ~> proc = "gone"

\* A release handed to the worker is served: everything mapped is given back,
\* though SetEvent calls on g_wakeup coalesce, g_wakeup may not exist, and the
\* worker may be waiting, registering or discovering.
HandOffServed ==
  WorkerFairness => (g_wantRelease ~> g_maps = <<>> \/ g_stop \/ ~Running)

\* A port asked for is mapped, unless a newer request replaces it in its slot or
\* the table is full: no request is lost between want_port, the event and the
\* worker's 5 s poll, whichever hook runs while the worker is elsewhere.
Mapped(tcp, p) == \E i \in 1 .. Len(g_maps) : g_maps[i].port = p /\ g_maps[i].tcp = tcp

WantServed ==
  WorkerFairness =>
    \A tcp \in BOOLEAN, p \in Ports :
      g_want[tcp] = p /\ wpc # "none"
        ~> \/ Mapped(tcp, p) \/ MapsFull \/ g_want[tcp] \notin {p, NoPort}
           \/ g_stop \/ g_disabled \/ ~Running

-----------------------------------------------------------------------------
(* What CHANGES.md promises, and the code does not always keep. *)

\* "Mappings are released when the server closes its query socket": once every
\* socket of the game is closed and stays so, no query port stays leased.
QueryLeased == \E m \in leases : ~m.tcp

ReleasedAfterClose ==
  open = {} /\ QueryLeased ~> ~QueryLeased \/ open # {} \/ g_stop \/ ~Running

\* "... and on an orderly unload": an unload that has begun completes.
UnloadCompletes == dpc # "idle" /\ Running ~> proc = "unloaded" \/ proc = "gone"
=============================================================================
