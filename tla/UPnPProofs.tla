----------------------------- MODULE UPnPProofs -----------------------------
(***************************************************************************)
(* IInv is an inductive invariant of UPnPPorts, for any number of threads, *)
(* sockets, ports and handles, any MAX_MAPPINGS, and whether or not calls  *)
(* fail and the DLL is unloaded.  The safety properties of UPnPProperties  *)
(* follow from it, and so does the refinement of PortLeases.               *)
(* OnlyGrantMissed and LockIsLeft say what holds where a run refutes a     *)
(* property: how much a release may miss, and who can be waited for.       *)
(*                                                                         *)
(* Most steps of a game thread are "quiet": they leave the leases, the     *)
(* lock, the worker and the teardown alone and neither begin nor end a     *)
(* sweep.  NextKinds singles them out once; the parts of IInv are then     *)
(* shown to be preserved by the steps that remain.                         *)
(***************************************************************************)
EXTENDS UPnPProperties, TLAPS

\* The argument record of no call, and two empty request slots, have their types.
LEMMA CallType == NoCall \in Call /\ EmptySlots \in [BOOLEAN -> Slot]
  BY DEF NoCall, Call, EmptySlots, Slot

\* The state before the shim is installed satisfies the invariant.
LEMMA InitInv == Init => IInv
<1> SUFFICES ASSUME Init PROVE IInv
  OBVIOUS
<1>1. BookTypes
  <2>1. g_maps \in Seq(Lease) /\ Len(g_maps) <= MAX_MAPPINGS
    BY BoundsAssumption DEF Init
  <2>2. g_nat \in BOOLEAN /\ cursor \in Nat /\ leases \subseteq Lease /\ refused \subseteq Lease
    BY DEF Init
  <2> QED BY <2>1, <2>2 DEF BookTypes
<1>2. SharedTypes
  BY CallType DEF Init, SharedTypes
<1>3. ActorTypes
  <2>1. tpc \in [Threads -> ThreadPlaces] /\ call \in [Threads -> Call]
    BY CallType DEF Init, ThreadPlaces
  <2>2. job \in [BOOLEAN -> Slot]
    BY CallType DEF Init
  <2>3. open \subseteq Sockets /\ got \subseteq Lease /\ ready \in BOOLEAN
    BY DEF Init
  <2>4. wpc = "none" /\ ipc = "start" /\ hooked \in 0 .. 3 /\ dpc = "idle" /\ proc = "running"
    BY DEF Init
  <2> QED BY <2>1, <2>2, <2>3, <2>4 DEF ActorTypes, WorkerPlaces
<1>4. LockDiscipline /\ PhaseInv /\ EndingInv
  BY DEF Init, LockDiscipline, LockedPlaces, PhaseInv, EndingInv
<1>5. BookInv
  BY DEF Init, BookInv, LeasesAccounted, Kept, Sweeping, SweepingThread, NoDuplicateMapping
<1> QED BY <1>1, <1>2, <1>3, <1>4, <1>5 DEF IInv, TypeOK

-----------------------------------------------------------------------------
(* The kinds of steps. *)

\* The step leaves everything alone that IInv speaks of beyond the types.
Quiet ==
  /\ UNCHANGED <<natVars, g_lock, flagVars, workVars, restVars>>
  /\ \A t \in Threads : tpc'[t] = "sweep" <=> tpc[t] = "sweep"

\* Inside the hooks only release_now touches the lock and the leases.
LEMMA ThreadSteps ==
  ASSUME TypeOK, NEW t \in Threads, GameCall(t) \/ HookStep(t)
  PROVE  Quiet \/ TryLock(t) \/ ThreadSweep(t) \/ ThreadSwept(t)
<1> USE DEF Quiet, ThreadAt, ThreadGoes, askVars, TypeOK, ActorTypes
<1>1. ASSUME NEW s \in Sockets, NEW p \in Ports, SendHeartbeat(t, s, p) PROVE Quiet
  BY <1>1 DEF SendHeartbeat
<1>2. ASSUME NEW p \in Ports, SendStatus(t, p) PROVE Quiet
  BY <1>2 DEF SendStatus
<1>3. ASSUME NEW s \in Sockets, CloseSocket(t, s) PROVE Quiet
  BY <1>3 DEF CloseSocket
<1>4. CASE WSACleanup(t)
  BY <1>4 DEF WSACleanup
<1>5. CASE WantPort(t)
  BY <1>5 DEF WantPort
<1>6. CASE SetWakeup(t)
  BY <1>6 DEF SetWakeup
<1>7. CASE ForgetQuerySock(t) \/ CheckMaps(t)
  BY <1>7 DEF ForgetQuerySock, CheckMaps
<1>8. CASE HandOff(t) \/ AwaitReleased(t) \/ CallOriginal(t)
  BY <1>8 DEF HandOff, AwaitReleased, CallOriginal
<1> QED BY <1>1, <1>2, <1>3, <1>4, <1>5, <1>6, <1>7, <1>8 DEF GameCall, HookStep

\* Every step is quiet, or part of a sweep by a game thread, or a step of the
\* worker, of the installer or of the teardown.
LEMMA NextKinds ==
  ASSUME TypeOK, [Next]_vars
  PROVE  \/ Quiet
         \/ \E t \in Threads : TryLock(t) \/ ThreadSweep(t) \/ ThreadSwept(t)
         \/ WorkerStep \/ InstallStep
         \/ ExitProcess \/ UnloadDll \/ DetachStep
<1>1. CASE UNCHANGED vars
  BY <1>1 DEF vars, Quiet, gameVars
<1>2. ASSUME NEW s \in Sockets, OpenSocket(s) \/ PlainClose(s) PROVE Quiet
  BY <1>2 DEF OpenSocket, PlainClose, Quiet
<1>3. ASSUME NEW t \in Threads, GameCall(t) \/ HookStep(t)
      PROVE  Quiet \/ TryLock(t) \/ ThreadSweep(t) \/ ThreadSwept(t)
  BY <1>3, ThreadSteps
<1> QED BY <1>1, <1>2, <1>3 DEF Next

-----------------------------------------------------------------------------
(* Types. *)

\* Every used entry of g_maps is a lease.
LEMMA MapsInLease ==
  ASSUME TypeOK
  PROVE  /\ Len(g_maps) \in Nat
         /\ \A i \in 1 .. Len(g_maps) : g_maps[i] \in Lease
  BY DEF TypeOK, BookTypes

\* One round of the loop of nat_release_all keeps the types of the book.
LEMMA DeregisterTypes ==
  ASSUME IInv, Deregister PROVE BookTypes'
<1>1. g_maps[cursor] \in Lease /\ cursor + 1 \in Nat
  BY MapsInLease DEF IInv, BookInv, Deregister
<1> QED BY <1>1 DEF IInv, TypeOK, BookTypes, Deregister

\* So does the end of nat_release_all.
LEMMA SweptTypes ==
  ASSUME TypeOK, SweepDone, g_nat' \in BOOLEAN PROVE BookTypes'
<1>1. g_maps' \in Seq(Lease) /\ Len(g_maps') <= MAX_MAPPINGS
  BY BoundsAssumption DEF SweepDone, TypeOK, BookTypes
<1> QED BY <1>1 DEF TypeOK, BookTypes, SweepDone

\* What RegisterPorts grants is a lease for the port the worker asked for.
LEMMA NextRegister ==
  ASSUME TypeOK, RegisterPort PROVE got' \subseteq Lease
<1>1. PICK h \in Handles : got' = {[handle |-> h, port |-> job[NextTcp], tcp |-> NextTcp]}
  BY DEF RegisterPort
<1>2. NextTcp \in BOOLEAN /\ job[NextTcp] \in Ports
  BY DEF RegisterPort, HaveJob, NextTcp, EmptySlots, TypeOK, ActorTypes, Slot
<1> QED BY <1>1, <1>2 DEF Lease

\* Every step keeps the types of the book and the bound of g_maps.
LEMMA BookTypesStep == ASSUME IInv, [Next]_vars PROVE BookTypes'
<1> USE DEF IInv, TypeOK
<1>1. CASE UNCHANGED natVars
  BY <1>1 DEF natVars, BookTypes
<1>2. CASE Quiet
  BY <1>1, <1>2 DEF Quiet
<1>3. ASSUME NEW t \in Threads, TryLock(t) \/ ThreadSweep(t) \/ ThreadSwept(t) PROVE BookTypes'
  BY <1>1, <1>3, DeregisterTypes, SweptTypes DEF TryLock, ThreadSweep, ThreadSwept, BookTypes
<1>4. CASE WorkerStep
  <2>1. CASE WaitWakeup \/ TakeRequests \/ WorkerLocks \/ NotifyReleased
    BY <1>1, <2>1 DEF WaitWakeup, TakeRequests, WorkerLocks, NotifyReleased
  <2>2. CASE WaitGateway \/ GiveUp \/ DropJob \/ RegisterThroughNull \/ WorkerUnlocks
    BY <1>1, <2>2 DEF WaitGateway, GiveUp, DropJob, RegisterThroughNull, WorkerUnlocks
  <2>3. CASE WorkerSweep \/ WorkerSwept
    BY <2>3, DeregisterTypes, SweptTypes DEF WorkerSweep, WorkerSwept, BookTypes
  <2>4. CASE OpenNat
    BY <2>4 DEF OpenNat, BookTypes
  <2>5. CASE RegisterPort
    <3>1. got' \subseteq Lease
      BY <2>5, NextRegister
    <3> QED BY <2>5, <3>1 DEF RegisterPort, BookTypes
  <2>6. CASE StoreMapping
    <3>1. PICK m \in Lease : got = {m}
      BY <2>6 DEF StoreMapping, WorkerAt, BookInv
    <3>2. g_maps' = Append(g_maps, m) /\ Len(g_maps) < MAX_MAPPINGS
      BY <2>6, <3>1 DEF StoreMapping, WorkerAt, BookInv
    <3>3. g_maps' \in Seq(Lease) /\ Len(g_maps') <= MAX_MAPPINGS
      BY <3>1, <3>2, BoundsAssumption DEF BookTypes
    <3> QED BY <2>6, <3>3 DEF StoreMapping, BookTypes
  <2> QED BY <1>4, <2>1, <2>2, <2>3, <2>4, <2>5, <2>6 DEF WorkerStep
<1>5. CASE InstallStep
  BY <1>1, <1>5 DEF InstallStep, InstallBegin, InstallHook, InstallFails, InstallFinish
<1>6. CASE ExitProcess \/ UnloadDll
  BY <1>1, <1>6 DEF ExitProcess, UnloadDll
<1>7. CASE DetachStep
  BY <1>1, <1>7, DeregisterTypes, SweptTypes
  DEF DetachStep, SignalStop, DetachLocks, DetachSweep, DetachSwept, DetachReturns, BookTypes
<1> QED BY <1>2, <1>3, <1>4, <1>5, <1>6, <1>7, NextKinds

-----------------------------------------------------------------------------
\* Every step keeps the types of the lock, the flags, the slots and the events.
LEMMA SharedTypesStep == ASSUME IInv, [Next]_vars PROVE SharedTypes'
<1> USE DEF IInv, TypeOK, SharedTypes
<1>1. CASE UNCHANGED <<g_lock, flagVars, askVars, eventVars>>
  BY <1>1 DEF flagVars, askVars, eventVars
<1>2. CASE UNCHANGED vars
  BY <1>1, <1>2 DEF vars
<1>3. ASSUME NEW s \in Sockets, OpenSocket(s) \/ PlainClose(s) PROVE SharedTypes'
  BY <1>1, <1>3 DEF OpenSocket, PlainClose
<1>4. ASSUME NEW t \in Threads, GameCall(t) PROVE SharedTypes'
  <2>1. CASE (\E s \in Sockets : CloseSocket(t, s)) \/ WSACleanup(t) \/ \E p \in Ports : SendStatus(t, p)
    BY <1>1, <2>1 DEF CloseSocket, WSACleanup, SendStatus
  <2>2. ASSUME NEW s \in Sockets, NEW p \in Ports, SendHeartbeat(t, s, p) PROVE SharedTypes'
    BY <2>2 DEF SendHeartbeat, flagVars, eventVars
  <2> QED BY <1>4, <2>1, <2>2 DEF GameCall
<1>5. ASSUME NEW t \in Threads, HookStep(t) PROVE SharedTypes'
  <2>1. CASE CheckMaps(t) \/ CallOriginal(t) \/ ThreadSweep(t)
    BY <1>1, <2>1 DEF CheckMaps, CallOriginal, ThreadSweep, Deregister
  <2>2. CASE WantPort(t)
    <3>1. call[t].tcp \in BOOLEAN /\ call[t].port \in Slot
      BY DEF ActorTypes, Call
    <3> QED BY <2>2, <3>1 DEF WantPort, flagVars, eventVars
  <2>3. CASE SetWakeup(t)
    BY <2>3 DEF SetWakeup, Signalled, flagVars, askVars
  <2>4. CASE ForgetQuerySock(t) \/ HandOff(t)
    BY <2>4 DEF ForgetQuerySock, HandOff, flagVars, eventVars
  <2>5. CASE TryLock(t) \/ ThreadSwept(t)
    BY <2>5 DEF TryLock, Enters, ThreadSwept, SweepDone, flagVars, askVars, eventVars
  <2>6. CASE AwaitReleased(t)
    BY <2>6 DEF AwaitReleased, flagVars, askVars
  <2> QED BY <1>5, <2>1, <2>2, <2>3, <2>4, <2>5, <2>6 DEF HookStep
<1>6. CASE WorkerStep
  <2>1. CASE WorkerSweep \/ OpenNat \/ WaitGateway \/ RegisterPort
    BY <1>1, <2>1 DEF WorkerSweep, Deregister, OpenNat, WaitGateway, RegisterPort
  <2>2. CASE DropJob \/ RegisterThroughNull \/ StoreMapping
    BY <1>1, <2>2 DEF DropJob, RegisterThroughNull, StoreMapping
  <2>3. CASE WaitWakeup \/ NotifyReleased
    BY <2>3 DEF WaitWakeup, NotifyReleased, Signalled, flagVars, askVars
  <2>4. CASE TakeRequests
    BY <2>4, CallType DEF TakeRequests, flagVars, eventVars
  <2>5. CASE WorkerLocks \/ WorkerSwept
    BY <2>5 DEF WorkerLocks, Enters, WorkerSwept, SweepDone, flagVars, askVars, eventVars
  <2>6. CASE GiveUp \/ WorkerUnlocks
    BY <2>6 DEF GiveUp, WorkerUnlocks, flagVars, askVars, eventVars
  <2> QED BY <1>6, <2>1, <2>2, <2>3, <2>4, <2>5, <2>6 DEF WorkerStep
<1>7. CASE InstallStep
  <2>1. CASE InstallBegin \/ InstallHook \/ InstallFails
    BY <2>1 DEF InstallBegin, InstallHook, InstallFails, flagVars, askVars, eventVars
  <2>2. CASE InstallFinish
    BY <2>2 DEF InstallFinish, flagVars, askVars
  <2> QED BY <1>7, <2>1, <2>2 DEF InstallStep
<1>8. CASE ExitProcess \/ UnloadDll \/ DetachSweep \/ DetachReturns
  BY <1>1, <1>8 DEF ExitProcess, UnloadDll, DetachSweep, Deregister, DetachReturns
<1>9. CASE SignalStop
  BY <1>9 DEF SignalStop, Signalled, askVars
<1>10. CASE DetachLocks \/ DetachSwept
  BY <1>10 DEF DetachLocks, Enters, DetachSwept, SweepDone, flagVars, askVars, eventVars
<1> QED BY <1>2, <1>3, <1>4, <1>5, <1>6, <1>7, <1>8, <1>9, <1>10 DEF Next, DetachStep

\* Every step keeps the types of the places and locals of the threads.
LEMMA ActorTypesStep == ASSUME IInv, [Next]_vars PROVE ActorTypes'
<1> USE DEF IInv, TypeOK, ActorTypes
<1>1. CASE UNCHANGED vars
  BY <1>1 DEF vars, gameVars, workVars, restVars
<1>2. ASSUME NEW s \in Sockets, OpenSocket(s) \/ PlainClose(s) PROVE ActorTypes'
  BY <1>2 DEF OpenSocket, PlainClose, workVars, restVars
<1>3. ASSUME NEW t \in Threads, GameCall(t) PROVE ActorTypes'
  <2> USE DEF ThreadGoes, ThreadPlaces, workVars, restVars
  <2>1. ASSUME NEW s \in Sockets, NEW p \in Ports, SendHeartbeat(t, s, p) PROVE ActorTypes'
    <3>1. [sock |-> s, port |-> p, tcp |-> FALSE] \in Call
      BY DEF Call, Slot
    <3> QED BY <2>1, <3>1 DEF SendHeartbeat
  <2>2. ASSUME NEW p \in Ports, SendStatus(t, p) PROVE ActorTypes'
    <3>1. [sock |-> NoSock, port |-> p, tcp |-> TRUE] \in Call
      BY DEF Call, Slot
    <3> QED BY <2>2, <3>1 DEF SendStatus
  <2>3. ASSUME NEW s \in Sockets, CloseSocket(t, s) PROVE ActorTypes'
    <3>1. [NoCall EXCEPT !.sock = s] \in Call
      BY DEF NoCall, Call, Slot
    <3> QED BY <2>3, <3>1 DEF CloseSocket
  <2>4. CASE WSACleanup(t)
    BY <2>4, CallType DEF WSACleanup
  <2> QED BY <1>3, <2>1, <2>2, <2>3, <2>4 DEF GameCall
<1>4. ASSUME NEW t \in Threads, HookStep(t) PROVE ActorTypes'
  <2> USE DEF ThreadGoes, ThreadPlaces, workVars, restVars
  <2>1. CASE WantPort(t) \/ CallOriginal(t)
    BY <2>1, CallType DEF WantPort, CallOriginal
  <2>2. CASE SetWakeup(t) \/ ForgetQuerySock(t) \/ CheckMaps(t)
    BY <2>2 DEF SetWakeup, ForgetQuerySock, CheckMaps
  <2>3. CASE TryLock(t) \/ HandOff(t) \/ AwaitReleased(t)
    BY <2>3 DEF TryLock, HandOff, AwaitReleased
  <2>4. CASE ThreadSweep(t) \/ ThreadSwept(t)
    BY <2>4 DEF ThreadSweep, Deregister, ThreadSwept, gameVars
  <2> QED BY <1>4, <2>1, <2>2, <2>3, <2>4 DEF HookStep
<1>5. CASE WorkerStep
  <2> USE DEF WorkerPlaces, gameVars, restVars
  <2>1. CASE WaitWakeup \/ WorkerLocks \/ NotifyReleased
    BY <2>1 DEF WaitWakeup, WorkerLocks, OnceLocked, NotifyReleased
  <2>2. CASE TakeRequests
    BY <2>2 DEF TakeRequests, SharedTypes
  <2>3. CASE WorkerSweep \/ WorkerSwept
    BY <2>3 DEF WorkerSweep, Deregister, WorkerSwept, workVars
  <2>4. CASE OpenNat \/ WaitGateway \/ GiveUp
    BY <2>4 DEF OpenNat, WaitGateway, GiveUp
  <2>5. CASE RegisterPort
    <3>1. got' \subseteq Lease
      BY <2>5, NextRegister
    <3> QED BY <2>5, <3>1 DEF RegisterPort
  <2>6. CASE DropJob \/ StoreMapping
    <3>1. [job EXCEPT ![NextTcp] = NoPort] \in [BOOLEAN -> Slot]
      BY DEF Slot
    <3> QED BY <2>6, <3>1 DEF DropJob, StoreMapping
  <2>7. CASE RegisterThroughNull \/ WorkerUnlocks
    BY <2>7 DEF RegisterThroughNull, WorkerUnlocks
  <2> QED BY <1>5, <2>1, <2>2, <2>3, <2>4, <2>5, <2>6, <2>7 DEF WorkerStep
<1>6. CASE InstallStep
  <2>1. CASE InstallBegin \/ InstallFails
    BY <2>1 DEF InstallBegin, InstallFails, gameVars, workVars
  <2>2. CASE InstallHook
    <3>1. hooked + 1 \in 0 .. 3
      BY <2>2 DEF InstallHook, InstallAt, PhaseInv
    <3> QED BY <2>2, <3>1 DEF InstallHook, gameVars, workVars
  <2>3. CASE InstallFinish
    BY <2>3 DEF InstallFinish, gameVars, WorkerPlaces
  <2> QED BY <1>6, <2>1, <2>2, <2>3 DEF InstallStep
<1>7. CASE ExitProcess \/ UnloadDll
  BY <1>7 DEF ExitProcess, UnloadDll, gameVars, workVars
<1>8. CASE DetachStep
  BY <1>8 DEF DetachStep, SignalStop, DetachLocks, DetachSweep, Deregister, DetachSwept, DetachReturns, gameVars, workVars, restVars
<1> QED BY <1>1, <1>2, <1>3, <1>4, <1>5, <1>6, <1>7, <1>8 DEF Next

-----------------------------------------------------------------------------
(* The lock, the worker's phases, the teardown. *)

\* Every step keeps the lock discipline: a thread enters the places inside g_lock
\* only as its owner, and gives it up only when it leaves them.
LEMMA LockStep == ASSUME IInv, [Next]_vars PROVE LockDiscipline'
<1> USE NamesAssumption DEF IInv, LockDiscipline
<1>1. CASE Quiet
  BY <1>1 DEF Quiet, workVars, restVars
<1>2. ASSUME NEW t \in Threads, TryLock(t) \/ ThreadSweep(t) \/ ThreadSwept(t)
      PROVE  LockDiscipline'
  <2> tpc \in [Threads -> ThreadPlaces]
    BY DEF TypeOK, ActorTypes
  <2>1. CASE TryLock(t)
    BY <2>1 DEF TryLock, ThreadAt, ThreadGoes, Enters, LockedPlaces, workVars, restVars
  <2>2. CASE ThreadSweep(t)
    BY <2>2 DEF ThreadSweep, Deregister, gameVars, workVars, restVars
  <2>3. CASE ThreadSwept(t)
    BY <2>3 DEF ThreadSwept, SweepDone, ThreadAt, ThreadGoes, LockedPlaces, workVars, restVars
  <2> QED BY <1>2, <2>1, <2>2, <2>3
<1>3. CASE WorkerStep
  <2> USE DEF WorkerAt, LockedPlaces, gameVars, restVars
  <2>1. CASE WaitWakeup \/ TakeRequests \/ NotifyReleased
    BY <2>1 DEF WaitWakeup, TakeRequests, NotifyReleased
  <2>2. CASE WorkerLocks
    BY <2>2 DEF WorkerLocks, Enters
  <2>3. CASE WorkerSweep
    BY <2>3 DEF WorkerSweep, Deregister, workVars
  <2>4. CASE WorkerSwept \/ GiveUp \/ WorkerUnlocks
    BY <2>4 DEF WorkerSwept, SweepDone, GiveUp, WorkerUnlocks
  <2>5. CASE OpenNat \/ WaitGateway
    BY <2>5 DEF OpenNat, WaitGateway
  <2>6. CASE RegisterPort \/ DropJob \/ StoreMapping \/ RegisterThroughNull
    BY <2>6 DEF RegisterPort, DropJob, StoreMapping, RegisterThroughNull, HaveJob
  <2> QED BY <1>3, <2>1, <2>2, <2>3, <2>4, <2>5, <2>6 DEF WorkerStep
<1>4. CASE InstallStep
  <2> USE DEF gameVars
  <2>1. CASE InstallBegin \/ InstallHook \/ InstallFails
    BY <1>4, <2>1 DEF InstallBegin, InstallHook, InstallFails, workVars
  <2>2. CASE InstallFinish
    BY <2>2 DEF InstallFinish, LockedPlaces
  <2> QED BY <1>4, <2>1, <2>2 DEF InstallStep
<1>5. CASE ExitProcess \/ UnloadDll
  BY <1>5 DEF ExitProcess, UnloadDll, gameVars, workVars
<1>6. CASE DetachStep
  <2> USE DEF gameVars, workVars
  <2>1. CASE SignalStop \/ DetachReturns
    BY <2>1 DEF SignalStop, DetachReturns
  <2>2. CASE DetachLocks
    BY <2>2 DEF DetachLocks, Enters
  <2>3. CASE DetachSweep
    BY <2>3 DEF DetachSweep, Deregister, restVars
  <2>4. CASE DetachSwept
    BY <2>4 DEF DetachSwept, SweepDone
  <2> QED BY <1>6, <2>1, <2>2, <2>3, <2>4 DEF DetachStep
<1> QED BY <1>1, <1>2, <1>3, <1>4, <1>5, <1>6, NextKinds

\* Nothing is mapped after nat_release_all.
LEMMA SweptEmpty ==
  ASSUME PhaseInv, SweepDone PROVE g_maps' = <<>>
  BY DEF PhaseInv, SweepDone

\* Every step keeps what the worker's place says of ready, g_nat and g_disabled.
LEMMA PhaseStep == ASSUME IInv, [Next]_vars PROVE PhaseInv'
<1> USE NamesAssumption DEF IInv, PhaseInv
<1>1. CASE Quiet
  BY <1>1 DEF Quiet, natVars, flagVars, workVars, restVars
<1>2. ASSUME NEW t \in Threads, TryLock(t) \/ ThreadSweep(t) \/ ThreadSwept(t) PROVE PhaseInv'
  <2> USE DEF flagVars, workVars, restVars
  <2>1. CASE TryLock(t) \/ ThreadSweep(t)
    BY <2>1 DEF TryLock, ThreadSweep, Deregister, natVars
  <2>2. CASE ThreadSwept(t)
    BY <2>2, SweptEmpty DEF ThreadSwept
  <2> QED BY <1>2, <2>1, <2>2
<1>3. CASE WorkerStep
  <2> USE DEF WorkerAt, natVars, flagVars, restVars
  <2>1. CASE WaitWakeup \/ TakeRequests \/ NotifyReleased
    BY <2>1 DEF WaitWakeup, TakeRequests, NotifyReleased
  <2>2. CASE WorkerLocks
    BY <2>2 DEF WorkerLocks, OnceLocked
  <2>3. CASE WorkerSweep
    BY <2>3 DEF WorkerSweep, Deregister, workVars
  <2>4. CASE WorkerSwept
    BY <2>4, SweptEmpty DEF WorkerSwept
  <2>5. CASE OpenNat \/ WaitGateway
    BY <2>5 DEF OpenNat, WaitGateway
  <2>6. CASE GiveUp \/ WorkerUnlocks
    BY <2>6 DEF GiveUp, WorkerUnlocks
  <2>7. CASE RegisterPort \/ DropJob \/ RegisterThroughNull
    BY <2>7 DEF RegisterPort, DropJob, RegisterThroughNull, HaveJob
  <2>8. CASE StoreMapping
    BY <2>8 DEF StoreMapping
  <2> QED BY <1>3, <2>1, <2>2, <2>3, <2>4, <2>5, <2>6, <2>7, <2>8 DEF WorkerStep
<1>4. CASE InstallStep
  <2> USE DEF InstallAt, natVars, flagVars
  <2>1. CASE InstallBegin
    BY <2>1 DEF InstallBegin, workVars
  <2>2. CASE InstallHook
    BY <2>2 DEF InstallHook, workVars, TypeOK, ActorTypes
  <2>3. CASE InstallFails
    <3>1. g_lockReady => g_lockReady'
      BY <2>3 DEF InstallFails
    <3>2. wpc = "none" /\ ~ready /\ ipc' = "done"
      BY <2>3 DEF InstallFails
    <3> QED BY <2>3, <3>1, <3>2 DEF InstallFails, workVars
  <2>4. CASE InstallFinish
    <3>1. wpc' \in {"wait", "none"} /\ wpc = "none" /\ g_lockReady /\ ~g_disabled
      BY <2>4 DEF InstallFinish
    <3>2. UNCHANGED <<natVars, flagVars, ready>> /\ ipc' = "done"
      BY <2>4 DEF InstallFinish
    <3> QED BY <3>1, <3>2
  <2> QED BY <1>4, <2>1, <2>2, <2>3, <2>4 DEF InstallStep
<1>5. CASE ExitProcess \/ UnloadDll
  BY <1>5 DEF ExitProcess, UnloadDll, natVars, flagVars, workVars
<1>6. CASE DetachStep
  <2> USE DEF workVars, flagVars
  <2>1. CASE SignalStop \/ DetachLocks \/ DetachReturns
    BY <2>1 DEF SignalStop, DetachLocks, DetachReturns, natVars
  <2>2. CASE DetachSweep
    BY <2>2 DEF DetachSweep, Deregister, restVars
  <2>3. CASE DetachSwept
    <3>1. g_lock = Detacher /\ wpc \notin {"gateway", "store"}
      BY <2>3 DEF DetachSwept, LockDiscipline, LockedPlaces
    <3> QED BY <2>3, <3>1, SweptEmpty DEF DetachSwept
  <2> QED BY <1>6, <2>1, <2>2, <2>3 DEF DetachStep
<1> QED BY <1>1, <1>2, <1>3, <1>4, <1>5, <1>6, NextKinds

\* Every step keeps what is known of the teardown.
LEMMA EndingStep == ASSUME IInv, [Next]_vars PROVE EndingInv'
<1> USE DEF IInv, EndingInv
<1>1. CASE Quiet
  BY <1>1 DEF Quiet, natVars, workVars, restVars
<1>2. ASSUME NEW t \in Threads, TryLock(t) \/ ThreadSweep(t) \/ ThreadSwept(t) PROVE EndingInv'
  BY <1>2 DEF TryLock, ThreadSweep, Deregister, ThreadSwept, natVars, workVars, restVars
<1>3. CASE WorkerStep
  <2> USE DEF WorkerAt, Running, natVars, restVars
  <2>1. CASE WaitWakeup \/ TakeRequests \/ WorkerLocks \/ NotifyReleased
    BY <2>1 DEF WaitWakeup, TakeRequests, WorkerLocks, OnceLocked, NotifyReleased
  <2>2. CASE WorkerSweep \/ WorkerSwept
    BY <2>2 DEF WorkerSweep, Deregister, WorkerSwept, workVars
  <2>3. CASE OpenNat
    BY <2>3 DEF OpenNat
  <2>4. CASE WaitGateway
    BY <2>4 DEF WaitGateway, PhaseInv
  <2>5. CASE GiveUp \/ WorkerUnlocks
    BY <2>5 DEF GiveUp, WorkerUnlocks
  <2>6. CASE RegisterPort \/ DropJob \/ StoreMapping
    BY <2>6 DEF RegisterPort, DropJob, StoreMapping
  <2>7. CASE RegisterThroughNull
    BY <2>7 DEF RegisterThroughNull, HaveJob, PhaseInv
  <2> QED BY <1>3, <2>1, <2>2, <2>3, <2>4, <2>5, <2>6, <2>7 DEF WorkerStep
<1>4. CASE InstallStep
  <2> USE DEF InstallAt, Running, natVars
  <2>1. CASE InstallBegin \/ InstallHook
    BY <2>1 DEF InstallBegin, InstallHook, workVars
  <2>2. CASE InstallFails
    BY <2>2 DEF InstallFails, workVars
  <2>3. CASE InstallFinish
    BY <2>3 DEF InstallFinish
  <2> QED BY <1>4, <2>1, <2>2, <2>3 DEF InstallStep
<1>5. CASE ExitProcess \/ UnloadDll
  BY <1>5 DEF ExitProcess, UnloadDll, Running, natVars, workVars
<1>6. CASE DetachStep
  <2> USE DEF Running, Detaching, workVars
  <2>1. CASE SignalStop
    BY <2>1 DEF SignalStop, SkipsRelease, PhaseInv, natVars
  <2>2. CASE DetachLocks \/ DetachSweep \/ DetachReturns
    BY <2>2 DEF DetachLocks, DetachSweep, Deregister, DetachReturns, natVars, restVars
  <2>3. CASE DetachSwept
    BY <2>3 DEF DetachSwept
  <2> QED BY <1>6, <2>1, <2>2, <2>3 DEF DetachStep
<1> QED BY <1>1, <1>2, <1>3, <1>4, <1>5, <1>6, NextKinds

-----------------------------------------------------------------------------
(* The book. *)

\* A step that changes neither the book nor who sweeps keeps BookInv.
LEMMA BookFrame ==
  ASSUME BookInv, UNCHANGED <<g_maps, cursor, leases, refused, got>>,
         Sweeping' <=> Sweeping, wpc' = "store" <=> wpc = "store"
  PROVE  BookInv'
  BY DEF BookInv, LeasesAccounted, Kept, NoDuplicateMapping

\* So does a step at which a sweep may begin, the cursor being at the start.
LEMMA BookFrameUnswept ==
  ASSUME BookInv, cursor = 1, UNCHANGED <<g_maps, cursor, leases, refused, got>>,
         wpc' = "store" <=> wpc = "store"
  PROVE  BookInv'
  BY DEF BookInv, LeasesAccounted, Kept, NoDuplicateMapping

\* A sweeper owns g_lock, so the worker has no lease in hand.
LEMMA SweeperAlone ==
  ASSUME IInv, Sweeping PROVE wpc # "store" /\ got = {}
  BY NamesAssumption DEF IInv, LockDiscipline, LockedPlaces, Sweeping, SweepingThread, BookInv

\* The mapping nat_release_all comes to is held, once, and is then behind it.
LEMMA DeregisterKept ==
  ASSUME IInv, Deregister
  PROVE  /\ g_maps[cursor] \in Kept /\ g_maps[cursor] \notin refused
         /\ g_maps[cursor] \in Lease
         /\ Kept' = Kept \ {g_maps[cursor]}
<1> DEFINE m == g_maps[cursor]
<1>1. /\ cursor \in 1 .. Len(g_maps) /\ cursor' = cursor + 1 /\ g_maps' = g_maps
      /\ Len(g_maps) \in Nat
  BY MapsInLease DEF IInv, BookInv, Deregister
<1>2. m \in Kept /\ m \in Lease
  BY <1>1, MapsInLease DEF Kept, IInv
<1>3. m \notin refused
  BY <1>2 DEF IInv, BookInv
<1>4. \A i \in cursor + 1 .. Len(g_maps) : g_maps[i] # m
  BY <1>1 DEF IInv, BookInv, NoDuplicateMapping
<1>5. Kept' = { g_maps[i] : i \in cursor + 1 .. Len(g_maps) }
  BY <1>1 DEF Kept
<1>6. cursor .. Len(g_maps) = {cursor} \union (cursor + 1 .. Len(g_maps))
  BY <1>1
<1>7. Kept' = Kept \ {m}
  BY <1>4, <1>5, <1>6 DEF Kept
<1> QED BY <1>2, <1>3, <1>7

\* One round of the loop of nat_release_all keeps BookInv.
LEMMA DeregisterBook ==
  ASSUME IInv, Deregister, Sweeping, Sweeping', wpc' = wpc, got' = got
  PROVE  BookInv'
<1> USE DEF IInv
<1>1. wpc # "store" /\ got = {}
  BY SweeperAlone
<1>2. /\ g_maps[cursor] \in Kept /\ g_maps[cursor] \notin refused
      /\ Kept' = Kept \ {g_maps[cursor]}
  BY DeregisterKept
<1>3. LeasesAccounted' /\ \A m \in refused' : m \notin got' /\ m \notin Kept'
  BY <1>1, <1>2 DEF BookInv, LeasesAccounted, Deregister
<1>4. cursor' \in 1 .. Len(g_maps') + 1
  BY DEF BookInv, Deregister, TypeOK, BookTypes
<1>5. NoDuplicateMapping'
  BY DEF BookInv, NoDuplicateMapping, Deregister
<1> QED BY <1>1, <1>3, <1>4, <1>5 DEF BookInv

\* At the end of nat_release_all nothing is held but what the router refused.
LEMMA SweptBook ==
  ASSUME IInv, SweepDone, Sweeping, wpc' # "store", got' = got
  PROVE  BookInv' /\ leases \subseteq refused
<1> USE DEF IInv
<1>1. got = {}
  BY SweeperAlone
<1>2. g_maps' = <<>> /\ cursor' = 1 /\ leases' = leases /\ refused' = refused
  BY SweptEmpty DEF SweepDone
<1>3. Kept = {}
  <2>1. cursor > Len(g_maps)
    BY DEF SweepDone, SweepEnds, PhaseInv, BookInv
  <2>2. cursor .. Len(g_maps) = {}
    BY <2>1 DEF TypeOK, BookTypes
  <2> QED BY <2>2 DEF Kept
<1>4. leases = refused
  BY <1>1, <1>3 DEF BookInv, LeasesAccounted
<1>5. Kept' = {}
  BY <1>2 DEF Kept
<1>6. NoDuplicateMapping'
  BY <1>1, <1>2 DEF NoDuplicateMapping
<1>7. LeasesAccounted' /\ \A m \in refused' : m \notin got' /\ m \notin Kept'
  BY <1>1, <1>2, <1>4, <1>5 DEF LeasesAccounted
<1>8. cursor' \in 1 .. Len(g_maps') + 1 /\ cursor' = 1
  BY <1>2
<1> QED BY <1>1, <1>4, <1>6, <1>7, <1>8 DEF BookInv

\* The worker owns g_lock while it registers, so the cursor is at the start.
LEMMA RegisteringUnswept ==
  ASSUME IInv, wpc \in {"register", "store"}
  PROVE  ~Sweeping /\ cursor = 1
  BY NamesAssumption DEF IInv, LockDiscipline, LockedPlaces, Sweeping, SweepingThread, BookInv

\* nat_register obtains a lease that is new, for a pair that is not mapped.
LEMMA RegisterKept ==
  ASSUME IInv, RegisterPort
  PROVE  \E m \in Lease :
           /\ got' = {m} /\ leases' = leases \union {m}
           /\ m \notin leases
           /\ \A i \in 1 .. Len(g_maps) : ~(g_maps[i].port = m.port /\ g_maps[i].tcp = m.tcp)
<1>1. PICK h \in Handles : /\ \A m \in leases : m.handle # h
                           /\ got' = {[handle |-> h, port |-> job[NextTcp], tcp |-> NextTcp]}
  BY DEF RegisterPort
<1> DEFINE n == [handle |-> h, port |-> job[NextTcp], tcp |-> NextTcp]
<1>2. n \in Lease
  BY <1>1, NextRegister DEF IInv
<1>3. n \notin leases
  BY <1>1
<1>4. \A i \in 1 .. Len(g_maps) : ~(g_maps[i].port = n.port /\ g_maps[i].tcp = n.tcp)
  BY DEF RegisterPort, Skipped, AlreadyMapped
<1>5. got' = {n} /\ leases' = leases \union {n}
  BY <1>1 DEF RegisterPort
<1> HIDE DEF n
<1> QED BY <1>2, <1>3, <1>4, <1>5

\* The step in which RegisterPorts succeeds keeps BookInv.
LEMMA RegisterBook == ASSUME IInv, RegisterPort PROVE BookInv'
<1> USE DEF IInv
<1>1. PICK m \in Lease :
        /\ got' = {m} /\ leases' = leases \union {m}
        /\ m \notin leases
        /\ \A i \in 1 .. Len(g_maps) : ~(g_maps[i].port = m.port /\ g_maps[i].tcp = m.tcp)
  BY RegisterKept
<1>2. /\ UNCHANGED <<g_maps, cursor, refused>> /\ wpc' = "store"
      /\ wpc = "register" /\ Len(g_maps) < MAX_MAPPINGS
  BY MapsInLease, BoundsAssumption DEF RegisterPort, HaveJob, WorkerAt, Skipped, MapsFull
<1>3. got = {} /\ cursor = 1 /\ Kept' = Kept
  BY <1>2, RegisteringUnswept DEF BookInv, Kept
<1>4. LeasesAccounted' /\ \A n \in refused' : n \notin got' /\ n \notin Kept'
  BY <1>1, <1>2, <1>3 DEF BookInv, LeasesAccounted
<1>5. NoDuplicateMapping'
  BY <1>1, <1>2 DEF BookInv, NoDuplicateMapping
<1>6. cursor' \in 1 .. Len(g_maps') + 1 /\ cursor' = 1
  BY <1>2, <1>3 DEF BookInv
<1>7. Len(g_maps') < MAX_MAPPINGS /\ \E n \in Lease : got' = {n}
  BY <1>1, <1>2
<1> QED BY <1>2, <1>4, <1>5, <1>6, <1>7 DEF BookInv

\* Writing the lease into g_maps keeps BookInv.
LEMMA StoreBook == ASSUME IInv, StoreMapping PROVE BookInv'
<1> USE DEF IInv
<1>1. wpc = "store" /\ cursor = 1 /\ UNCHANGED <<cursor, leases, refused>>
  BY RegisteringUnswept DEF StoreMapping, WorkerAt
<1>2. PICK m \in Lease : got = {m}
  BY <1>1 DEF BookInv
<1>3. g_maps' = Append(g_maps, m) /\ got' = {} /\ wpc' = "register"
  BY <1>2 DEF StoreMapping
<1>4. /\ g_maps \in Seq(Lease) /\ Len(g_maps) \in Nat /\ Len(g_maps') = Len(g_maps) + 1
      /\ \A i \in 1 .. Len(g_maps) : g_maps'[i] = g_maps[i]
      /\ g_maps'[Len(g_maps) + 1] = m
  BY <1>3 DEF TypeOK, BookTypes
<1>5. Kept' = Kept \union {m}
  <2>1. 1 .. Len(g_maps') = (1 .. Len(g_maps)) \union {Len(g_maps) + 1}
    BY <1>4
  <2>2. Kept' = { g_maps'[i] : i \in 1 .. Len(g_maps') } /\ Kept = { g_maps[i] : i \in 1 .. Len(g_maps) }
    BY <1>1 DEF Kept
  <2> QED BY <1>4, <2>1, <2>2
<1>6. LeasesAccounted' /\ \A n \in refused' : n \notin got' /\ n \notin Kept'
  BY <1>1, <1>2, <1>3, <1>5 DEF BookInv, LeasesAccounted
<1>7. NoDuplicateMapping'
  <2>1. \A i \in 1 .. Len(g_maps) : ~(g_maps[i].port = m.port /\ g_maps[i].tcp = m.tcp)
    BY <1>2 DEF BookInv, NoDuplicateMapping
  <2>2. ASSUME NEW i \in 1 .. Len(g_maps'), NEW j \in 1 .. Len(g_maps'),
               g_maps'[i].port = g_maps'[j].port, g_maps'[i].tcp = g_maps'[j].tcp
        PROVE  i = j
    BY <1>4, <2>1, <2>2 DEF BookInv, NoDuplicateMapping
  <2> QED BY <1>3, <2>2 DEF NoDuplicateMapping
<1>8. cursor' \in 1 .. Len(g_maps') + 1 /\ cursor' = 1
  BY <1>1, <1>4
<1> QED BY <1>3, <1>6, <1>7, <1>8 DEF BookInv

-----------------------------------------------------------------------------
\* Every step keeps BookInv.
LEMMA BookStep == ASSUME IInv, [Next]_vars PROVE BookInv'
<1> USE NamesAssumption DEF IInv, Sweeping, SweepingThread
<1>1. CASE Quiet
  <2>1. UNCHANGED <<g_maps, cursor, leases, refused, got, wpc, dpc>>
    BY <1>1 DEF Quiet, natVars, workVars, restVars
  <2>2. Sweeping' <=> Sweeping
    BY <1>1, <2>1 DEF Quiet
  <2> QED BY <2>1, <2>2, BookFrame
<1>2. ASSUME NEW t \in Threads, TryLock(t) \/ ThreadSweep(t) \/ ThreadSwept(t) PROVE BookInv'
  <2>0. tpc \in [Threads -> ThreadPlaces]
    BY DEF TypeOK, ActorTypes
  <2>1. CASE TryLock(t)
    <3>1. UNCHANGED <<g_maps, cursor, leases, refused, got, wpc, dpc>>
      BY <2>1 DEF TryLock, natVars, workVars, restVars
    <3>2. CASE tpc' = [tpc EXCEPT ![t] = "sweep"]
      <4>1. g_lock = NoOne
        BY <2>0, <2>1, <3>2 DEF TryLock, ThreadGoes, Enters
      <4>2. ~Sweeping
        BY <4>1 DEF LockDiscipline, LockedPlaces
      <4> QED BY <3>1, <4>2, BookFrameUnswept DEF BookInv
    <3>3. CASE tpc' = [tpc EXCEPT ![t] = "handoff"]
      <4>1. Sweeping' <=> Sweeping
        BY <2>0, <2>1, <3>1, <3>3 DEF TryLock, ThreadAt
      <4> QED BY <3>1, <4>1, BookFrame
    <3> QED BY <2>1, <3>2, <3>3 DEF TryLock, ThreadGoes
  <2>2. CASE ThreadSweep(t)
    BY <2>2, DeregisterBook DEF ThreadSweep, Deregister, ThreadAt, gameVars, workVars, restVars
  <2>3. CASE ThreadSwept(t)
    <3>1. Sweeping /\ wpc' = wpc /\ got' = got
      BY <2>3 DEF ThreadSwept, ThreadAt, workVars
    <3> QED BY <2>3, <3>1, SweptBook, SweeperAlone DEF ThreadSwept
  <2> QED BY <1>2, <2>1, <2>2, <2>3
<1>3. CASE WorkerStep
  <2>1. CASE WaitWakeup \/ TakeRequests \/ NotifyReleased
    BY <2>1, BookFrame DEF WaitWakeup, TakeRequests, NotifyReleased, WorkerAt, natVars, gameVars, restVars
  <2>2. CASE WorkerLocks
    <3>1. ~Sweeping /\ wpc # "store" /\ wpc' # "store"
      BY <2>2 DEF WorkerLocks, OnceLocked, Enters, WorkerAt, LockDiscipline, LockedPlaces
    <3> QED BY <2>2, <3>1, BookFrameUnswept DEF WorkerLocks, natVars, BookInv
  <2>3. CASE WorkerSweep
    BY <2>3, DeregisterBook DEF WorkerSweep, Deregister, WorkerAt, gameVars, workVars, restVars
  <2>4. CASE WorkerSwept
    BY <2>4, SweptBook DEF WorkerSwept, WorkerAt
  <2>5. CASE OpenNat \/ WaitGateway \/ GiveUp \/ WorkerUnlocks
    BY <2>5, BookFrame DEF OpenNat, WaitGateway, GiveUp, WorkerUnlocks, WorkerAt, natVars, gameVars, restVars
  <2>6. CASE RegisterPort
    BY <2>6, RegisterBook
  <2>7. CASE DropJob \/ RegisterThroughNull
    BY <2>7, BookFrame DEF DropJob, RegisterThroughNull, HaveJob, WorkerAt, natVars, gameVars, restVars
  <2>8. CASE StoreMapping
    BY <2>8, StoreBook
  <2> QED BY <1>3, <2>1, <2>2, <2>3, <2>4, <2>5, <2>6, <2>7, <2>8 DEF WorkerStep
<1>4. CASE InstallStep
  <2>1. UNCHANGED <<g_maps, cursor, leases, refused, got, tpc, dpc>>
    BY <1>4 DEF InstallStep, InstallBegin, InstallHook, InstallFails, InstallFinish, natVars, gameVars, workVars
  <2>2. wpc' = wpc \/ (wpc = "none" /\ wpc' \in {"none", "wait"})
    BY <1>4 DEF InstallStep, InstallBegin, InstallHook, InstallFails, InstallFinish, workVars, InstallAt, PhaseInv
  <2> QED BY <2>1, <2>2, BookFrame
<1>5. CASE ExitProcess \/ UnloadDll
  BY <1>5, BookFrame DEF ExitProcess, UnloadDll, natVars, gameVars, workVars
<1>6. CASE DetachStep
  <2>1. CASE SignalStop \/ DetachReturns
    BY <2>1, BookFrame DEF SignalStop, DetachReturns, SkipsRelease, natVars, gameVars, workVars
  <2>2. CASE DetachLocks
    <3>1. ~Sweeping
      BY <2>2 DEF DetachLocks, Enters, LockDiscipline, LockedPlaces
    <3> QED BY <2>2, <3>1, BookFrameUnswept DEF DetachLocks, natVars, workVars, BookInv
  <2>3. CASE DetachSweep
    BY <2>3, DeregisterBook DEF DetachSweep, Deregister, gameVars, workVars, restVars
  <2>4. CASE DetachSwept
    BY <2>4, SweptBook, SweeperAlone DEF DetachSwept, workVars
  <2> QED BY <1>6, <2>1, <2>2, <2>3, <2>4 DEF DetachStep
<1> QED BY <1>1, <1>2, <1>3, <1>4, <1>5, <1>6, NextKinds

-----------------------------------------------------------------------------
(* The theorems. *)

\* IInv holds in every state of UPnPPorts.
THEOREM Invariance == Spec => []IInv
<1>1. IInv /\ [Next]_vars => IInv'
  BY BookTypesStep, SharedTypesStep, ActorTypesStep, LockStep, BookStep, PhaseStep, EndingStep
  DEF IInv, TypeOK
<1> QED BY InitInv, <1>1, PTL DEF Spec

\* Every variable keeps its type and nat_register never writes past g_maps.
THEOREM TypeCorrect == Spec => []TypeOK
<1>1. IInv => TypeOK
  BY DEF IInv
<1> QED BY Invariance, <1>1, PTL


\* nat_release_all, nat_open, nat_wait_gateway and nat_register run under g_lock.
THEOREM LocksKept == Spec => []LockDiscipline
<1>1. IInv => LockDiscipline
  BY DEF IInv
<1> QED BY Invariance, <1>1, PTL

\* The leases the router holds are the mappings still to be released, the one
\* just granted and those the router refused to take back.
THEOREM LeasesNeverLost == Spec => []LeasesAccounted
<1>1. IInv => LeasesAccounted
  BY DEF IInv, BookInv
<1> QED BY Invariance, <1>1, PTL

\* nat_register never asks the router for a pair it has already mapped.
THEOREM NeverMappedTwice == Spec => []NoDuplicateMapping
<1>1. IInv => NoDuplicateMapping
  BY DEF IInv, BookInv
<1> QED BY Invariance, <1>1, PTL

\* When g_disabled is set, by the installer or by the worker, nothing is mapped.
THEOREM DisabledUnmapped == Spec => []DisabledMeansUnmapped
<1>1. IInv => DisabledMeansUnmapped
  BY DEF IInv, BookInv, PhaseInv, DisabledMeansUnmapped
<1> QED BY Invariance, <1>1, PTL

\* While the worker looks for the helper and the gateway nothing is leased but
\* what the router refused to take back.
THEOREM DiscoveryHoldsNothing == Spec => []DiscoveryUnmapped
<1>1. IInv => DiscoveryUnmapped
  <2> SUFFICES ASSUME IInv, wpc \in {"open", "gateway"} PROVE g_maps = <<>> /\ leases \subseteq refused
    BY DEF DiscoveryUnmapped
  <2>1. g_maps = <<>> /\ got = {}
    BY DEF IInv, BookInv, PhaseInv
  <2>2. Kept = {}
    BY <2>1 DEF IInv, BookInv, Kept
  <2> QED BY <2>1, <2>2 DEF IInv, BookInv, LeasesAccounted
<1> QED BY Invariance, <1>1, PTL

\* An unload through UPnPPorts_Shutdown(false) that completes has released every
\* mapping the router would take back.
THEOREM UnloadLeavesNothing == Spec => []UnloadReleases
<1>1. IInv => UnloadReleases
  <2> SUFFICES ASSUME IInv, proc = "unloaded" PROVE leases \subseteq refused
    BY DEF UnloadReleases
  <2>1. g_maps = <<>> /\ got = {}
    BY DEF IInv, EndingInv, PhaseInv, BookInv
  <2>2. Kept = {}
    BY <2>1 DEF IInv, BookInv, Kept
  <2> QED BY <2>1, <2>2 DEF IInv, BookInv, LeasesAccounted
<1> QED BY Invariance, <1>1, PTL

\* In a process that never unloads the DLL the worker never calls RegisterPorts
\* through a NULL g_nat.
THEOREM NoNullWithoutUnload ==
  ASSUME "unload" \notin Endings PROVE Spec => []NoNullHelper
<1>1. IInv => NoNullHelper
  BY DEF IInv, EndingInv, NoNullHelper
<1> QED BY Invariance, <1>1, PTL

\* UPnPPorts_Shutdown(true) takes no lock and calls no COM object.
THEOREM TeardownIsSilent == Spec => TeardownSilent
<1>1. IInv /\ [Next]_vars => [proc = "exiting" => UNCHANGED <<natVars, g_lock>>]_vars
  <2> SUFFICES ASSUME IInv, [Next]_vars, proc = "exiting" PROVE UNCHANGED <<natVars, g_lock>>
    OBVIOUS
  <2>1. CASE Quiet
    BY <2>1 DEF Quiet
  <2>2. ~Running /\ dpc \in {"stop", "done"}
    BY DEF IInv, EndingInv, Running
  <2>3. ASSUME NEW t \in Threads, TryLock(t) \/ ThreadSweep(t) \/ ThreadSwept(t) PROVE FALSE
    BY <2>2, <2>3 DEF TryLock, ThreadSweep, ThreadSwept, ThreadAt
  <2>4. CASE WorkerStep
    BY <2>2, <2>4 DEF WorkerStep, WorkerAt, WaitWakeup, TakeRequests, WorkerLocks, WorkerSweep, WorkerSwept,
      NotifyReleased, OpenNat, WaitGateway, GiveUp, RegisterPort, DropJob, RegisterThroughNull, HaveJob,
      StoreMapping, WorkerUnlocks
  <2>5. CASE InstallStep
    BY <2>2, <2>5 DEF InstallStep, InstallBegin, InstallHook, InstallFails, InstallFinish, InstallAt
  <2>6. CASE ExitProcess \/ UnloadDll
    BY <2>2, <2>6 DEF ExitProcess, UnloadDll
  <2>7. CASE DetachStep
    BY <2>2, <2>7 DEF DetachStep, SignalStop, DetachLocks, DetachSweep, DetachSwept, DetachReturns
  <2>8. TypeOK
    BY DEF IInv
  <2> QED BY <2>1, <2>3, <2>4, <2>5, <2>6, <2>7, <2>8, NextKinds
<1> QED BY Invariance, <1>1, PTL DEF Spec, TeardownSilent

\* What is true of "mappings are released when the server closes its query socket".
\* A release that finds no mapping leaves at most the lease that the worker has just
\* been granted and not yet entered; one that sweeps, by itself or through the worker,
\* leaves only what the router would not take back.
ReleaseMissesOnlyGrant ==
  [][/\ \A t \in Threads :
          /\ CheckMaps(t) /\ tpc'[t] = "return" =>
               leases \subseteq refused \union got /\ (got = {} \/ \E m \in Lease : got = {m})
          /\ ThreadSwept(t) => leases' \subseteq refused'
     /\ WorkerSwept => leases' \subseteq refused']_vars

\* So a port that stays forwarded after a close, as in upnp_closed, was granted but not
\* yet entered when hook_closesocket looked, or was asked for from the router later.
THEOREM OnlyGrantMissed == Spec => ReleaseMissesOnlyGrant
<1>1. ASSUME IInv, NEW t \in Threads, CheckMaps(t), tpc'[t] = "return"
      PROVE  leases \subseteq refused \union got /\ (got = {} \/ \E m \in Lease : got = {m})
  <2>1. tpc \in [Threads -> ThreadPlaces]
    BY <1>1 DEF IInv, TypeOK, ActorTypes
  <2>2. ~g_lockReady \/ g_maps = <<>>
    BY <1>1, <2>1 DEF CheckMaps, ThreadGoes
  <2>3. g_maps = <<>>
    BY <1>1, <2>2 DEF IInv, PhaseInv
  <2>4. Kept = {}
    BY <1>1, <2>3 DEF IInv, BookInv, Kept
  <2> QED BY <1>1, <2>4 DEF IInv, BookInv, LeasesAccounted
<1>2. ASSUME IInv, NEW t \in Threads, ThreadSwept(t)
      PROVE  leases' \subseteq refused'
  <2>1. SweepDone /\ Sweeping /\ wpc' = wpc /\ got' = got
    BY <1>2 DEF ThreadSwept, ThreadAt, workVars, Sweeping, SweepingThread
  <2> QED BY <1>2, <2>1, SweeperAlone, SweptBook DEF SweepDone
<1>3. ASSUME IInv, WorkerSwept
      PROVE  leases' \subseteq refused'
  <2>1. SweepDone /\ Sweeping /\ wpc' = "notify" /\ got' = got
    BY <1>3 DEF WorkerSwept, WorkerAt, Sweeping
  <2> QED BY <1>3, <2>1, SweptBook DEF SweepDone
<1>4. IInv => /\ \A t \in Threads :
                   /\ CheckMaps(t) /\ tpc'[t] = "return" =>
                        leases \subseteq refused \union got /\ (got = {} \/ \E m \in Lease : got = {m})
                   /\ ThreadSwept(t) => leases' \subseteq refused'
              /\ WorkerSwept => leases' \subseteq refused'
  BY <1>1, <1>2, <1>3
<1> QED BY Invariance, <1>4, PTL DEF Spec, ReleaseMissesOnlyGrant

\* The other half of LockDiscipline: nobody is outside a section of g_lock and has it
\* still, whichever way the section was left.
LockLeft ==
  /\ \A t \in Threads : g_lock = t => tpc[t] = "sweep"
  /\ g_lock = Worker => wpc \in LockedPlaces \union {"fault"}
  /\ g_lock = Detacher => dpc = "sweep"

\* Every step keeps LockLeft: a section is left together with the lock.
LEMMA LeftStep == ASSUME IInv, LockLeft, [Next]_vars PROVE LockLeft'
<1> USE NamesAssumption DEF LockLeft
<1>1. CASE Quiet
  BY <1>1 DEF Quiet, workVars, restVars
<1>2. ASSUME NEW t \in Threads, TryLock(t) \/ ThreadSweep(t) \/ ThreadSwept(t)
      PROVE  LockLeft'
  <2> tpc \in [Threads -> ThreadPlaces]
    BY DEF IInv, TypeOK, ActorTypes
  <2>1. CASE TryLock(t)
    BY <2>1 DEF TryLock, ThreadAt, ThreadGoes, Enters, workVars, restVars
  <2>2. CASE ThreadSweep(t)
    BY <2>2 DEF ThreadSweep, Deregister, gameVars, workVars, restVars
  <2>3. CASE ThreadSwept(t)
    BY <2>3 DEF ThreadSwept, SweepDone
  <2> QED BY <1>2, <2>1, <2>2, <2>3
<1>3. CASE WorkerStep
  <2> USE DEF WorkerAt, LockedPlaces, gameVars, restVars
  <2>1. CASE WaitWakeup \/ TakeRequests \/ NotifyReleased
    BY <2>1 DEF WaitWakeup, TakeRequests, NotifyReleased
  <2>2. CASE WorkerLocks
    BY <2>2 DEF WorkerLocks, Enters, OnceLocked
  <2>3. CASE WorkerSweep
    BY <2>3 DEF WorkerSweep, Deregister, workVars
  <2>4. CASE WorkerSwept \/ GiveUp \/ WorkerUnlocks
    BY <2>4 DEF WorkerSwept, SweepDone, GiveUp, WorkerUnlocks
  <2>5. CASE OpenNat \/ WaitGateway
    BY <2>5 DEF OpenNat, WaitGateway
  <2>6. CASE RegisterPort \/ DropJob \/ StoreMapping \/ RegisterThroughNull
    BY <2>6 DEF RegisterPort, DropJob, StoreMapping, RegisterThroughNull, HaveJob
  <2> QED BY <1>3, <2>1, <2>2, <2>3, <2>4, <2>5, <2>6 DEF WorkerStep
<1>4. CASE InstallStep
  <2> USE DEF gameVars
  <2>1. CASE InstallBegin \/ InstallHook \/ InstallFails
    BY <1>4, <2>1 DEF InstallBegin, InstallHook, InstallFails, workVars
  <2>2. CASE InstallFinish
    <3>1. wpc = "none" /\ g_lock # Worker
      BY <2>2 DEF InstallFinish, InstallAt, IInv, PhaseInv, LockedPlaces
    <3> QED BY <2>2, <3>1 DEF InstallFinish
  <2> QED BY <1>4, <2>1, <2>2 DEF InstallStep
<1>5. CASE ExitProcess \/ UnloadDll
  BY <1>5 DEF ExitProcess, UnloadDll, gameVars, workVars, IInv, EndingInv
<1>6. CASE DetachStep
  <2> USE DEF gameVars, workVars
  <2>1. CASE SignalStop \/ DetachReturns
    BY <2>1 DEF SignalStop, DetachReturns
  <2>2. CASE DetachLocks
    BY <2>2 DEF DetachLocks, Enters
  <2>3. CASE DetachSweep
    BY <2>3 DEF DetachSweep, Deregister, restVars
  <2>4. CASE DetachSwept
    BY <2>4 DEF DetachSwept, SweepDone
  <2> QED BY <1>6, <2>1, <2>2, <2>3, <2>4 DEF DetachStep
<1> QED BY <1>1, <1>2, <1>3, <1>4, <1>5, <1>6, NextKinds DEF IInv

\* g_lock is left on every way out of its sections, so whoever waits for it waits for
\* somebody inside one, as the unload of upnp_unload_hang does for a worker in OpenNat.
THEOREM LockIsLeft == Spec => []LockLeft
<1>1. Init => LockLeft
  BY NamesAssumption DEF Init, LockLeft
<1>2. IInv /\ LockLeft /\ [Next]_vars => LockLeft'
  BY LeftStep
<1> QED BY Invariance, <1>1, <1>2, PTL DEF Spec

-----------------------------------------------------------------------------
(* The refinement. *)

\* The initial book is empty and unswept.
LEMMA PromiseInit == Init => Promise!Init
  BY DEF Init, Promise!Init, Sweeping, SweepingThread

\* Taking g_lock for nat_release_all begins a sweep, and only one.
LEMMA SweepBegins ==
  ASSUME IInv, g_lock = NoOne, Sweeping', UNCHANGED <<leases, refused>> PROVE Promise!BeginSweep
  BY NamesAssumption DEF IInv, LockDiscipline, LockedPlaces, Sweeping, SweepingThread, Promise!BeginSweep

\* A round of nat_release_all gives one lease back.
LEMMA SweepGivesBack ==
  ASSUME IInv, Deregister, Sweeping, Sweeping' PROVE \E m \in Lease : Promise!GiveBack(m)
<1> DEFINE m == g_maps[cursor]
<1>1. m \in Kept /\ m \notin refused /\ m \in Lease
  BY DeregisterKept
<1>2. m \in leases \ refused
  BY <1>1 DEF IInv, BookInv, LeasesAccounted
<1>3. (leases \ refused)' = (leases \ refused) \ {m}
  BY DEF Deregister
<1>4. Promise!GiveBack(m)
  BY <1>2, <1>3 DEF Promise!GiveBack
<1> QED BY <1>1, <1>4

\* The end of nat_release_all ends the sweep with an empty book.
LEMMA SweepEndsInPromise ==
  ASSUME IInv, SweepDone, Sweeping, ~Sweeping', got' = got, wpc' # "store" PROVE Promise!EndSweep
  BY SweptBook DEF SweepDone, Promise!EndSweep

\* A granted lease is taken outside a sweep and for a new pair.
LEMMA RegisterTakes ==
  ASSUME IInv, RegisterPort PROVE \E m \in Lease : Promise!Take(m)
<1>1. PICK m \in Lease :
        /\ got' = {m} /\ leases' = leases \union {m}
        /\ m \notin leases
        /\ \A i \in 1 .. Len(g_maps) : ~(g_maps[i].port = m.port /\ g_maps[i].tcp = m.tcp)
  BY RegisterKept
<1>2. wpc = "register" /\ wpc' = "store" /\ UNCHANGED <<refused, tpc, dpc>>
  BY DEF RegisterPort, HaveJob, WorkerAt, gameVars, restVars
<1>3. ~Sweeping /\ cursor = 1 /\ got = {}
  BY <1>2, RegisteringUnswept DEF IInv, BookInv
<1>4. Sweeping' = Sweeping
  BY <1>2, <1>3 DEF Sweeping, SweepingThread
<1>5. \A n \in leases \ refused : ~(m.port = n.port /\ m.tcp = n.tcp)
  BY <1>1, <1>3 DEF IInv, BookInv, LeasesAccounted, Kept
<1>6. (leases \ refused)' = (leases \ refused) \union {m}
  BY <1>1, <1>2 DEF IInv, BookInv, LeasesAccounted
<1>7. Promise!Take(m)
  BY <1>3, <1>4, <1>5, <1>6 DEF Promise!Take, Promise!SamePort
<1> QED BY <1>7

\* Every step of UPnPPorts is a step of PortLeases or leaves its book alone.
LEMMA PromiseStep ==
  ASSUME IInv, [Next]_vars PROVE [Promise!Next]_(Promise!leaseVars)
<1> USE NamesAssumption DEF IInv
<1> DEFINE Stutter == UNCHANGED <<leases, refused>> /\ Sweeping' = Sweeping
<1>0. Stutter => UNCHANGED Promise!leaseVars
  BY DEF Promise!leaseVars
<1> SUFFICES Stutter \/ Promise!Next
  BY <1>0
<1>1. CASE Quiet
  BY <1>1 DEF Quiet, natVars, workVars, restVars, Sweeping, SweepingThread
<1>2. ASSUME NEW t \in Threads, TryLock(t) \/ ThreadSweep(t) \/ ThreadSwept(t)
      PROVE  Stutter \/ Promise!Next
  <2>0. tpc \in [Threads -> ThreadPlaces]
    BY DEF TypeOK, ActorTypes
  <2>1. CASE TryLock(t)
    <3>1. UNCHANGED <<leases, refused, wpc, dpc>>
      BY <2>1 DEF TryLock, natVars, workVars, restVars
    <3>2. CASE tpc' = [tpc EXCEPT ![t] = "sweep"]
      <4>1. g_lock = NoOne /\ Sweeping'
        BY <2>0, <2>1, <3>2 DEF TryLock, ThreadGoes, Enters, Sweeping, SweepingThread
      <4> QED BY <3>1, <4>1, SweepBegins DEF Promise!Next
    <3>3. CASE tpc' = [tpc EXCEPT ![t] = "handoff"]
      <4>1. Sweeping' = Sweeping
        BY <2>0, <2>1, <3>1, <3>3 DEF TryLock, ThreadAt, Sweeping, SweepingThread
      <4> QED BY <3>1, <4>1
    <3> QED BY <2>1, <3>2, <3>3 DEF TryLock, ThreadGoes
  <2>2. CASE ThreadSweep(t)
    <3>1. Deregister /\ Sweeping /\ Sweeping'
      BY <2>2 DEF ThreadSweep, Deregister, ThreadAt, gameVars, Sweeping, SweepingThread
    <3> QED BY <3>1, SweepGivesBack DEF Promise!Next
  <2>3. CASE ThreadSwept(t)
    <3>1. SweepDone /\ Sweeping /\ wpc' = wpc /\ dpc' = dpc /\ got' = got
      BY <2>3 DEF ThreadSwept, ThreadAt, workVars, restVars, Sweeping, SweepingThread
    <3>2. ~Sweeping'
      BY <2>0, <2>3, <3>1 DEF ThreadSwept, ThreadAt, ThreadGoes, LockDiscipline, LockedPlaces, Sweeping, SweepingThread
    <3> QED BY <3>1, <3>2, SweeperAlone, SweepEndsInPromise DEF Promise!Next
  <2> QED BY <1>2, <2>1, <2>2, <2>3
<1>3. CASE WorkerStep
  <2>1. CASE WorkerLocks
    <3>1. UNCHANGED <<leases, refused, tpc, dpc>> /\ g_lock = NoOne
      BY <2>1 DEF WorkerLocks, Enters, natVars, gameVars, restVars
    <3>2. CASE wpc' = "sweep"
      BY <3>1, <3>2, SweepBegins DEF Sweeping, Promise!Next
    <3>3. CASE wpc' # "sweep"
      BY <2>1, <3>1, <3>3 DEF WorkerLocks, WorkerAt, Sweeping, SweepingThread
    <3> QED BY <3>2, <3>3
  <2>2. CASE WorkerSweep
    <3>1. Deregister /\ Sweeping /\ Sweeping'
      BY <2>2 DEF WorkerSweep, Deregister, WorkerAt, workVars, Sweeping
    <3> QED BY <3>1, SweepGivesBack DEF Promise!Next
  <2>3. CASE WorkerSwept
    <3>1. SweepDone /\ Sweeping /\ wpc' = "notify" /\ UNCHANGED <<tpc, dpc, got>>
      BY <2>3 DEF WorkerSwept, WorkerAt, gameVars, restVars, Sweeping
    <3>2. ~Sweeping'
      BY <2>3, <3>1 DEF WorkerSwept, WorkerAt, LockDiscipline, LockedPlaces, Sweeping, SweepingThread
    <3> QED BY <3>1, <3>2, SweepEndsInPromise DEF Promise!Next
  <2>4. CASE RegisterPort
    BY <2>4, RegisterTakes DEF Promise!Next
  <2>5. CASE WaitWakeup \/ TakeRequests \/ NotifyReleased \/ OpenNat \/ WaitGateway
    BY <2>5 DEF WaitWakeup, TakeRequests, NotifyReleased, OpenNat, WaitGateway, WorkerAt,
      natVars, gameVars, restVars, Sweeping, SweepingThread
  <2>6. CASE GiveUp \/ DropJob \/ RegisterThroughNull \/ StoreMapping \/ WorkerUnlocks
    BY <2>6 DEF GiveUp, DropJob, RegisterThroughNull, StoreMapping, WorkerUnlocks, HaveJob, WorkerAt,
      natVars, gameVars, restVars, Sweeping, SweepingThread
  <2> QED BY <1>3, <2>1, <2>2, <2>3, <2>4, <2>5, <2>6 DEF WorkerStep
<1>4. CASE InstallStep
  <2>1. UNCHANGED <<leases, refused, tpc, dpc>>
    BY <1>4 DEF InstallStep, InstallBegin, InstallHook, InstallFails, InstallFinish, natVars, gameVars
  <2>2. wpc' = wpc \/ (wpc = "none" /\ wpc' \in {"none", "wait"})
    BY <1>4 DEF InstallStep, InstallBegin, InstallHook, InstallFails, InstallFinish, workVars, InstallAt, PhaseInv
  <2> QED BY <2>1, <2>2 DEF Sweeping, SweepingThread
<1>5. CASE ExitProcess \/ UnloadDll
  BY <1>5 DEF ExitProcess, UnloadDll, natVars, gameVars, workVars, Sweeping, SweepingThread
<1>6. CASE DetachStep
  <2>1. CASE SignalStop \/ DetachReturns
    BY <2>1 DEF SignalStop, DetachReturns, natVars, gameVars, workVars, Sweeping, SweepingThread
  <2>2. CASE DetachLocks
    <3>1. UNCHANGED <<leases, refused>> /\ g_lock = NoOne /\ Sweeping'
      BY <2>2 DEF DetachLocks, Enters, natVars, Sweeping
    <3> QED BY <3>1, SweepBegins DEF Promise!Next
  <2>3. CASE DetachSweep
    <3>1. Deregister /\ Sweeping /\ Sweeping'
      BY <2>3 DEF DetachSweep, Deregister, restVars, Sweeping
    <3> QED BY <3>1, SweepGivesBack DEF Promise!Next
  <2>4. CASE DetachSwept
    <3>1. SweepDone /\ Sweeping /\ dpc' = "done" /\ UNCHANGED <<tpc, wpc, got>>
      BY <2>4 DEF DetachSwept, gameVars, workVars, Sweeping
    <3>2. ~Sweeping'
      BY <2>4, <3>1 DEF DetachSwept, LockDiscipline, LockedPlaces, Sweeping, SweepingThread
    <3> QED BY <3>1, <3>2, SweeperAlone, SweepEndsInPromise DEF Promise!Next
  <2> QED BY <1>6, <2>1, <2>2, <2>3, <2>4 DEF DetachStep
<1> QED BY <1>1, <1>2, <1>3, <1>4, <1>5, <1>6, NextKinds

\* UPnPPorts implements PortLeases: whatever the interleaving of hooks, worker
\* and teardown, leases are taken one per pair and given back only in a sweep
\* that empties the book.
THEOREM Implementation == Spec => ImplementsPortLeases
<1> USE DEF ImplementsPortLeases
<1> QED BY Invariance, PromiseInit, PromiseStep, PTL DEF Spec, Promise!Spec
=============================================================================
