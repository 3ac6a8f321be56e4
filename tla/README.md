# Verification of the Vietcong DirectPlay host-fix

TLA+ models of the shim `dpnet.dll` and of the hooking library it carries, the
TLC runs that check them, and the proofs that TLAPS checks.

## 1. The system

`dpnet.dll` is registered in the place of the system's DirectPlay 8 provider. It
gives every class request to the real `dpnet.dll`; its purpose is to be inside the
game's process, where it patches two things: the listen host's join of its own
session (`selfjoin_hook.cpp`), and the forwarding of the server's ports through a
UPnP router (`upnp_ports.cpp`). Both patch code that the game's threads may be
running, with MinHook (`minhook/`).

| Component | State | Operations | Talks to | Hard behaviour |
|---|---|---|---|---|
| UPnP port mapping, `src/upnp_ports.cpp` | helper `g_nat`, table `g_maps`, lock `g_lock`, slots `g_wantQuery`, `g_wantGame`, `g_wantRelease`, `g_querySock`, two auto-reset events, three flags | hooks on `sendto`, `closesocket`, `WSACleanup`; worker thread; `UPnPPorts_Install`; `UPnPPorts_Shutdown` | the NAT helper (COM), Winsock, MinHook, `DllMain` | four kinds of threads, most flags unlocked, calls of 20 s inside the lock, coalescing events, timeouts, the loader lock, orphaned locks at process exit |
| COM shim, `src/dpnet.cpp` | `g_realDpnet`, `g_initDone`, its own `g_lock` | `DllMain`, `DllGetClassObject`, `DllCanUnloadNow`, `EnsureInit` | COM, the real DLL, both installers | one-shot initialisation; attach and detach under the loader lock |
| Self-join hook, `src/selfjoin_hook.cpp` | addresses found by signature; locals of one call | `hook_C430`, `FindServerInterface`, `TryServerAddressJoin`, `JoinHostAddress`; `SelfJoinHook_Install`, `scan_module` | `logs.dll`, DirectPlay (`IDirectPlay8Server`), MinHook | reference counts over partial failure; two queries of a list that changes; result codes with two meanings |
| Logging, `src/log.cpp` | file handle, lock, two flags | `shim_log` | everyone | lazy initialisation |
| MinHook: hooks, `minhook/src/hook.c` | hook table, spin lock, frozen threads | `MH_Initialize` ... `MH_ApplyQueued` | kernel (threads, page protection), `buffer.c`, `trampoline.c` | suspends all threads, rewrites code and moves instruction pointers; failure half-way |
| MinHook: memory, `minhook/src/buffer.c` | blocks of slots, free lists | `AllocateBuffer`, `FreeBuffer` | `hook.c` | list and count kept consistent |
| MinHook: trampoline, `minhook/src/trampoline.c`, `hde/` | none | `CreateTrampolineFunction`, the disassembler | `hook.c` | x86 decoding |
| Installer, `install.bat`, `uninstall.bat` | the registry | copy, register | Windows | none: straight-line |

How they interact: COM loads the DLL (`DllMain` attach) and asks for a class;
`EnsureInit` then installs both hooks once, in the thread that asked. From there
on the game calls in: its network thread through the three Winsock hooks, its menu
thread through `NET_internal_C430`. The hooks leave requests in global slots and
signal the worker; the worker owns the COM apartment and does all registrations.
At the end `DllMain` detaches, at process exit with every other thread dead, at an
unload with the worker still running.

What makes each part correct:

- UPnP: the leases the router holds are those in the book, whichever thread sweeps
  and whichever calls fail; no port is leased twice; the table is not overrun; no
  hooked call of the game hangs; the process can exit; what is asked for or handed
  over is done in the end; an unload releases.
- Self-join: every address object is released as often as it was obtained; the host
  joins by one way, and never by none; the call returns.
- MinHook: a thread of the program never runs into a half-patched place; the table
  tells what is patched; suspended threads are resumed if they can be opened; callers
  exclude each other.
- COM shim: initialisation runs once, and is over before any class is asked for; what
  the detours need is there before they are entered.
- MinHook's memory and trampolines: no two hooks share a slot; the copy of a function's
  start does what the original did and fits its slot; only own bytes are patched.
- The parser of datagrams finds the field it looks for and no other, and a port in it.

## 2. Modules

| Module | What it is |
|---|---|
| `PortLeases` | abstract specification: a book of leases, taken one per (port, protocol), given back only in a sweep that empties it |
| `UPnPPorts` | `upnp_ports.cpp` and the detach half of `DllMain`: actions of game threads, worker, installer, detaching thread |
| `UPnPProperties` | its invariants, action and liveness properties, the fairness, the refinement of `PortLeases`, the inductive invariant |
| `UPnPProofs` | theorems and proofs about the two |
| `MCUPnP` | symmetry sets for TLC |
| `SelfJoin` | `hook_C430` with the code it calls, and the changing surroundings; its properties |
| `SelfJoinProofs` | theorems and proofs |
| `MinHook` | `hook.c`: the calls of the library and the threads that run in the patched code; its properties and inductive invariant |
| `MinHookProofs` | theorems and proofs |
| `MCMinHook` | the sets of calls that the runs make |
| `HookTable` | abstract specification: hooks made once, each with a slot of its own that stays, removed when disabled |
| `HookBuffer` | `buffer.c`: operators on the list of blocks and their free lists |
| `MinHookMemory` | composes `MinHook` and `HookBuffer`: where the trampoline of each hook is; implements `HookTable` |
| `MinHookMemoryProofs` | theorems and proofs, on top of those of `MinHookProofs` |
| `MCMinHookMemory` | symmetry for TLC |
| `Trampoline` | `CreateTrampolineFunction`: one step for each instruction of an unknown function; its properties |
| `TrampolineProofs` | theorems and proofs |
| `Datagram` | `gs_field` and the tests of `hook_sendto`, over texts that grow; a reference reading of their fields |
| `DatagramProofs` | theorems and proofs |
| `MCAlgorithms` | `Trampoline` and `Datagram` in one run: first a function is copied, or else a text grows |
| `ShimInit` | attach, `DllGetClassObject`, `EnsureInit`, `LoadRealDpnet`, the log's initialisation, `SelfJoinHook_Install`; its properties and inductive invariant |
| `ShimInitProofs` | theorems and proofs |

A definition whose comment begins with WRONG is a mistake one could make in the
definition after it. No action uses it; it is there to show that a property would
notice the mistake (`PROJECT.json`, "mutants").

### 2.1 UPnPPorts and the code

Variables have the names of the globals. `g_maps` is `g_maps[0 .. g_mapCount-1]`,
`g_nat` is whether the pointer is set, `g_want` holds the two request slots
(index FALSE: `g_wantQuery`, UDP; TRUE: `g_wantGame`, TCP), events are "null",
"unset" or "set". `leases` is the router's side: what the helper holds open for us;
`refused` is the part of it that `DeregisterPorts` would not take back. `tpc`,
`wpc`, `ipc`, `dpc` are the places of the four kinds of threads.

| Code | Actions |
|---|---|
| `hook_sendto`, `want_port` | `SendHeartbeat`, `SendStatus`, `WantPort`, `SetWakeup` |
| `hook_closesocket`, `hook_WSACleanup` | `CloseSocket`, `ForgetQuerySock`, `WSACleanup`, `CallOriginal`; `PlainClose` before the hook is there |
| `release_now` | `CheckMaps`, `TryLock`, `ThreadSweep`, `ThreadSwept`, `HandOff`, `SetWakeup`, `AwaitReleased` |
| `nat_release_all` | `Deregister` (one mapping), `SweepDone`, used by three kinds of threads |
| `worker` | `WaitWakeup`, `TakeRequests`, `WorkerLocks`, `WorkerSweep`, `WorkerSwept`, `NotifyReleased`, `GiveUp`, `WorkerUnlocks` |
| `nat_open`, `nat_wait_gateway` | `OpenNat`, `WaitGateway` |
| `nat_register` | `RegisterPort`, `DropJob`, `RegisterThroughNull`, `StoreMapping` |
| `UPnPPorts_Install` | `InstallBegin`, `InstallHook`, `InstallFails`, `InstallFinish` |
| `DllMain` detach, `UPnPPorts_Shutdown` | `ExitProcess`, `UnloadDll`, `SignalStop`, `DetachLocks`, `DetachSweep`, `DetachSwept`, `DetachReturns` |

What one action may do at once. An action is what a thread does between two
accesses that others can tell apart. Merged are:

- the exchange of `g_wantRelease` and the two of `g_wantQuery` and `g_wantGame`:
  what comes between two of them could as well have come after them;
- `g_mapCount = 0` and leaving `g_lock`, `g_disabled = true` and leaving it: a
  reader in between sees what it would see just before or just after;
- the two tries of `nat_register`, with the fixed external port and with any;
- rounds of gateway polling that find nothing (they stutter);
- the creation of the events and of the worker in `UPnPPorts_Install`.

Kept apart, because somebody can come between: the read of `g_querySock` and its
clearing; the unlocked read of `g_mapCount` and `TryEnterCriticalSection`; storing a
request and signalling it; the worker's test of `g_stop` and its
`EnterCriticalSection`; each `DeregisterPorts`; the grant of a lease and its entry
in `g_maps`; each of the three hooks.

The loader lock is not a variable: it is held while `dpc` is not "idle", and `OpenNat`
(`LoadLibraryA`) needs it. The installer runs inside a COM call, which keeps the DLL
loaded, so `UnloadDll` waits for it. `DllCanUnloadNow` says S_FALSE, but the
unload is still reachable: `CoUninitialize` and an explicit `FreeLibrary` do not ask.
After an unload the game's use of the freed code is outside the model.

Sockets are names. A datagram is the port that the parser found in it; which text
gives which port is in `Datagram`.

### 2.2 SelfJoin and the code

One game thread is in the hook. `conns` is the list that `FindServerInterface` walks,
`locals` what the server would report now, `refs` the references to each address
object that are not released, `hosts` the discovered-host entries that
`NET_internal_2E10` makes, each of which keeps a reference. `cnt`, `arr`, `i`,
`result` are the locals of `TryServerAddressJoin`. The address list may change
at any step, so the second query may give fewer addresses, or fail. A NULL in the
array is an `InjectFails`: the code skips it in the same way. A server connection is
closed by the thread that is in the hook, so only between calls; connections are
pushed at any time. `orig_C430` is external: it runs, and may join. Three history
variables say what the present or last call did: `joined`, the address `NET_iJoinGame`
succeeded with; `stock`, whether `orig_C430` ran; `called`, whether there was a call at all.

### 2.3 MinHook and the code

A hooked function is a prologue of `N` instructions and the rest. A runner's
instruction pointer is a boundary of the prologue, of its copy in the trampoline, the
long jump above a hot-patched function, the detour, or elsewhere. An action is one
instruction of a runner or one step of a caller of the library, so a thread is
suspended at every point.

| Code | Actions |
|---|---|
| `EnterSpinLock`, `LeaveSpinLock` | the same |
| `MH_Initialize`, `MH_CreateHook`, `MH_QueueEnableHook`, `MH_QueueDisableHook` | `Initialize`, `CreateHook`, `QueueHook` |
| `EnableHook`, `EnableAllHooksLL`, `MH_ApplyQueued`: which entries | `Subject`, `Wanted`, `Announced`, `Pending`, `NothingToWrite` |
| `EnumerateThreads`, `Freeze`, `ProcessThreadIPs`, `FindOldIP`, `FindNewIP` | `EnumerateThreads`, `FreezeThread`, `AllFrozen` |
| `EnableHookLL` | `EnableHookLL`, `ProtectFails`, `AllWritten` |
| `Unfreeze` | `ThawThread`, `AllThawed` |
| `MH_RemoveHook`, `MH_Uninitialize` | `RemoveHook`, `Uninitialize`, `FreesNothing` |

Capacities of arrays and page protection are abstracted; where slots are in memory is
in `MinHookMemory`.

`suspends` is the suspend count that Windows keeps of each thread, from 0 to `MaxSuspends`
(127; `SuspendThread` fails beyond it, which the code does not look at); `frozen` are the
threads whose count is not 0. `OpenThread` may fail in `Freeze`, in `Unfreeze`, or in both. One
that only `Unfreeze` cannot open stays suspended when the call is over; one that only
`Freeze` could not open is resumed all the same, which takes a suspension from it that an
earlier call left. A caller left suspended makes no calls any more.

There are two history variables. `lost` are the suspended threads that `Unfreeze` could not
open. `missed` are the runners that were not in the list when code was written, that
`Freeze` could not open or read the context of, or that were in the detour or the trampoline
of a hook when `MH_RemoveHook` or `MH_Uninitialize` freed it. The library can do nothing for
the latter (it does not know the detours, and frees after the threads are resumed), and
`RunsWhole` leaves them out. The shim itself only initialises, creates and enables.

### 2.4 The memory of the trampolines

`HookBuffer` has the list that `g_pMemoryBlocks` heads as a sequence, and the list
through `pFree` as a sequence of slot numbers, in the code's order: slots are pushed
from the first to the last, so the last is given out first; a slot given back goes to
the front; a new block goes to the front. `MinHookMemory` conjoins these operators with
the actions of `MinHook`: `CreateHookIn` allocates before the steps that may fail and
frees after them, as `MH_CreateHook` does, so a failing call may leave the list with a
free list in another order, or without the block it made. `pTrampoline` is the
field of the hook entries. The search for memory near the target is x64 only.

### 2.5 The trampoline builder

An instruction is what it does (`plain`, `call`, `jmp`, `jcc`, `loop`, `ret`), its length
and its destination: one of the first five bytes, or `Far`. The function is not given
beforehand; each step decodes any instruction that could come next, so a behaviour is
the copy of one function and all of them are looked at. `oldPos`, `newPos`, `jmpDest`,
`oldIPs`, `newIPs` are those of the code; `insts` and `copies` are the instructions at
`oldIPs` and what was written at `newIPs`, a relative jump being written as the address
it leads to. Each branch of the chain of ifs is an action that chooses the copy, and
`Write` is the rest of the round. `PlaceJump` is what follows the loop. Not in it: a
relative jump or call with an operand-size prefix, a call into the five bytes
themselves, code elsewhere in the function that jumps into them, and instructions
that overlap.

### 2.6 Datagrams

A text is a sequence of tokens (backslash, digit, word), which is all that the search
can tell apart: the pattern is a backslash, a word and a backslash. Values are numbers,
the names of the fields themselves, or a number with something behind it. The reference
reading works on the pairs the text was made from, not on the text: the variable `text` is
`buf`, which is all that the code reads, and `pairs` is kept beside it while both grow.
`Parsed`, the loop of `gs_field`, and `Size` are recursive functions over the digits and
the tokens. Arithmetic is that of
a signed integer that wraps. `_strnicmp` ignores case, which the words abstract from.

### 2.7 ShimInit and the code

`pc` is the place of each game thread and `back` where it goes on after `LoadRealDpnet` or
`shim_log`, which are called from several places. `LoadRealDpnet` is three steps (the test,
the load and the assignment, the second read of the global), because it runs without
`g_lock` in `DllGetClassObject`. `ensure_init` of the log is a test and a step that
initialises, with no lock. `UPnPPorts_Install` is one step that always ends: `UPnPPorts`
has its details. A signature is found or not; `MH_CreateHook` sets `orig_C430`, and with
`MH_EnableHook` calls enter the detour. `logsInTime`, `broken` and `unlucky` are
history variables.

## 3. What the runs check

Deadlock is not an
error in them, except in `shim_init`: the process exits, the game stops calling, a caller of the
library has no more to do.

### UPnP

| Run | Checks | Instance |
|---|---|---|
| `upnp_teardown` | `LockDiscipline`, `IInv`, `LeasesAccounted`, `NoDuplicateMapping`, `DisabledMeansUnmapped`, `DiscoveryUnmapped`, `UnloadReleases`, `TeardownSilent`, `ImplementsPortLeases` | 1 thread, a table of 2, every call may fail, exit and unload at any point |
| `upnp_liveness` | `TypeOK`, `NoNullHelper`, `HookReturns`, `ExitCompletes`; with a fair worker `HandOffServed`, `WantServed` | 1 thread, a table of 1 that two ports are asked for, exit at any point |
| `upnp_closed` | refutes `ReleasedAfterClose` | one port, one socket |
| `upnp_unload_null` | refutes `NoNullHelper` | with unload |
| `upnp_unload_hang` | refutes `UnloadCompletes` | with unload |

Bounds. A game thread, the worker, the installer and the detaching thread contend for
`g_lock` and the events. With a second game thread the full instance is out of
TLC's reach; what two of them could do to each other is that they sweep or take an event
one after the other, and the theorems of section 4 are for any number of them.
One port gives two (port, protocol) pairs, which are the requests the server makes. In
`upnp_teardown` a table of two places has a sweep of several steps, which can be
interrupted or fail in the middle; in `upnp_liveness` the second request meets a table
of one that is full, which is the edge at which `nat_register` must stop writing. The
code's four places tell nothing more apart. `Handles` bounds the leases the router can
hold at one time, never the number of registrations over a run. The proofs need none of
these bounds.

Fairness. `LonelySpec` is fair to a game thread inside a hook and to the
detaching thread: Windows schedules a ready thread, a wait with a timeout ends, and
`TryEnterCriticalSection` does not wait. The worker is not fair in it, as it
may be asking the router; `HandOffServed` and `WantServed`, which speak of what the worker
does, have its fairness as a hypothesis. `FairSpec`, of the refuting runs, includes it:
the worker's steps are calls into the NAT helper that return. Taking `g_lock` is weakly
fair only: no property relies on the worker winning it against threads that keep taking it. Nothing
forces the game to call, to open or close sockets, or to exit; and nothing makes the
installer go on.

What `HandOffServed` says is less than the comment at `release_now` suggests: the
release happens in the end, not necessarily within the wait of 3 s. `g_released` may be
left set by an earlier hand-over whose waiter had timed out, and the next waiter then
goes on at once; the model does this, and nothing depends on it.

### Self-join

| Run | Checks | Instance |
|---|---|---|
| `selfjoin` | `TypeOK`, `RefsBalanced`, `OneWayIn`, `IInv`, `CallReturns` | 2 addresses, up to 3 reported (so with repeats), up to 3 connections, guard 2 |

Calls repeat without bound, so entries and found-host handles of earlier calls are
there. The guard (256 in the code) is below the number of connections, so that a
server beyond it is not found. Fairness is that of the calling thread (`WF(HookStep)`):
the calls it makes return.

### MinHook

| Run | Checks | Instance |
|---|---|---|
| `minhook_patch` | `IInv`, `RunsWhole`, `ThreadsThaw` | enabling alone, together and queued, disabling together and queued, the plain one also alone, removing one and all; 1 runner, a plain and a hot-patched function of 3 instructions; allocation, the thread list, opening a thread to suspend and to resume it, the context and the `VirtualProtect` of `MH_EnableHook` may fail |
| `minhook_book` | `TypeOK`, `BookMatchesCode`, `FrozenByOwner`, `MemoryConsistent`, `ImplementsHookTable` | 2 callers, calls of every kind, 3 functions, blocks of 2 slots; the thread suspended is the other caller; allocation, opening a thread to suspend and to resume it and every `VirtualProtect` may fail |
| `minhook_disable` | refutes `MovedOutOfPatch` | one hot-patched hook disabled alone |
| `trampoline_back` | refutes `Faithful` | as in `algorithms` below |

Runners do not interact: they read the code and are suspended one by one, so one
shows what many would. A thread can be suspended twice (127 times in Windows): once by a call
that could not open it again, and once more by a later call, or, at the bound, no more. So
`ThreadsThaw` says of each suspended thread that it is resumed or that `Unfreeze` could not open
it, and `FrozenByOwner` that outside a call nobody else is left suspended, and never the
owner of the spin lock.

Three instructions give an inner boundary besides the first and
the last. `minhook_patch` leaves out two cases: a hot-patched function disabled alone, which
is `minhook_disable`, and a `VirtualProtect` that fails when a jump is to be removed. There,
threads are moved out of the trampoline before it is known that the jump can go, and if it
cannot they resume inside it; the code has no answer to that. Blocks of two slots (127 in
the code) with three functions give a full block, a second one, and the release of a
block at the head of the list and behind it. Fairness is that of each caller in the library
(`WF(LibraryStep)`), unless it is suspended; a caller may starve at the spin lock,
and no property says otherwise.

### Algorithms

| Run | Checks | Instance |
|---|---|---|
| `algorithms` | `FaithfulForwards`, `PatchesOwnBytes`, `SlotSuffices` | every sequence of instructions, of lengths 1, 2, 3 and 15 unless they jump |
| | `FindsField`, `AsksForRightPort` | texts of up to two pairs, numbers of up to five binary digits, ports up to 5, an int of four bits, lengths from 12 to 26 |

The lengths give every position of a boundary in the first five bytes and the longest
instruction across the fifth. Two pairs have a field before and after another one, twice,
and with the other's name as its value; five digits overflow the int. Both stop when there
is no more to copy or to write, so deadlock is no error.

A datagram with a field's name as a value is read wrongly: the first match is taken, and
if no number follows, the search ends with no port. `FindsField` excludes such
texts (`Plain`), since no comment promises more; a server's name cannot contain a
backslash, but can be "hostport".

### The shim

| Run | Checks | Instance |
|---|---|---|
| `shim_init` | `IInv` (which has `TypeOK`), `ClassAfterInit`, `InstalledOnce`, `LogOnce`, `RefusedForCause`, `DetourReady`, `RequestAnswered` | 2 threads, `logs.dll` loaded at any time, every step may fail |

Two threads are one that installs and one that comes upon it, in a request or through
the hook that has just been enabled; when the first load failed both load again. Deadlock is an error here:
a thread can always ask again. Fairness is that of each thread in the shim (`WF(Step)`);
`g_lock` is held once only, so nobody starves at it. `RefusedForCause` is as weak as the
code: a load that fails in one thread may overwrite the handle that another has just got,
and refuse its class too.

### What the refuting runs show

1. `upnp_closed`: `closesocket` reads `g_mapCount = 0` while the worker is still
   discovering, releases nothing, and the worker registers afterwards. Nothing releases
   the port until `WSACleanup` or the close of a later query socket. CHANGES.md:20
   and README.md:53-54 promise the release.
2. `upnp_unload_null`: the unload sets `g_nat` to NULL between the worker's test of
   `g_stop` and its `EnterCriticalSection`; the worker's `ready` is stale.
3. `upnp_unload_hang`: the unload waits for `g_lock` with the loader lock held; the
   worker holds `g_lock` and waits for the loader lock in `LoadLibraryA`.
4. `minhook_disable`: `EnableHook` announces ACTION_ENABLE also when it disables, so no
   thread is moved. For a plain hook this is harmless (the trampoline stays and leads
   back); for a hot-patched one a thread at the long jump finds it gone.
5. `trampoline_back`: a jump back within the first five bytes is copied with its
   old distance, although a short jump between it and its destination became longer; line
   260 of `trampoline.c` asks only whether the instruction lies under a jump ahead. The
   run has a push, a short conditional jump out of the function and a short jump back to
   the push. `FaithfulForwards` shows that among the functions of section 2.5 this is the
   only way to go wrong.

The last two are in the library; the shim only enables hooks, and for that
`minhook_patch` shows that every thread is moved properly. The functions it hooks begin
with no jump back.

## 4. What is proved

TLAPS proves, for every value of the constants:

| Theorem | States |
|---|---|
| `UPnPProofs!Invariance` | `Spec => []IInv` |
| `TypeCorrect`, `LocksKept`, `LeasesNeverLost`, `NeverMappedTwice`, `DisabledUnmapped`, `DiscoveryHoldsNothing`, `UnloadLeavesNothing` | the safety invariants of section 3 |
| `NoNullWithoutUnload` | `NoNullHelper`, if the DLL is not unloaded |
| `TeardownIsSilent` | the action property of process exit |
| `OnlyGrantMissed` | what a release may miss: at most the one lease that is granted and not yet entered |
| `LockIsLeft` | nobody outside a section of `g_lock` has it |
| `Implementation` | `UPnPPorts` implements `PortLeases` |
| `TrampolineProofs!SlotIsEnough` | `SlotSuffices`: "Trampoline function is too large" never happens, whatever the function |
| `TrampolineProofs!OnlyOwnBytes` | `PatchesOwnBytes` |
| `TrampolineProofs!CopyIsFaithful` | `FaithfulForwards`: the trampoline does what the function did, unless a jump leads back over an instruction that grew |
| `MinHookProofs!BookInvariance` | `Spec => []BookInv`, the part of `IInv` about entries, lock and suspended threads |
| `MinHookProofs!TypeCorrect`, `TableTellsMemory`, `OwnerSuspends` | `TypeOK`, `BookMatchesCode`, `FrozenByOwner` |
| `MinHookProofs!RunInvariance`, `RunsAreWhole` | `IInv` and `RunsWhole`, under the two hypotheses below |
| `MinHookProofs!EnablersRunWhole` | `RunsWhole` of every behaviour, if only `MH_EnableHook` may break off |
| `MinHookProofs!ThreadsMovedOut` | every thread that could be moved is at an instruction when it goes on; under the two hypotheses |
| `MinHookMemoryProofs!SlotsConsistent` | `MemoryConsistent` |
| `MinHookMemoryProofs!HookTableImplemented` | `MinHook` over `HookBuffer` implements `HookTable` |
| `ShimInitProofs!Invariance`, `TypeCorrect`, `NoClassBeforeInit`, `InstallsOnce`, `LogInitialisedOnce`, `RefusalHasCause` | `IInv`, `TypeOK`, `ClassAfterInit`, `InstalledOnce`, `LogOnce`, `RefusedForCause` of `ShimInit` |
| `ShimInitProofs!DetourIsReady` | the action property `DetourReady` |
| `SelfJoinProofs!Invariance`, `TypeCorrect`, `NoReferenceLost`, `JoinsOneWay` | `IInv`, `TypeOK`, `RefsBalanced`, `OneWayIn` of `SelfJoin` |
| `DatagramProofs!TextLaid` | where the pairs of a text lie, and that no other backslash is in it |
| `DatagramProofs!FieldFound`, `RightPortAsked` | `FindsField` and `AsksForRightPort` |

Assumptions. UPnP: the table has at least one place; the null values are no ports,
sockets or threads; the three other owners of `g_lock` differ and are no game threads.
Threads, sockets, ports and handles may be infinite sets. Self-join: the bounds are
naturals and `Addrs` is finite, so that occurrences in an array can be counted. MinHook:
`Targets` is finite (without it nothing bounds the table), callers are no runners, `NoOne` is
neither, a thread can be suspended at least once, and the three calls without a function have none; callers, runners, instructions and blocks are
any number. The shim: `NoOne` is no thread, any number of which there may be. The trampoline:
no instruction is longer than fifteen bytes, and `Far` is not in the first five. Datagrams:
numbers have a base of at least two, a port is at least 1 and fits an int, and lengths are
naturals; texts have any number of pairs and numbers any number of digits.

`RunsAreWhole` has two hypotheses about which calls are made and which fail. `NeverAlone`:
no hot-patched function is disabled alone; otherwise the theorem is false, as
`minhook_disable` shows. `FailsOnlyEnabling`: no step is a `VirtualProtect` that fails while
a jump is left to be removed; otherwise threads that were moved
out of the trampoline stay in the function under the jump that could not be removed, and
the theorem is false too. The second is about the steps of a behaviour, not about the calls:
any call that writes may fail, also `MH_ApplyQueued` half-way, as long as what is left to
do is enabling. It follows if only `MH_EnableHook` meets such a failure
(`OnlyEnableFails`, lemma `EnablingOnly`), which is so for the shim and in
`minhook_patch`; `EnablersRunWhole` is the theorem for these. The other theorems about
MinHook do not need the two.

What holds in the place of the refuted properties:

- `upnp_closed`: `OnlyGrantMissed`. When `release_now` finds the table empty, what the router
  holds beyond what it would not take back is at most the lease just granted to the worker; and
  a sweep, in the game's thread or the worker's, leaves nothing but the refused. What stays
  forwarded after a close was this one lease, or was asked for from the router later.
- `upnp_unload_null`: `NoNullWithoutUnload`.
- `upnp_unload_hang`: `LockIsLeft`. Every way out of a section leaves `g_lock`, so the unload
  waits for a thread that is inside one (or for a worker that has crashed there, through the
  NULL helper); of these only the worker ever waits, in `OpenNat`.
- `minhook_disable`: `ThreadsMovedOut`.
- `trampoline_back`: `CopyIsFaithful`, that is `FaithfulForwards`.

The argument for UPnP. The mappings cannot be reasoned about alone: that a lease is in the
book exactly once rests on one thread at a time being between a grant and its entry,
or in a sweep, which is `LockDiscipline`; and that in turn on the places. So
`IInv` is the conjunction of

- `TypeOK` and `LockDiscipline`;
- `BookInv`: the cursor of the sweep, which mappings are still kept, what the lease just granted
  may be, and that a refused lease is neither;
- `PhaseInv`: what the worker's place says of the helper, of `ready`, of `g_disabled` and
  of the installer. It gives `DisabledMeansUnmapped` and `DiscoveryUnmapped`: discovery happens only
  while `ready` is false, and before `ready` nothing is ever mapped;
- `EndingInv`: how far the end of the DLL has come. It gives `UnloadReleases`.

Each part has its own step lemma (`BookTypesStep`, `SharedTypesStep`, `ActorTypesStep`,
`LockStep`, `PhaseStep`, `EndingStep`, `BookStep`), with one case per action that can disturb
it. The refinement maps a worker's grant to `Take`, a `Deregister` (also a
refused one, which takes the lease out of the book) to `GiveBack`, taking the lock for a
sweep to `BeginSweep` and its last step to `EndSweep`.

The argument for the self-join. `RefsBalanced` needs that the array is empty outside the
loop and that `cnt` is its length inside; `OneWayIn` needs that the entry about to
be joined is the one found, that no join goes before, and that `result` tells whether there
was a join, for `hook_C430` looks only at that. `PlaceInv` says this.

The argument for the trampoline. Of the first five bytes, an instruction of length n
is copied in at most 3n bytes (a short conditional jump of two in six), so `newPos` is at
most `3 * oldPos`, that is 12, when the last one begins; that one adds at most 15 and the
jump behind it 5, which makes 32, the size of a slot to the byte. There are at most four
instructions before it. With the chain of boundaries (`Chained`) this is the inductive
invariant. It needs only that no instruction is longer than fifteen bytes.

That the copy is faithful needs a second invariant, `CopyInv`, which was checked with TLC
before it was proved. A copied internal jump keeps its distance, so its destination is right if
nothing grew between the two. `Aligned` says that wherever instructions kept their
lengths the copies are as far apart as the originals. Under a jump ahead this is what
the test of line 260 ensures (`AheadKept`), since `jmpDest` is beyond every such
destination; under a jump back it is the hypothesis of `FaithfulForwards`. That there is an
instruction at the destination at all follows from `Covered` (each byte before `oldPos`
belongs to one) and `WellFormed`, and that it has been copied from `MayEnd`: the loop ends
behind every destination.

The argument for MinHook. `BookInv` is about the callers alone: `LockInv` says that
whoever is inside a call that writes has the spin lock and is not suspended, and that who is
suspended and not lost is so once, is in its list, and while it resumes is still to be
resumed: so two callers cannot suspend each other, and when a call is over only lost threads are
left suspended; `BookMatchesCode` that the entries tell
which functions are patched; `DoneInv` that a call that succeeds has nothing left to write, which is why
`MH_RemoveHook` may free the trampoline. `RunInv` says of each runner (`Sound`) that it is
at an instruction. Once `Freeze` has been through it (`Handled`) this must be judged by the
code to come, not by the present one, since it is moved before a byte is written; a thread
that is suspended from an earlier call is judged by the present code until then: `FinalCode` is that code,
and the writes of `EnableHookLL` approach it one entry at a time without changing it. When
the last entry is written it is the present code, and the runner may go on, or stay if it is lost. A failing
`VirtualProtect` breaks this off half-way; for a call that enables it is harmless, since
moved threads are in a trampoline that stays. A call chooses the least entry left to write,
which exists because the naturals are well-founded (`HasLeast`).

The argument for the trampolines' memory. `MemoryConsistent` is not inductive: it says
which slots are free, but not that each is so once, nor that no two hooks share one. `MemoryInv`
adds this (`BlockRight`, `SlotsRight`, `ListRight`) and that the hooks with a slot are
those of the table, from `BookInv`. The lemmas speak of one operator of `HookBuffer` each
(`AllocateRight`, `FreeRight`), and `CreateKeeps` combines them, since a failing
`MH_CreateHook` does both. In the refinement a created hook is `Create` with the slot
it got, which nobody has; a step of `EnableHookLL` is `Enable` or `Disable`; and
`RemoveHook` is `Remove`, which is allowed since `DoneInv` says the hook is disabled.

The argument for the shim. `IInv` says for each place what it implies: `Where` is the place of a
thread or the one it returns to from `LoadRealDpnet` or `shim_log`. `InstallInv`: who is
in the installation is who has `g_lock`, so it is one; and who is past `EnsureInit` found
the lock free after the flag was set, so the installation is over, although the flag is set
before it. `LogInv`: until `DllMain` has written its line nobody else is in the DLL, and it
initialises the log; this is what stands in for a lock in `ensure_init`. `DetourInv`: whoever is in
the detour came through the patch, which is the last step of the self-join's installation.
`CauseInv`: between its load and its refusal a request has a handle or a load has failed.

The argument for the datagrams. A text is only ever looked at through its tokens, so the
invariant `Laid` says where each pair starts (`at`) and that every backslash of the text is one of
the two of a pair. A match of the pattern then is a field with that name, unless it is a value
that has the name, which `Plain` excludes (`MatchesAreFields`); the first match is the
first such field (`FirstMatch`), and the digits behind it end where its value ends, since a
backslash or the end of the text follows (`DigitsBehind`). The loop wraps at each digit, but a
number never becomes smaller with a digit more (`DigitAdds`), so if the number fits an int all
its beginnings do and no step wraps (`ParsedExact`). These are inductions over the number of digits
with the property written out as a set of numbers (`SetInduction`, from the well-foundedness of
the naturals), as the library's induction takes an operator; and for the same reason that the
functions of the loops exist at all is proved here. If the number does not fit, the result is
still an int, which is tested to be a port.

Only model-checked: the liveness properties (`HookReturns`, `ExitCompletes`, `HandOffServed`,
`WantServed`, `CallReturns`, `ThreadsThaw`, `RequestAnswered`), as fairness and ENABLED are out of
the prover's reach. The properties that a run refutes have no theorem, but those above in their
place.

## 5. Not modelled

- `scan_module`: a search for bytes that keeps no state; a signature is found or not.
- The disassembler: decoding by tables of opcodes, with no state. A model would be
  the tables over again; `Trampoline` takes any instruction for its result.
- `IsExecutableAddress` and x64's search for memory near a function.
- A heartbeat on a second socket between the comparison and the clearing of `g_querySock`:
  `UPnPPorts` has it, but no run has two sockets.
- `MH_CreateHookApi(Ex)`: a lookup by name before `MH_CreateHook`.
- Formatting and writing of the log, the batch files, the headers.
- `hde64.c` and everything of x64: the shim is built for x86 only.

## 6. Plan

Done, in this order: the UPnP component (the shim's only concurrent part and where a fault
hurts the most), its abstract specification and proofs; the self-join hook and its
proofs; the hooking library, its memory with an abstract specification, and the
trampoline builder; the parser of datagrams; the initialisation of the shim; the proofs for
these: the trampoline builder, the shim, the library and its memory, the parser; and what is true
in the place of the refuted properties.

To do, if the code changes:

1. Once `release_now` withdraws what is asked for but not registered, `ReleasedAfterClose` takes
   the place of `OnlyGrantMissed`.
2. Once `EnableHook` announces what it does, `NeverAlone` can go.
