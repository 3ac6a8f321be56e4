------------------------------- MODULE MinHook -------------------------------
(***************************************************************************)
(* minhook/src/hook.c, x86: hooks are made, switched and removed while the *)
(* threads of the process run in the very code that is patched.            *)
(*                                                                         *)
(* A hooked function is a prologue of N instructions, copied into the      *)
(* trampoline, and its rest: oldIPs and newIPs hold the boundaries 0 .. N  *)
(* of both.  The jump written over the prologue covers the boundaries in   *)
(* Torn.  A hot-patched function (patchAbove) is too short for the jump:   *)
(* it gets a short one, to a long one written in the padding above it.     *)
(* Capacities of the arrays and page protections are abstracted; where in  *)
(* memory a trampoline is, and what it is made of, are other modules'.     *)
(***************************************************************************)
EXTENDS Integers, Sequences, FiniteSets

CONSTANTS
  Callers,       \* threads that call MH_...
  Runners,       \* threads that call the hooked functions
  Targets,       \* functions to hook
  HotPatched,    \* those of them that need the area above
  N,             \* instructions of a prologue
  Calls,         \* the calls that are made: [name, target]
  All,           \* MH_ALL_HOOKS
  Fails,         \* what may fail, see FailAssumption
  MaxSuspends,   \* a thread is suspended at most so often: 127
  NoOne

ASSUME BoundsAssumption ==
  /\ N \in Nat \ {0} /\ HotPatched \subseteq Targets /\ All \notin Targets
  /\ IsFiniteSet(Targets)
  /\ Callers \cap Runners = {} /\ NoOne \notin Callers \union Runners
  /\ MaxSuspends \in Nat \ {0}

Writers == {"EnableHook", "DisableHook", "ApplyQueued", "RemoveHook", "Uninitialize"}
Names   == Writers \union {"Initialize", "CreateHook", "QueueEnableHook", "QueueDisableHook"}
NoCall  == [name |-> "none", target |-> All]

\* Three of the calls have no function for an argument.
ASSUME CallsAssumption ==
  /\ Calls \subseteq [name : Names, target : Targets \union {All}]
  /\ \A call \in Calls : call.name \in {"Initialize", "ApplyQueued", "Uninitialize"} => call.target = All

\* Memory, the list of threads, OpenThread to suspend and to resume a thread,
\* its context, VirtualProtect in a call of that name.
ASSUME FailAssumption ==
  Fails \subseteq {"alloc", "list", "suspend", "resume", "context"} \union Writers

VARIABLES
  g_hHeap,       \* it is not NULL
  g_hooks,       \* the hook entries
  g_isLocked,    \* the caller that holds the spin lock, or NoOne
  slots,         \* targets whose trampoline is allocated
  code,          \* targets that start with the jump
  mpc, op,       \* callers: place, the call they make
  pItems, left,  \* the owner's FROZEN_THREADS, and those still to do
  ok,            \* the owner's status is MH_OK
  suspends,      \* how often each thread is suspended
  lost,          \* history: suspended threads that Unfreeze could not open
  ip,            \* runners: instruction pointer
  missed         \* history: threads not listed while code was written, or
                 \* that Freeze could not open or read the context of, or that
                 \* were still bound for a trampoline when it was freed

bookVars == <<g_hHeap, g_hooks, slots>>
lockVars == <<g_isLocked, pItems, left, ok>>
heldVars == <<suspends, lost>>
runVars  == <<heldVars, ip, missed>>
vars == <<bookVars, code, mpc, op, lockVars, runVars>>

Entry == [target : Targets, isEnabled : BOOLEAN, queueEnable : BOOLEAN]

\* An instruction pointer: boundary k of f or of its trampoline, the long jump
\* above f, the detour of f, or none of these.
At(where, f, k) == [at |-> where, f |-> f, k |-> k]
Out    == At("out", All, 0)
Unborn == At("unborn", All, 0)

frozen == { t \in Runners \union Callers : suspends[t] > 0 }

Torn(f) == IF f \in HotPatched THEN {1} ELSE 1 .. N - 1

-----------------------------------------------------------------------------
(* The threads that run through the hooked functions. *)

Runs(t, where, f, k) == t \notin frozen /\ ip[t] = At(where, f, k)
Jumps(t, to)         == ip' = [ip EXCEPT ![t] = to]

Spawn(t) == ip[t] = Unborn /\ Jumps(t, Out)

CallTarget(t, f) == t \notin frozen /\ ip[t] = Out /\ Jumps(t, At("target", f, 0))

\* The first instruction is the function's own, or the jump.
RunEntry(t, f) ==
  /\ Runs(t, "target", f, 0)
  /\ Jumps(t, IF f \notin code THEN At("target", f, 1)
              ELSE At(IF f \in HotPatched THEN "above" ELSE "detour", f, 0))

\* Without the long jump there is padding, which runs on into f or faults.
RunAbove(t, f) ==
  /\ Runs(t, "above", f, 0)
  /\ \/ f \in code /\ Jumps(t, At("detour", f, 0))
     \/ f \notin code /\ \E to \in {"target", "fault"} : Jumps(t, At(to, f, 0))

\* A boundary inside the jump does not hold an instruction.
RunFunction(t, f, k) ==
  /\ Runs(t, "target", f, k)
  /\ Jumps(t, IF f \in code /\ k \in Torn(f) THEN At("fault", f, k)
              ELSE IF k < N THEN At("target", f, k + 1)
              ELSE Out)

\* The detour calls the original through the trampoline, or returns without.
RunDetour(t, f) ==
  /\ Runs(t, "detour", f, 0)
  /\ \E to \in {Out, At("tramp", f, 0)} : Jumps(t, to)

\* The trampoline ends in a jump to the rest of f; that of a short f returns.
RunTrampoline(t, f, k) ==
  /\ Runs(t, "tramp", f, k)
  /\ Jumps(t, IF f \notin slots THEN At("fault", f, k)
              ELSE IF k < N THEN At("tramp", f, k + 1)
              ELSE IF f \in HotPatched THEN Out
              ELSE At("target", f, N))

RunStep(t) ==
  /\ \/ Spawn(t)
     \/ \E f \in Targets :
          \/ CallTarget(t, f) \/ RunEntry(t, f) \/ RunAbove(t, f)
          \/ RunDetour(t, f)
          \/ \E k \in 1 .. N : RunFunction(t, f, k)
          \/ \E k \in 0 .. N : RunTrampoline(t, f, k)
  /\ UNCHANGED <<bookVars, code, mpc, op, lockVars, heldVars, missed>>

-----------------------------------------------------------------------------
(* Entering and leaving the library. *)

CallerAt(c, here)    == mpc[c] = here /\ c \notin frozen
CallerGoes(c, there) == mpc' = [mpc EXCEPT ![c] = there]

Begin(c) ==
  /\ CallerAt(c, "idle")
  /\ \E call \in Calls : op' = [op EXCEPT ![c] = call]
  /\ CallerGoes(c, "spin")
  /\ UNCHANGED <<bookVars, code, lockVars, runVars>>

LocksAnyway == TRUE                     \* WRONG: the exchange compares nothing
LockIsFree  == g_isLocked = NoOne

EnterSpinLock(c) ==
  /\ CallerAt(c, "spin") /\ LockIsFree
  /\ g_isLocked' = c /\ ok' = TRUE
  /\ CallerGoes(c, "run")
  /\ UNCHANGED <<bookVars, code, op, pItems, left, runVars>>

LeaveSpinLock(c) ==
  /\ CallerAt(c, "leave")
  /\ g_isLocked' = NoOne
  /\ op' = [op EXCEPT ![c] = NoCall]
  /\ CallerGoes(c, "idle")
  /\ UNCHANGED <<bookVars, code, pItems, left, ok, runVars>>

CallIs(c, name)  == CallerAt(c, "run") /\ op[c].name = name
Writes(c)        == CallerAt(c, "run") /\ op[c].name \in Writers
Positions        == 1 .. Len(g_hooks)
FindHookEntry(f) == { i \in Positions : g_hooks[i].target = f }

\* The entries a call is about.
Subject(c) ==
  IF /\ op[c].target = All
     /\ op[c].name # "RemoveHook"
    THEN Positions
    ELSE FindHookEntry(op[c].target)

-----------------------------------------------------------------------------
(* Calls that write no code. *)

Initialize(c) ==
  /\ CallIs(c, "Initialize")
  /\ \/ g_hHeap' = TRUE
     \/ ~g_hHeap /\ "alloc" \in Fails /\ UNCHANGED g_hHeap
  /\ CallerGoes(c, "leave")
  /\ UNCHANGED <<g_hooks, slots, code, op, lockVars, runVars>>

AddsAnyway(f) == TRUE                   \* WRONG: what FindHookEntry says is lost
IsNew(f)      == FindHookEntry(f) = {}

\* Of a call that fails nothing stays, the slot of its trampoline included.
CreateHook(c) ==
  /\ CallIs(c, "CreateHook")
  /\ LET f == op[c].target IN
       \/ /\ g_hHeap /\ f # All /\ IsNew(f)
          /\ g_hooks' = Append(g_hooks, [target |-> f, isEnabled |-> FALSE, queueEnable |-> FALSE])
          /\ slots' = slots \union {f}
       \/ /\ ~g_hHeap \/ f = All \/ ~IsNew(f) \/ "alloc" \in Fails
          /\ UNCHANGED <<g_hooks, slots>>
  /\ CallerGoes(c, "leave")
  /\ UNCHANGED <<g_hHeap, code, op, lockVars, runVars>>

QueueHook(c) ==
  /\ \E queueEnable \in BOOLEAN :
       /\ CallIs(c, IF queueEnable THEN "QueueEnableHook" ELSE "QueueDisableHook")
       /\ g_hooks' = [i \in Positions |->
            IF i \in Subject(c) THEN [g_hooks[i] EXCEPT !.queueEnable = queueEnable]
            ELSE g_hooks[i]]
  /\ CallerGoes(c, "leave")
  /\ UNCHANGED <<g_hHeap, slots, code, op, lockVars, runVars>>

-----------------------------------------------------------------------------
(* Calls that write code, with the other threads suspended. *)

\* What the call makes of entry i: enabled or disabled.
Wanted(c, i) ==
  \/ op[c].name = "EnableHook"
  \/ op[c].name = "ApplyQueued" /\ g_hooks[i].queueEnable

NeverForwards(c, i) == FALSE            \* WRONG: ACTION_DISABLE, always
NeverBack(c, i)     == TRUE             \* WRONG: ACTION_ENABLE, always

\* What Freeze is told: for one hook, MH_DisableHook passes ACTION_ENABLE, too.
Announced(c, i) ==
  Wanted(c, i) \/ (op[c].name = "DisableHook" /\ op[c].target # All)

Pending(c) == { i \in Subject(c) : g_hooks[i].isEnabled # Wanted(c, i) }

\* The library is not initialised, there is no such hook, or it is as wanted.
NothingToWrite(c) ==
  /\ Writes(c) /\ Pending(c) = {}
  /\ CallerGoes(c, "finish")
  /\ UNCHANGED <<bookVars, code, op, lockVars, runVars>>

Alive == { t \in Runners : ip[t].at \notin {"unborn", "fault"} }

\* Without memory or a snapshot it lists some of the threads, or none.
EnumerateThreads(c) ==
  /\ Writes(c) /\ Pending(c) # {}
  /\ LET others == Alive \union (Callers \ {c}) IN
       pItems' \in IF "list" \in Fails THEN SUBSET others ELSE {others}
  /\ left' = pItems'
  /\ CallerGoes(c, "freeze")
  /\ UNCHANGED <<bookVars, code, op, g_isLocked, ok, runVars>>

FindNewIP(f, p) ==
  IF p.at = "target" /\ p.f = f THEN At("tramp", f, p.k) ELSE p

FindOldIP(f, p) ==
  IF p.at \in {"above", "tramp"} /\ p.f = f THEN At("target", f, p.k) ELSE p

\* The entries of the call whose state Freeze is told will change.
Changing(c) == { i \in Subject(c) : g_hooks[i].isEnabled # Announced(c, i) }

ProcessThreadIPs(c, t) ==
  IF t \in Runners /\ \E i \in Changing(c) : g_hooks[i].target = ip[t].f
    THEN \E i \in Changing(c) :
           /\ g_hooks[i].target = ip[t].f
           /\ Jumps(t, IF Announced(c, i) THEN FindNewIP(ip[t].f, ip[t])
                       ELSE FindOldIP(ip[t].f, ip[t]))
    ELSE UNCHANGED ip

\* SuspendThread fails for a thread that is suspended too often already.
Suspended(n) == IF n < MaxSuspends THEN n + 1 ELSE n
Resumed(n)   == IF n > 0 THEN n - 1 ELSE n

\* SuspendThread and ProcessThreadIPs, unless OpenThread fails; where it cannot
\* read the context, ProcessThreadIPs moves nothing.
FreezeThread(c, t) ==
  /\ CallerAt(c, "freeze") /\ t \in left
  /\ \/ /\ suspends' = [suspends EXCEPT ![t] = Suspended(@)]
        /\ ProcessThreadIPs(c, t) /\ UNCHANGED missed
     \/ /\ \/ "context" \in Fails /\ suspends' = [suspends EXCEPT ![t] = Suspended(@)]
           \/ "suspend" \in Fails /\ UNCHANGED suspends
        /\ missed' = missed \union ({t} \cap Runners) /\ UNCHANGED ip
  /\ left' = left \ {t}
  /\ UNCHANGED <<bookVars, code, mpc, op, g_isLocked, pItems, ok, lost>>

AllFrozen(c) ==
  /\ CallerAt(c, "freeze") /\ left = {}
  /\ CallerGoes(c, "patch")
  /\ UNCHANGED <<bookVars, code, op, lockVars, runVars>>

NextPending(c) == CHOOSE i \in Pending(c) : \A j \in Pending(c) : i <= j

\* EnableHookLL on the next entry.  A thread that is not in the list runs
\* meanwhile and may see the jump half written.
EnableHookLL(c) ==
  /\ CallerAt(c, "patch") /\ Pending(c) # {}
  /\ LET i == NextPending(c)
         enable == Wanted(c, i) IN
       /\ g_hooks' = [g_hooks EXCEPT ![i].isEnabled = enable, ![i].queueEnable = enable]
       /\ code' = IF enable THEN code \union {g_hooks[i].target}
                  ELSE code \ {g_hooks[i].target}
  /\ missed' = missed \union (Alive \ pItems)
  /\ UNCHANGED <<g_hHeap, slots, mpc, op, lockVars, heldVars, ip>>

ReturnsAtOnce == "finish"               \* WRONG: Unfreeze is passed over
Breaks        == "thaw"

\* VirtualProtect fails: the entries that follow are left as they are.
ProtectFails(c) ==
  /\ CallerAt(c, "patch") /\ Pending(c) # {}
  /\ op[c].name \in Fails
  /\ ok' = FALSE /\ left' = pItems
  /\ CallerGoes(c, Breaks)
  /\ UNCHANGED <<bookVars, code, op, g_isLocked, pItems, runVars>>

AllWritten(c) ==
  /\ CallerAt(c, "patch") /\ Pending(c) = {}
  /\ left' = pItems
  /\ CallerGoes(c, "thaw")
  /\ UNCHANGED <<bookVars, code, op, g_isLocked, pItems, ok, runVars>>

\* ResumeThread also for a thread that Freeze could not open.  One that cannot be
\* opened now stays suspended, when the call is over, too.
ThawThread(c, t) ==
  /\ CallerAt(c, "thaw") /\ t \in left
  /\ \/ /\ suspends' = [suspends EXCEPT ![t] = Resumed(@)]
        /\ lost' = lost \intersect frozen'
     \/ /\ "resume" \in Fails
        /\ lost' = lost \union ({t} \intersect frozen) /\ UNCHANGED suspends
  /\ left' = left \ {t}
  /\ UNCHANGED <<bookVars, code, mpc, op, g_isLocked, pItems, ok, ip, missed>>

AllThawed(c) ==
  /\ CallerAt(c, "thaw") /\ left = {}
  /\ CallerGoes(c, "finish")
  /\ pItems' = {}
  /\ UNCHANGED <<bookVars, code, op, g_isLocked, left, ok, runVars>>

-----------------------------------------------------------------------------
(* What RemoveHook and Uninitialize do after that. *)

\* The last entry takes the place of the one deleted.
DeleteHookEntry(i) ==
  [j \in 1 .. Len(g_hooks) - 1 |-> IF j = i THEN g_hooks[Len(g_hooks)] ELSE g_hooks[j]]

FreesAnyway(c) == TRUE                  \* WRONG: status is not looked at
MayFree(c)     == ok

Frees(c, name) == CallerAt(c, "finish") /\ op[c].name = name /\ MayFree(c)

\* The threads in the detour of one of these functions, or in its trampoline.
BoundFor(freed) == { t \in Runners : ip[t].at \in {"detour", "tramp"} /\ ip[t].f \in freed }

RemoveHook(c) ==
  /\ Frees(c, "RemoveHook")
  /\ \E i \in Subject(c) :
       /\ g_hooks' = DeleteHookEntry(i) /\ slots' = slots \ {g_hooks[i].target}
       /\ missed' = missed \union BoundFor({g_hooks[i].target})
  /\ CallerGoes(c, "leave")
  /\ UNCHANGED <<g_hHeap, code, op, lockVars, heldVars, ip>>

Uninitialize(c) ==
  /\ Frees(c, "Uninitialize")
  /\ g_hHeap' = FALSE /\ g_hooks' = <<>> /\ slots' = {}
  /\ missed' = missed \union BoundFor(slots)
  /\ CallerGoes(c, "leave")
  /\ UNCHANGED <<code, op, lockVars, heldVars, ip>>

FreesNothing(c) ==
  /\ CallerAt(c, "finish")
  /\ ~Frees(c, "RemoveHook") \/ Subject(c) = {}
  /\ ~Frees(c, "Uninitialize")
  /\ CallerGoes(c, "leave")
  /\ UNCHANGED <<bookVars, code, op, lockVars, runVars>>

-----------------------------------------------------------------------------
Init ==
  /\ g_hHeap = FALSE /\ g_hooks = <<>> /\ slots = {} /\ code = {}
  /\ g_isLocked = NoOne /\ ok = TRUE /\ pItems = {} /\ left = {}
  /\ mpc = [c \in Callers |-> "idle"] /\ op = [c \in Callers |-> NoCall]
  /\ suspends = [t \in Runners \union Callers |-> 0] /\ lost = {}
  /\ ip = [t \in Runners |-> Unborn] /\ missed = {}

LibraryStep(c) ==
  \/ EnterSpinLock(c)
  \/ Initialize(c) \/ CreateHook(c) \/ QueueHook(c)
  \/ NothingToWrite(c) \/ EnumerateThreads(c)
  \/ \E t \in Runners \union Callers : FreezeThread(c, t) \/ ThawThread(c, t)
  \/ AllFrozen(c) \/ EnableHookLL(c) \/ ProtectFails(c) \/ AllWritten(c)
  \/ AllThawed(c)
  \/ RemoveHook(c) \/ Uninitialize(c) \/ FreesNothing(c) \/ LeaveSpinLock(c)

Next == (\E t \in Runners : RunStep(t)) \/ (\E c \in Callers : Begin(c) \/ LibraryStep(c))

Spec == Init /\ [][Next]_vars

-----------------------------------------------------------------------------
(* Properties. *)

BookTypes ==
  /\ g_hHeap \in BOOLEAN /\ g_hooks \in Seq(Entry)
  /\ slots \subseteq Targets /\ code \subseteq Targets

CallTypes ==
  /\ g_isLocked \in Callers \union {NoOne} /\ ok \in BOOLEAN
  /\ pItems \subseteq Runners \union Callers /\ left \subseteq pItems
  /\ mpc \in [Callers -> {"idle", "spin", "run", "freeze", "patch", "thaw", "finish", "leave"}]
  /\ op \in [Callers -> Calls \union {NoCall}]

Places == {"unborn", "out", "target", "above", "detour", "tramp", "fault"}

RunTypes ==
  /\ suspends \in [Runners \union Callers -> 0 .. MaxSuspends]
  /\ lost \subseteq Runners \union Callers /\ missed \subseteq Runners
  /\ ip \in [Runners -> [at : Places, f : Targets \union {All}, k : 0 .. N]]

\* Every variable has its type, and g_hooks no more entries than functions.
TypeOK == BookTypes /\ CallTypes /\ RunTypes /\ Len(g_hooks) <= Cardinality(Targets)

\* The entries tell what is in memory: the functions that start with a jump are
\* those enabled, each with one entry, and the trampolines those of the entries.
\* So a call that fails half-way leaves no jump without an entry to undo it.
BookMatchesCode ==
  /\ code = { g_hooks[i].target : i \in { j \in Positions : g_hooks[j].isEnabled } }
  /\ slots = { g_hooks[i].target : i \in Positions }
  /\ \A i, j \in Positions : g_hooks[i].target = g_hooks[j].target => i = j

\* Threads are suspended inside one call, and after it only those that Unfreeze
\* could not open.  The one that has the spin lock never is, whatever was left
\* suspended: two callers cannot suspend each other, and who spins waits for a
\* thread that runs.
FrozenByOwner ==
  /\ g_isLocked \notin frozen
  /\ frozen \ lost # {} =>
       \E c \in Callers : g_isLocked = c /\ mpc[c] \in {"freeze", "patch", "thaw"}

\* A thread that was suspended while code was written, and in no detour or
\* trampoline when a hook was freed, does not run into the middle of a jump, a
\* vanished one, or a trampoline that is gone.
RunsWhole == \A t \in Runners : ip[t].at = "fault" => t \in missed

\* "If the thread suspended in the overwritten area, move IP to the proper
\* address": when suspended threads are about to go on, none is at a place
\* where no instruction starts.
MovedOutOfPatch ==
  \A t \in frozen \cap Runners, c \in Callers : mpc[c] = "thaw" =>
    /\ ip[t].at = "target" /\ ip[t].f \in code => ip[t].k \notin Torn(ip[t].f)
    /\ ip[t].at = "above" => ip[t].f \in code

-----------------------------------------------------------------------------
(* Why the safety properties hold: an inductive invariant.                    *)

\* The spin lock is held from EnterSpinLock to LeaveSpinLock.  Whoever is
\* suspended, but for the lost, is so once, is in the owner's list, and once it
\* thaws still to be done.
LockInv ==
  /\ \A c \in Callers : mpc[c] \notin {"idle", "spin"} <=> g_isLocked = c
  /\ \A c \in Callers : mpc[c] \in {"freeze", "patch", "thaw", "finish"} => op[c].name \in Writers
  /\ g_isLocked \notin pItems \union frozen
  /\ lost \subseteq frozen /\ frozen \ lost \subseteq pItems
  /\ \A t \in frozen \ lost : suspends[t] = 1
  /\ (\A c \in Callers : mpc[c] \notin {"freeze", "patch", "thaw"}) => pItems = {}
  /\ \A c \in Callers :
       /\ mpc[c] = "freeze" => (frozen \ lost) \intersect left = {}
       /\ mpc[c] = "patch" => left = {}
       /\ mpc[c] = "thaw" => frozen \ lost \subseteq left

\* A call that succeeds has written all that it was to write.
DoneInv == \A c \in Callers : mpc[c] \in {"thaw", "finish"} /\ ok => Pending(c) = {}

BookInv == TypeOK /\ BookMatchesCode /\ LockInv /\ DoneInv

\* The functions that start with the jump when c has written everything.
FinalCode(c) ==
  LET of(wanted) == { g_hooks[i].target : i \in { j \in Pending(c) : Wanted(c, j) = wanted } } IN
    (code \union of(TRUE)) \ of(FALSE)

\* In memory with those jumps, t is at an instruction.
Whole(t, jumps) ==
  /\ ip[t].at = "target" /\ ip[t].f \in jumps => ip[t].k \notin Torn(ip[t].f)
  /\ ip[t].at = "above" => ip[t].f \in jumps

\* The threads that Freeze has been through in the call.
Handled(c) == IF mpc[c] \in {"freeze", "patch"} THEN pItems \ left ELSE {}

\* It is at an instruction or, when Freeze has been through it, suspended and at
\* one of the memory to come.
Sound(t) ==
  /\ ip[t].at # "fault"
  /\ ip[t].at \in {"target", "above", "detour", "tramp"} => ip[t].f \in Targets
  /\ ip[t].at \in {"detour", "tramp"} => ip[t].f \in slots
  /\ ip[t].at = "above" => ip[t].f \in code \intersect HotPatched
  /\ (\A c \in Callers : t \notin Handled(c)) => Whole(t, code)
  /\ \A c \in Callers : t \in Handled(c) => t \in frozen /\ Whole(t, FinalCode(c))

\* So is each runner that the library could do something for.
RunInv == \A t \in Runners \ missed : Sound(t)

IInv == BookInv /\ RunInv

-----------------------------------------------------------------------------
\* A caller that runs goes on.
FairSpec == Spec /\ \A c \in Callers : WF_vars(LibraryStep(c))

\* Each suspended thread is resumed, however the call ends, unless Unfreeze could
\* not open it.
ThreadsThaw == \A t \in Runners \union Callers : t \in frozen ~> t \notin frozen \/ t \in lost
=============================================================================
