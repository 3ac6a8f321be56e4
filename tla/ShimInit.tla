------------------------------ MODULE ShimInit ------------------------------
(***************************************************************************)
(* How the shim comes to life: DllMain (attach), DllGetClassObject,        *)
(* EnsureInit and LoadRealDpnet of dpnet.cpp, the initialisation of        *)
(* log.cpp, and SelfJoinHook_Install of selfjoin_hook.cpp, while the       *)
(* game's threads ask for classes, load logs.dll and call what is hooked.  *)
(*                                                                         *)
(* UPnPPorts_Install is one step here; UPnPPorts has its details.          *)
(***************************************************************************)
EXTENDS Integers, Sequences, FiniteSets

CONSTANTS
  Threads,       \* of the game
  Fails,         \* what may fail, see FailAssumption
  NoOne

ASSUME NoOneAssumption == NoOne \notin Threads

\* The name of the system directory, LoadLibrary, GetProcAddress, MH_Initialize,
\* a signature, MH_CreateHook or MH_EnableHook.
ASSUME FailAssumption ==
  Fails \subseteq {"directory", "load", "export", "library", "signature", "hook"}

Helpers == {"fn_2E10", "fn_iJoin", "g_connListHead"}

VARIABLES
  dll,           \* this DLL: "out", "attaching" or "in" the process
  g_lock,        \* its owner
  g_initDone,
  g_realDpnet,   \* it is not NULL
  g_csReady,     \* of the log
  csInits,       \* times that g_cs of the log was initialised
  g_fh,          \* the log is written
  resolved,      \* the helpers that are not NULL
  orig_C430,     \* it is not NULL
  hooked,        \* NET_internal_C430 starts with the jump to hook_C430
  upnpInstalls,  \* times that UPnPPorts_Install was called
  logsLoaded,    \* logs.dll is in the process
  pc,            \* of each thread
  back,          \* where it goes on when a subroutine has returned
  got,           \* what LoadRealDpnet returned is not NULL
  logsInTime,     \* history: SelfJoinHook_Install found logs.dll
  broken,        \* history: a step of SelfJoinHook_Install failed
  unlucky        \* history: threads while whose last load was under way one failed

initVars == <<dll, g_lock, g_initDone>>
realVars == <<g_realDpnet, got, unlucky>>
logVars  == <<g_csReady, csInits, g_fh>>
hookVars == <<resolved, orig_C430, hooked, broken>>
restVars == <<upnpInstalls, logsLoaded, logsInTime>>
vars == <<initVars, realVars, logVars, hookVars, restVars, pc, back>>

At(t, place)   == pc[t] = place
Goes(t, place) == pc' = [pc EXCEPT ![t] = place] /\ UNCHANGED back

\* To a subroutine, and on to the place there when it returns.
Calls(t, place, there) ==
  pc' = [pc EXCEPT ![t] = place] /\ back' = [back EXCEPT ![t] = there]
Returns(t) == Calls(t, back[t], "nowhere")

-----------------------------------------------------------------------------
(* The game. *)

LoadLogs ==
  /\ ~logsLoaded /\ logsLoaded' = TRUE
  /\ UNCHANGED <<initVars, realVars, logVars, hookVars, upnpInstalls, logsInTime, pc, back>>

\* COM loads the DLL for the first request; the loader makes others wait.
Request(t) ==
  /\ At(t, "idle") /\ dll # "attaching"
  /\ Goes(t, IF dll = "out" THEN "attach" ELSE "ensure")
  /\ dll' = IF dll = "out" THEN "attaching" ELSE dll
  /\ UNCHANGED <<g_lock, g_initDone, realVars, logVars, hookVars, restVars>>

CallC430(t) ==
  /\ At(t, "idle") /\ logsLoaded
  /\ Goes(t, IF hooked THEN "hook_C430" ELSE "NET_internal_C430")
  /\ UNCHANGED <<initVars, realVars, logVars, hookVars, restVars>>

\* The direct join, if it can be tried (SelfJoin has it), or the original.
Detour(t) ==
  /\ At(t, "hook_C430")
  /\ \/ {"fn_2E10", "fn_iJoin"} \subseteq resolved /\ Goes(t, "idle")
     \/ {"fn_2E10", "fn_iJoin"} \subseteq resolved /\ Calls(t, "log", "original")
     \/ Goes(t, "original")
  /\ UNCHANGED <<initVars, realVars, logVars, hookVars, restVars>>

ReturnC430(t) ==
  /\ At(t, "original") \/ At(t, "NET_internal_C430")
  /\ Goes(t, "idle")
  /\ UNCHANGED <<initVars, realVars, logVars, hookVars, restVars>>

-----------------------------------------------------------------------------
(* DllMain and the log. *)

Silent(t)  == Goes(t, "attached")          \* WRONG: DllMain writes no first line
Logged(t)  == Calls(t, "log", "attached")

Attach(t) ==
  /\ At(t, "attach") /\ Logged(t)
  /\ UNCHANGED <<initVars, realVars, logVars, hookVars, restVars>>

Attached(t) ==
  /\ At(t, "attached")
  /\ dll' = "in"
  /\ Goes(t, "ensure")
  /\ UNCHANGED <<g_lock, g_initDone, realVars, logVars, hookVars, restVars>>

\* ensure_init finds the log ready, or not.
LogTest(t) ==
  /\ At(t, "log")
  /\ Goes(t, IF g_csReady THEN "logWrite" ELSE "logInit")
  /\ UNCHANGED <<initVars, realVars, logVars, hookVars, restVars>>

LogInit(t) ==
  /\ At(t, "logInit")
  /\ csInits' = csInits + 1 /\ g_csReady' = TRUE
  /\ g_fh' \in BOOLEAN
  /\ Goes(t, "logWrite")
  /\ UNCHANGED <<initVars, realVars, hookVars, restVars>>

\* With g_cs, if there is a file; nothing waits for anything inside g_cs.
LogWrite(t) ==
  /\ At(t, "logWrite") /\ Returns(t)
  /\ UNCHANGED <<initVars, realVars, logVars, hookVars, restVars>>

-----------------------------------------------------------------------------
(* LoadRealDpnet, called with g_lock from EnsureInit and then without it. *)

LoadTest(t) ==
  /\ At(t, "load")
  /\ \/ g_realDpnet /\ got' = [got EXCEPT ![t] = TRUE] /\ UNCHANGED unlucky /\ Returns(t)
     \/ ~g_realDpnet /\ unlucky' = unlucky \ {t} /\ UNCHANGED got /\ Goes(t, "loadLibrary")
     \/ /\ ~g_realDpnet /\ "directory" \in Fails /\ unlucky' = unlucky \union {t}
        /\ got' = [got EXCEPT ![t] = FALSE] /\ Returns(t)
  /\ UNCHANGED <<initVars, g_realDpnet, logVars, hookVars, restVars>>

\* The result is stored, and NULL over a handle that another thread got.
LoadLibrary(t) ==
  /\ At(t, "loadLibrary")
  /\ \/ g_realDpnet' = TRUE /\ UNCHANGED unlucky
     \/ /\ "load" \in Fails /\ g_realDpnet' = FALSE
        /\ unlucky' = unlucky \union { u \in Threads : pc[u] # "idle" }
  /\ pc' = [pc EXCEPT ![t] = "log"]
  /\ back' = [back EXCEPT ![t] = IF back[t] = "install" THEN "loaded" ELSE "reloaded"]
  /\ UNCHANGED <<initVars, got, logVars, hookVars, restVars>>

\* WRONG: loads until it succeeds.
TriesAgain(t, place)    == IF g_realDpnet THEN Goes(t, place) ELSE Calls(t, "load", place)
ReturnsHandle(t, place) == Goes(t, place)

\* The global is read again.
LoadReturn(t) ==
  /\ \/ At(t, "loaded") /\ ReturnsHandle(t, "install")
     \/ At(t, "reloaded") /\ ReturnsHandle(t, "class")
  /\ got' = [got EXCEPT ![t] = g_realDpnet]
  /\ UNCHANGED <<initVars, g_realDpnet, unlucky, logVars, hookVars, restVars>>

-----------------------------------------------------------------------------
(* EnsureInit and SelfJoinHook_Install. *)

LooksFirst == g_lock = NoOne \/ g_initDone   \* WRONG: goes on when the flag is set
LockFree   == g_lock = NoOne

OnlyLooks(t) == Goes(t, "class")           \* WRONG: takes what EnsureInit left it
Delegates(t) == Calls(t, "load", "class")

NeverMarks == UNCHANGED g_initDone         \* WRONG: the next request installs again
MarksDone  == g_initDone' = TRUE

EnterInit(t) ==
  /\ At(t, "ensure") /\ LockFree
  /\ \/ /\ ~g_initDone
        /\ MarksDone /\ g_lock' = t
        /\ Calls(t, "load", "install")
     \/ /\ g_initDone
        /\ Delegates(t) /\ UNCHANGED <<g_lock, g_initDone>>
  /\ UNCHANGED <<dll, realVars, logVars, hookVars, restVars>>

\* WRONG: the detour is on before the functions that it calls are known.
HooksFirst(step) == [install |-> "create", create |-> "enable", enable |-> "resolve", resolve |-> "upnp"][step]
After(step)      == [install |-> "resolve", resolve |-> "create", create |-> "enable", enable |-> "upnp"][step]

LeavesAll(t) == broken' = TRUE /\ Calls(t, "log", "leave")   \* WRONG: out of EnsureInit
GivesUp(t)   == broken' = TRUE /\ Calls(t, "log", "upnp")

\* Without logs.dll or MinHook the self-join is left as it is.
InstallBegin(t) ==
  /\ At(t, "install")
  /\ \/ logsLoaded /\ Goes(t, After("install")) /\ UNCHANGED broken
     \/ ~logsLoaded /\ Calls(t, "log", "upnp") /\ UNCHANGED broken
     \/ logsLoaded /\ "library" \in Fails /\ GivesUp(t)
  /\ logsInTime' = logsLoaded
  /\ UNCHANGED <<initVars, realVars, logVars, resolved, orig_C430, hooked, upnpInstalls, logsLoaded>>

\* On to the next step, or out with a line in the log.
Proceeds(t, step) ==
  /\ IF After(step) = "upnp" THEN Calls(t, "log", "upnp") ELSE Goes(t, After(step))
  /\ UNCHANGED broken

\* A helper that is not found is NULL and only that; without C430 no hook.
Resolve(t) ==
  /\ At(t, "resolve")
  /\ \E found \in (IF "signature" \in Fails THEN SUBSET Helpers ELSE {Helpers}) : resolved' = found
  /\ Proceeds(t, "resolve") \/ ("signature" \in Fails /\ GivesUp(t))
  /\ UNCHANGED <<initVars, realVars, logVars, orig_C430, hooked, restVars>>

CreateHook(t) ==
  /\ At(t, "create")
  /\ \/ orig_C430' = TRUE /\ Proceeds(t, "create")
     \/ "hook" \in Fails /\ UNCHANGED orig_C430 /\ GivesUp(t)
  /\ UNCHANGED <<initVars, realVars, logVars, resolved, hooked, restVars>>

EnableHook(t) ==
  /\ At(t, "enable")
  /\ \/ hooked' = TRUE /\ Proceeds(t, "enable")
     \/ "hook" \in Fails /\ UNCHANGED hooked /\ GivesUp(t)
  /\ UNCHANGED <<initVars, realVars, logVars, resolved, orig_C430, restVars>>

\* Whatever it does it writes a line.
InstallUPnP(t) ==
  /\ At(t, "upnp")
  /\ upnpInstalls' = upnpInstalls + 1
  /\ Calls(t, "log", "leave")
  /\ UNCHANGED <<initVars, realVars, logVars, hookVars, logsLoaded, logsInTime>>

LeaveInit(t) ==
  /\ At(t, "leave")
  /\ g_lock' = NoOne
  /\ Delegates(t)
  /\ UNCHANGED <<dll, g_initDone, realVars, logVars, hookVars, restVars>>

\* DllGetClassObject: the request is refused or delegated.
Refuses(t) == ~got[t] \/ "export" \in Fails
Answer(t) ==
  /\ At(t, "class")
  /\ \/ Refuses(t) /\ Goes(t, "refused")
     \/ got[t] /\ Goes(t, "idle")
  /\ UNCHANGED <<initVars, realVars, logVars, hookVars, restVars>>

Refused(t) ==
  /\ At(t, "refused") /\ Goes(t, "idle")
  /\ UNCHANGED <<initVars, realVars, logVars, hookVars, restVars>>

-----------------------------------------------------------------------------
Init ==
  /\ dll = "out" /\ g_lock = NoOne /\ g_initDone = FALSE
  /\ g_realDpnet = FALSE /\ got = [t \in Threads |-> FALSE] /\ unlucky = {}
  /\ g_csReady = FALSE /\ csInits = 0 /\ g_fh = FALSE
  /\ resolved = {} /\ orig_C430 = FALSE /\ hooked = FALSE /\ broken = FALSE
  /\ upnpInstalls = 0 /\ logsLoaded \in BOOLEAN /\ logsInTime = FALSE
  /\ pc = [t \in Threads |-> "idle"] /\ back = [t \in Threads |-> "nowhere"]

Step(t) ==
  \/ Detour(t) \/ ReturnC430(t)
  \/ Attach(t) \/ Attached(t) \/ LogTest(t) \/ LogInit(t) \/ LogWrite(t)
  \/ LoadTest(t) \/ LoadLibrary(t) \/ LoadReturn(t)
  \/ EnterInit(t) \/ InstallBegin(t) \/ Resolve(t) \/ CreateHook(t) \/ EnableHook(t)
  \/ InstallUPnP(t) \/ LeaveInit(t) \/ Answer(t) \/ Refused(t)

Next == LoadLogs \/ \E t \in Threads : Request(t) \/ CallC430(t) \/ Step(t)

Spec == Init /\ [][Next]_vars

\* A thread that is in the shim or in what it calls goes on.
FairSpec == Spec /\ \A t \in Threads : WF_vars(Step(t))

-----------------------------------------------------------------------------
Places == {"idle", "attach", "attached", "log", "logInit", "logWrite", "ensure", "load",
           "loadLibrary", "loaded", "reloaded", "install", "resolve", "create", "enable",
           "upnp", "leave", "class", "refused", "hook_C430", "original", "NET_internal_C430"}

\* Every variable has its type; UPnPPorts_Install, which would make its lock
\* anew under the worker, is not called twice.
TypeOK ==
  /\ dll \in {"out", "attaching", "in"} /\ g_lock \in Threads \union {NoOne}
  /\ {g_initDone, g_realDpnet, g_csReady, g_fh, orig_C430, hooked, broken, logsLoaded, logsInTime} \subseteq BOOLEAN
  /\ got \in [Threads -> BOOLEAN] /\ unlucky \subseteq Threads /\ resolved \subseteq Helpers
  /\ csInits \in Nat /\ upnpInstalls \in {0, 1}
  /\ pc \in [Threads -> Places] /\ back \in [Threads -> Places \union {"nowhere"}]

InitOver == g_initDone /\ g_lock = NoOne

\* No request goes past EnsureInit while the first one is still in it, though the
\* flag is set before the work is done (dpnet.cpp:58): what waits is the lock.
ClassAfterInit ==
  \A t \in Threads : {pc[t], back[t]} \intersect {"class", "reloaded", "refused"} # {} => InitOver

\* However many threads ask first, when EnsureInit is over everything has been
\* installed once: the self-join too, unless logs.dll came later or a step failed.
InstalledOnce ==
  InitOver => upnpInstalls = 1 /\ (logsInTime /\ ~broken => hooked)

\* A call of the game that runs in hook_C430 can fall back on the original, and
\* the helpers that it tested do not change under it: nothing of
\* SelfJoinHook_Install that it depends on is left for after MH_EnableHook.
DetourReady ==
  [][\A t \in Threads : {pc[t], back[t]} \intersect {"hook_C430", "original"} # {}
       => orig_C430 /\ UNCHANGED <<resolved, orig_C430>>]_vars

\* g_cs of the log is initialised once, and by nobody after the class requests
\* and the detours of several threads write lines: DllMain wrote the first
\* (log.cpp:15 has no lock of its own).
LogOnce ==
  /\ csInits <= 1
  /\ \A t \in Threads : At(t, "logWrite") => g_csReady

\* A class is refused for want of the system's dpnet.dll only if a load failed
\* while this request was loading it: its own or, LoadRealDpnet having no lock
\* and storing NULL over what another thread got (dpnet.cpp:47), one of another.
RefusedForCause ==
  \A t \in Threads : At(t, "refused") /\ ~got[t] => t \in unlucky

-----------------------------------------------------------------------------
(* Why these hold: an inductive invariant.                                    *)

LogPlaces  == {"log", "logInit", "logWrite"}
LoadPlaces == {"load", "loadLibrary"}

\* Where a thread is, or is to go on when its subroutine has returned.
Where(t) == IF back[t] = "nowhere" THEN pc[t] ELSE back[t]

Outside(t)    == Where(t) \in {"idle", "NET_internal_C430"}
Attaching(t)  == Where(t) \in {"attach", "attached"}
Installing(t) == Where(t) \in {"install", "loaded", "resolve", "create", "enable", "upnp", "leave"}
InDetour(t)   == Where(t) \in {"hook_C430", "original"}
PastInit(t)   == Where(t) \in {"class", "reloaded", "refused"}

\* Subroutines are not nested, and who calls which.
CallInv ==
  \A t \in Threads :
    /\ back[t] = "nowhere" <=> pc[t] \notin LogPlaces \union LoadPlaces
    /\ pc[t] \in LoadPlaces => back[t] \in {"install", "class"}
    /\ pc[t] \in LogPlaces => back[t] \in {"attached", "original", "loaded", "reloaded", "upnp", "leave"}

\* Until DllMain has written its line, the thread that runs it is alone in the DLL.
LogInv ==
  /\ csInits = IF g_csReady THEN 1 ELSE 0
  /\ dll = "in" => g_csReady
  /\ \A t \in Threads :
       /\ pc[t] = "logInit" => ~g_csReady
       /\ pc[t] \in {"logWrite", "attached"} => g_csReady
       /\ dll # "in" => Outside(t) \/ Attaching(t)
       /\ dll # "attaching" => ~Attaching(t)
  /\ \A t, u \in Threads : Attaching(t) /\ Attaching(u) => t = u

\* The owner of g_lock installs, and how far it has come.
InstallInv ==
  /\ \A t \in Threads : Installing(t) <=> g_lock = t
  /\ g_lock # NoOne => g_initDone
  /\ g_initDone => dll = "in"
  /\ \A t \in Threads : PastInit(t) => InitOver
  /\ ~g_initDone => upnpInstalls = 0
  /\ \A t \in Threads : Installing(t) => upnpInstalls = IF Where(t) = "leave" THEN 1 ELSE 0
  /\ InitOver => upnpInstalls = 1
  /\ InitOver \/ (\E t \in Threads : Where(t) \in {"upnp", "leave"}) =>
       (logsInTime /\ ~broken => hooked)

\* NET_internal_C430 is patched last, and who runs in the hook came through the patch.
DetourInv ==
  /\ hooked => orig_C430 /\ g_initDone
  /\ \A t \in Threads :
       /\ InDetour(t) => hooked
       /\ Where(t) = "enable" => orig_C430
       /\ Where(t) \in {"install", "loaded", "resolve", "create", "enable"} => ~hooked

\* Between its load and its refusal a request has the handle, or a load failed.
CauseInv ==
  \A t \in Threads :
    /\ Where(t) = "reloaded" => g_realDpnet \/ t \in unlucky
    /\ pc[t] \in {"class", "refused"} => got[t] \/ t \in unlucky

IInv == TypeOK /\ CallInv /\ LogInv /\ InstallInv /\ DetourInv /\ CauseInv

-----------------------------------------------------------------------------
\* Every request for a class is answered or refused in the end.
RequestAnswered ==
  \A t \in Threads : (At(t, "attach") \/ At(t, "ensure")) ~> At(t, "idle")
=============================================================================
