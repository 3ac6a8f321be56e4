--------------------------- MODULE ShimInitProofs ---------------------------
(***************************************************************************)
(* IInv is an inductive invariant of ShimInit, for any number of threads   *)
(* and whatever fails, and the safety properties of ShimInit follow.       *)
(*                                                                         *)
(* Most of it speaks of where a thread is when the subroutines it is in    *)
(* are looked through (Where).  Moved says what a step does to that; the   *)
(* parts of IInv are then shown to be preserved, one action after another. *)
(***************************************************************************)
EXTENDS ShimInit, TLAPS

-----------------------------------------------------------------------------
(* Where the threads go. *)

\* Thread t is at place after the step, with there to return to, and the others
\* are where they were.
Moved(t, place, there) ==
  /\ pc'[t] = place /\ back'[t] = there
  /\ \A u \in Threads \ {t} : pc'[u] = pc[u] /\ back'[u] = back[u] /\ Where(u)' = Where(u)

\* A thread that goes on keeps what it has to return to.
LEMMA GoesMoved ==
  ASSUME TypeOK, NEW t \in Threads, NEW place, Goes(t, place)
  PROVE  Moved(t, place, back[t])
  BY DEF TypeOK, Goes, Moved, Where

\* A thread that calls a subroutine has the place to return to.
LEMMA CallsMoved ==
  ASSUME TypeOK, NEW t \in Threads, NEW place, NEW there, Calls(t, place, there)
  PROVE  Moved(t, place, there)
  BY DEF TypeOK, Calls, Moved, Where

\* LoadLibrary goes on in the log, and then after the call that led to it.
LEMMA LoadMoved ==
  ASSUME TypeOK, NEW t \in Threads, LoadLibrary(t)
  PROVE  Moved(t, "log", IF back[t] = "install" THEN "loaded" ELSE "reloaded")
  BY DEF TypeOK, LoadLibrary, Moved, Where

-----------------------------------------------------------------------------
\* The state before the DLL is loaded satisfies the invariant.
LEMMA InitInv == Init => IInv
<1> SUFFICES ASSUME Init PROVE IInv
  OBVIOUS
<1>1. TypeOK
  BY DEF Init, TypeOK, Places
<1>2. \A t \in Threads : pc[t] = "idle" /\ back[t] = "nowhere" /\ Where(t) = "idle"
  BY DEF Init, Where
<1>3. CallInv
  BY <1>2 DEF CallInv, LogPlaces, LoadPlaces
<1>4. LogInv
  BY <1>2 DEF Init, LogInv, Outside, Attaching
<1>5. InstallInv
  BY <1>2, NoOneAssumption DEF Init, InstallInv, Installing, PastInit, InitOver
<1>6. DetourInv /\ CauseInv
  BY <1>2 DEF Init, DetourInv, CauseInv, InDetour
<1> QED BY <1>1, <1>3, <1>4, <1>5, <1>6 DEF IInv

-----------------------------------------------------------------------------
\* Every step keeps the types.
LEMMA TypeStep == ASSUME IInv, [Next]_vars PROVE TypeOK'
<1> USE DEF TypeOK, initVars, realVars, logVars, hookVars, restVars, Goes, Places
<1>1. CASE UNCHANGED vars \/ LoadLogs
  BY <1>1 DEF vars, LoadLogs, IInv
<1>2. ASSUME NEW t \in Threads, Request(t) \/ CallC430(t) \/ Step(t) PROVE TypeOK'
  <2> USE DEF IInv
  <2>1. CASE Request(t) \/ CallC430(t)
    BY <2>1 DEF Request, CallC430
  <2>2. CASE Detour(t) \/ ReturnC430(t)
    BY <2>2 DEF Detour, ReturnC430, Calls
  <2>3. CASE Attach(t) \/ Attached(t)
    BY <2>3 DEF Attach, Attached, Logged, Calls
  <2>4. CASE LogTest(t)
    BY <2>4 DEF LogTest
  <2>15. CASE LogInit(t)
    BY <2>15 DEF LogInit
  <2>5. CASE LogWrite(t)
    BY <2>5 DEF LogWrite, Returns, Calls, CallInv, LogPlaces, LoadPlaces, At
  <2>6. CASE LoadTest(t)
    BY <2>6 DEF LoadTest, Returns, Calls, CallInv, LogPlaces, LoadPlaces, At
  <2>7. CASE LoadLibrary(t)
    BY <2>7 DEF LoadLibrary
  <2>8. CASE LoadReturn(t)
    BY <2>8 DEF LoadReturn, ReturnsHandle
  <2>9. CASE EnterInit(t)
    BY <2>9 DEF EnterInit, MarksDone, Delegates, Calls
  <2>10. CASE InstallBegin(t)
    BY <2>10 DEF InstallBegin, After, GivesUp, Calls
  <2>11. CASE Resolve(t) \/ CreateHook(t) \/ EnableHook(t)
    BY <2>11 DEF Resolve, CreateHook, EnableHook, Proceeds, After, GivesUp, Calls
  <2>12. CASE InstallUPnP(t)
    BY <2>12 DEF InstallUPnP, Calls, InstallInv, Installing, Where, CallInv, At, LogPlaces, LoadPlaces
  <2>13. CASE LeaveInit(t)
    BY <2>13 DEF LeaveInit, Delegates, Calls
  <2>14. CASE Answer(t) \/ Refused(t)
    BY <2>14 DEF Answer, Refused
  <2> QED BY <1>2, <2>1, <2>2, <2>3, <2>4, <2>5, <2>6, <2>7, <2>8, <2>9, <2>10, <2>11, <2>12, <2>13, <2>14, <2>15 DEF Step
<1> QED BY <1>1, <1>2 DEF Next

-----------------------------------------------------------------------------
\* Every step keeps the discipline of the subroutines.
LEMMA CallStep == ASSUME IInv, [Next]_vars PROVE CallInv'
<1> USE DEF IInv, CallInv, LogPlaces, LoadPlaces, Moved, At
<1>1. CASE UNCHANGED vars \/ LoadLogs
  BY <1>1 DEF vars, LoadLogs
<1>2. ASSUME NEW t \in Threads, Request(t) \/ CallC430(t) \/ Step(t) PROVE CallInv'
  <2>1. CASE Request(t) \/ CallC430(t)
    BY <2>1, GoesMoved DEF Request, CallC430
  <2>2. CASE Detour(t) \/ ReturnC430(t)
    BY <2>2, GoesMoved, CallsMoved DEF Detour, ReturnC430
  <2>3. CASE Attach(t) \/ Attached(t)
    BY <2>3, GoesMoved, CallsMoved DEF Attach, Attached, Logged
  <2>4. CASE LogTest(t) \/ LogInit(t)
    BY <2>4, GoesMoved DEF LogTest, LogInit
  <2>5. CASE LogWrite(t)
    BY <2>5, CallsMoved DEF LogWrite, Returns
  <2>6. CASE LoadTest(t)
    BY <2>6, GoesMoved, CallsMoved DEF LoadTest, Returns
  <2>7. CASE LoadLibrary(t)
    <3>1. Moved(t, "log", "loaded") \/ Moved(t, "log", "reloaded")
      BY <2>7, LoadMoved
    <3> QED BY <3>1
  <2>8. CASE LoadReturn(t)
    BY <2>8, GoesMoved DEF LoadReturn, ReturnsHandle
  <2>9. CASE EnterInit(t)
    BY <2>9, CallsMoved DEF EnterInit, Delegates
  <2>10. CASE InstallBegin(t)
    BY <2>10, GoesMoved, CallsMoved DEF InstallBegin, After, GivesUp
  <2>11. CASE Resolve(t) \/ CreateHook(t) \/ EnableHook(t)
    BY <2>11, GoesMoved, CallsMoved DEF Resolve, CreateHook, EnableHook, Proceeds, After, GivesUp
  <2>12. CASE InstallUPnP(t) \/ LeaveInit(t)
    BY <2>12, CallsMoved DEF InstallUPnP, LeaveInit, Delegates
  <2>13. CASE Answer(t) \/ Refused(t)
    BY <2>13, GoesMoved DEF Answer, Refused
  <2> QED BY <1>2, <2>1, <2>2, <2>3, <2>4, <2>5, <2>6, <2>7, <2>8, <2>9, <2>10, <2>11, <2>12, <2>13 DEF Step
<1> QED BY <1>1, <1>2 DEF Next

-----------------------------------------------------------------------------
\* Every step keeps the log initialised once, by the thread in DllMain.
LEMMA LogStep == ASSUME IInv, [Next]_vars PROVE LogInv'
<1> USE DEF IInv, LogInv, Outside, Attaching, Moved, At, Where, CallInv, LogPlaces, LoadPlaces,
            initVars, realVars, logVars, hookVars, restVars
<1>1. CASE UNCHANGED vars \/ LoadLogs
  BY <1>1 DEF vars, LoadLogs
<1>2. ASSUME NEW t \in Threads, Request(t) \/ CallC430(t) \/ Step(t) PROVE LogInv'
  <2>1. CASE Request(t)
    <3>1. CASE dll = "out"
      <4>1. Moved(t, "attach", "nowhere") /\ dll' = "attaching" /\ UNCHANGED logVars
        BY <2>1, <3>1, GoesMoved DEF Request
      <4> QED BY <3>1, <4>1
    <3>2. CASE dll # "out"
      <4>1. Moved(t, "ensure", "nowhere") /\ dll' = "in" /\ dll = "in" /\ UNCHANGED logVars
        BY <2>1, <3>2, GoesMoved DEF Request, TypeOK
      <4> QED BY <3>2, <4>1
    <3> QED BY <3>1, <3>2
  <2>2. CASE CallC430(t)
    <3>1. dll' = dll /\ UNCHANGED logVars
      BY <2>2 DEF CallC430
    <3>2. CASE hooked
      <4>1. Moved(t, "hook_C430", "nowhere") /\ dll = "in"
        BY <2>2, <3>2, GoesMoved DEF CallC430, DetourInv, InstallInv
      <4> QED BY <3>1, <4>1
    <3>3. CASE ~hooked
      <4>1. Moved(t, "NET_internal_C430", "nowhere")
        BY <2>2, <3>3, GoesMoved DEF CallC430
      <4> QED BY <3>1, <4>1
    <3> QED BY <3>2, <3>3
  <2>3. CASE Detour(t) \/ ReturnC430(t)
    BY <2>3, GoesMoved, CallsMoved DEF Detour, ReturnC430
  <2>4. CASE Attach(t) \/ Attached(t)
    BY <2>4, GoesMoved, CallsMoved DEF Attach, Attached, Logged
  <2>5. CASE LogTest(t) \/ LogInit(t)
    BY <2>5, GoesMoved DEF LogTest, LogInit
  <2>6. CASE LogWrite(t)
    BY <2>6, CallsMoved DEF LogWrite, Returns
  <2>7. CASE LoadTest(t)
    BY <2>7, GoesMoved, CallsMoved DEF LoadTest, Returns
  <2>8. CASE LoadLibrary(t)
    BY <2>8, LoadMoved DEF LoadLibrary
  <2>9. CASE LoadReturn(t)
    BY <2>9, GoesMoved DEF LoadReturn, ReturnsHandle
  <2>10. CASE EnterInit(t)
    BY <2>10, CallsMoved DEF EnterInit, LockFree, MarksDone, Delegates
  <2>11. CASE InstallBegin(t)
    BY <2>11, GoesMoved, CallsMoved DEF InstallBegin, After, GivesUp
  <2>12. CASE Resolve(t)
    BY <2>12, GoesMoved, CallsMoved DEF Resolve, Proceeds, After, GivesUp
  <2>13. CASE CreateHook(t)
    BY <2>13, GoesMoved, CallsMoved DEF CreateHook, Proceeds, After, GivesUp
  <2>14. CASE EnableHook(t)
    BY <2>14, GoesMoved, CallsMoved DEF EnableHook, Proceeds, After, GivesUp
  <2>15. CASE InstallUPnP(t)
    BY <2>15, CallsMoved DEF InstallUPnP
  <2>16. CASE LeaveInit(t)
    BY <2>16, CallsMoved DEF LeaveInit, Delegates
  <2>17. CASE Answer(t) \/ Refused(t)
    BY <2>17, GoesMoved DEF Answer, Refused, Refuses
  <2> QED BY <1>2, <2>1, <2>2, <2>3, <2>4, <2>5, <2>6, <2>7, <2>8, <2>9, <2>10, <2>11, <2>12, <2>13, <2>14, <2>15, <2>16, <2>17 DEF Step
<1> QED BY <1>1, <1>2 DEF Next

-----------------------------------------------------------------------------
\* Every step keeps what the owner of g_lock has done and left.
LEMMA InstallStep == ASSUME IInv, [Next]_vars PROVE InstallInv'
<1> USE NoOneAssumption DEF IInv, InstallInv, Installing, PastInit, InitOver, Moved, At, Where, CallInv, LogPlaces, LoadPlaces,
            initVars, realVars, logVars, hookVars, restVars
<1>1. CASE UNCHANGED vars \/ LoadLogs
  BY <1>1 DEF vars, LoadLogs
<1>2. ASSUME NEW t \in Threads, Request(t) \/ CallC430(t) \/ Step(t) PROVE InstallInv'
  <2>1. CASE Request(t)
    BY <2>1, GoesMoved DEF Request
  <2>2. CASE CallC430(t)
    BY <2>2, GoesMoved DEF CallC430
  <2>3. CASE Detour(t) \/ ReturnC430(t)
    BY <2>3, GoesMoved, CallsMoved DEF Detour, ReturnC430
  <2>4. CASE Attach(t) \/ Attached(t)
    BY <2>4, GoesMoved, CallsMoved DEF Attach, Attached, Logged
  <2>5. CASE LogTest(t) \/ LogInit(t)
    BY <2>5, GoesMoved DEF LogTest, LogInit
  <2>6. CASE LogWrite(t)
    BY <2>6, CallsMoved DEF LogWrite, Returns
  <2>7. CASE LoadTest(t)
    BY <2>7, GoesMoved, CallsMoved DEF LoadTest, Returns
  <2>8. CASE LoadLibrary(t)
    BY <2>8, LoadMoved DEF LoadLibrary
  <2>9. CASE LoadReturn(t)
    BY <2>9, GoesMoved DEF LoadReturn, ReturnsHandle
  <2>10. CASE EnterInit(t)
    <3>1. /\ back[t] = "nowhere" /\ Where(t) = "ensure" /\ g_lock = NoOne
          /\ UNCHANGED <<dll, hookVars, restVars>> /\ g_initDone'
      BY <2>10 DEF EnterInit, LockFree, MarksDone
    <3>2. CASE g_initDone
      <4>1. Moved(t, "load", "class") /\ g_lock' = g_lock
        BY <2>10, <3>2, CallsMoved DEF EnterInit, Delegates
      <4> QED BY <3>1, <3>2, <4>1
    <3>3. CASE ~g_initDone
      <4>1. Moved(t, "load", "install") /\ g_lock' = t
        BY <2>10, <3>3, CallsMoved DEF EnterInit, MarksDone
      <4>2. dll = "in"
        BY <3>1 DEF TypeOK, LogInv, Outside, Attaching
      <4>3. \A u \in Threads : ~Installing(u) /\ ~PastInit(u)
        BY <3>1, <3>3
      <4> QED BY <3>1, <3>3, <4>1, <4>2, <4>3
    <3> QED BY <3>2, <3>3
  <2>11. CASE InstallBegin(t)
    BY <2>11, GoesMoved, CallsMoved DEF InstallBegin, After, GivesUp
  <2>12. CASE Resolve(t)
    BY <2>12, GoesMoved, CallsMoved DEF Resolve, Proceeds, After, GivesUp
  <2>13. CASE CreateHook(t)
    BY <2>13, GoesMoved, CallsMoved DEF CreateHook, Proceeds, After, GivesUp
  <2>14. CASE EnableHook(t)
    BY <2>14, GoesMoved, CallsMoved DEF EnableHook, Proceeds, After, GivesUp
  <2>15. CASE InstallUPnP(t)
    BY <2>15, CallsMoved DEF InstallUPnP
  <2>16. CASE LeaveInit(t)
    BY <2>16, CallsMoved DEF LeaveInit, Delegates
  <2>17. CASE Answer(t) \/ Refused(t)
    BY <2>17, GoesMoved DEF Answer, Refused, Refuses
  <2> QED BY <1>2, <2>1, <2>2, <2>3, <2>4, <2>5, <2>6, <2>7, <2>8, <2>9, <2>10, <2>11, <2>12, <2>13, <2>14, <2>15, <2>16, <2>17 DEF Step
<1> QED BY <1>1, <1>2 DEF Next

-----------------------------------------------------------------------------
\* Every step keeps the patch for last.
LEMMA DetourStep == ASSUME IInv, [Next]_vars PROVE DetourInv'
<1> USE DEF IInv, DetourInv, InDetour, Moved, At, Where, CallInv, LogPlaces, LoadPlaces,
            initVars, realVars, logVars, hookVars, restVars
<1>1. CASE UNCHANGED vars \/ LoadLogs
  BY <1>1 DEF vars, LoadLogs
<1>2. ASSUME NEW t \in Threads, Request(t) \/ CallC430(t) \/ Step(t) PROVE DetourInv'
  <2>1. CASE Request(t)
    BY <2>1, GoesMoved DEF Request
  <2>2. CASE CallC430(t)
    BY <2>2, GoesMoved DEF CallC430
  <2>3. CASE Detour(t) \/ ReturnC430(t)
    BY <2>3, GoesMoved, CallsMoved DEF Detour, ReturnC430
  <2>4. CASE Attach(t) \/ Attached(t)
    BY <2>4, GoesMoved, CallsMoved DEF Attach, Attached, Logged
  <2>5. CASE LogTest(t) \/ LogInit(t)
    BY <2>5, GoesMoved DEF LogTest, LogInit
  <2>6. CASE LogWrite(t)
    BY <2>6, CallsMoved DEF LogWrite, Returns
  <2>7. CASE LoadTest(t)
    BY <2>7, GoesMoved, CallsMoved DEF LoadTest, Returns
  <2>8. CASE LoadLibrary(t)
    BY <2>8, LoadMoved DEF LoadLibrary
  <2>9. CASE LoadReturn(t)
    BY <2>9, GoesMoved DEF LoadReturn, ReturnsHandle
  <2>10. CASE EnterInit(t)
    BY <2>10, CallsMoved DEF EnterInit, LockFree, MarksDone, Delegates
  <2>11. CASE InstallBegin(t)
    BY <2>11, GoesMoved, CallsMoved DEF InstallBegin, After, GivesUp
  <2>12. CASE Resolve(t)
    BY <2>12, GoesMoved, CallsMoved DEF Resolve, Proceeds, After, GivesUp
  <2>13. CASE CreateHook(t)
    BY <2>13, GoesMoved, CallsMoved DEF CreateHook, Proceeds, After, GivesUp
  <2>14. CASE EnableHook(t)
    <3>1. UNCHANGED <<orig_C430, g_initDone>> /\ orig_C430 /\ g_initDone
      BY <2>14, NoOneAssumption DEF EnableHook, InstallInv, Installing
    <3>2. Moved(t, "log", "upnp")
      BY <2>14, CallsMoved DEF EnableHook, Proceeds, After, GivesUp
    <3>3. hooked' \/ hooked' = hooked
      BY <2>14 DEF EnableHook
    <3>4. \A u \in Threads \ {t} : ~Installing(u)
      BY <2>14 DEF EnableHook, InstallInv, Installing
    <3> QED BY <3>1, <3>2, <3>3, <3>4 DEF Installing
  <2>15. CASE InstallUPnP(t)
    BY <2>15, CallsMoved DEF InstallUPnP
  <2>16. CASE LeaveInit(t)
    BY <2>16, CallsMoved DEF LeaveInit, Delegates
  <2>17. CASE Answer(t) \/ Refused(t)
    BY <2>17, GoesMoved DEF Answer, Refused, Refuses
  <2> QED BY <1>2, <2>1, <2>2, <2>3, <2>4, <2>5, <2>6, <2>7, <2>8, <2>9, <2>10, <2>11, <2>12, <2>13, <2>14, <2>15, <2>16, <2>17 DEF Step
<1> QED BY <1>1, <1>2 DEF Next

-----------------------------------------------------------------------------
\* Every step keeps the cause of a refusal.
LEMMA CauseStep == ASSUME IInv, [Next]_vars PROVE CauseInv'
<1> USE DEF IInv, CauseInv, Moved, At, Where, CallInv, LogPlaces, LoadPlaces,
            initVars, realVars, logVars, hookVars, restVars
<1>1. CASE UNCHANGED vars \/ LoadLogs
  BY <1>1 DEF vars, LoadLogs
<1>2. ASSUME NEW t \in Threads, Request(t) \/ CallC430(t) \/ Step(t) PROVE CauseInv'
  <2>1. CASE Request(t)
    BY <2>1, GoesMoved DEF Request
  <2>2. CASE CallC430(t)
    BY <2>2, GoesMoved DEF CallC430
  <2>3. CASE Detour(t) \/ ReturnC430(t)
    BY <2>3, GoesMoved, CallsMoved DEF Detour, ReturnC430
  <2>4. CASE Attach(t) \/ Attached(t)
    BY <2>4, GoesMoved, CallsMoved DEF Attach, Attached, Logged
  <2>5. CASE LogTest(t) \/ LogInit(t)
    BY <2>5, GoesMoved DEF LogTest, LogInit
  <2>6. CASE LogWrite(t)
    BY <2>6, CallsMoved DEF LogWrite, Returns
  <2>7. CASE LoadTest(t)
    <3>1. g_realDpnet' = g_realDpnet /\ \A u \in Threads \ {t} : got'[u] = got[u] /\ (u \in unlucky' <=> u \in unlucky)
      BY <2>7 DEF LoadTest, TypeOK
    <3>2. Moved(t, back[t], "nowhere") \/ Moved(t, "loadLibrary", back[t])
      BY <2>7, GoesMoved, CallsMoved DEF LoadTest, Returns
    <3>3. Moved(t, back[t], "nowhere") => got'[t] \/ t \in unlucky'
      BY <2>7 DEF LoadTest, Goes, TypeOK
    <3> QED BY <2>7, <3>1, <3>2, <3>3 DEF LoadTest
  <2>8. CASE LoadLibrary(t)
    BY <2>8, LoadMoved DEF LoadLibrary
  <2>9. CASE LoadReturn(t)
    <3>1. /\ UNCHANGED <<g_realDpnet, unlucky>> /\ got'[t] = g_realDpnet
          /\ \A u \in Threads \ {t} : got'[u] = got[u]
      BY <2>9 DEF LoadReturn, TypeOK
    <3>2. CASE pc[t] = "loaded"
      <4>1. Moved(t, "install", "nowhere")
        BY <2>9, <3>2, GoesMoved DEF LoadReturn, ReturnsHandle
      <4> QED BY <3>1, <4>1
    <3>3. CASE pc[t] = "reloaded"
      <4>1. Moved(t, "class", "nowhere") /\ Where(t) = "reloaded"
        BY <2>9, <3>3, GoesMoved DEF LoadReturn, ReturnsHandle
      <4> QED BY <3>1, <4>1
    <3> QED BY <2>9, <3>2, <3>3 DEF LoadReturn
  <2>10. CASE EnterInit(t)
    BY <2>10, CallsMoved DEF EnterInit, LockFree, MarksDone, Delegates
  <2>11. CASE InstallBegin(t)
    BY <2>11, GoesMoved, CallsMoved DEF InstallBegin, After, GivesUp
  <2>12. CASE Resolve(t)
    BY <2>12, GoesMoved, CallsMoved DEF Resolve, Proceeds, After, GivesUp
  <2>13. CASE CreateHook(t)
    BY <2>13, GoesMoved, CallsMoved DEF CreateHook, Proceeds, After, GivesUp
  <2>14. CASE EnableHook(t)
    BY <2>14, GoesMoved, CallsMoved DEF EnableHook, Proceeds, After, GivesUp
  <2>15. CASE InstallUPnP(t)
    BY <2>15, CallsMoved DEF InstallUPnP
  <2>16. CASE LeaveInit(t)
    BY <2>16, CallsMoved DEF LeaveInit, Delegates
  <2>17. CASE Answer(t) \/ Refused(t)
    BY <2>17, GoesMoved DEF Answer, Refused, Refuses
  <2> QED BY <1>2, <2>1, <2>2, <2>3, <2>4, <2>5, <2>6, <2>7, <2>8, <2>9, <2>10, <2>11, <2>12, <2>13, <2>14, <2>15, <2>16, <2>17 DEF Step
<1> QED BY <1>1, <1>2 DEF Next
-----------------------------------------------------------------------------
(* The theorems. *)

\* IInv holds in every state of ShimInit.
THEOREM Invariance == Spec => []IInv
<1>1. IInv /\ [Next]_vars => IInv'
  BY TypeStep, CallStep, LogStep, InstallStep, DetourStep, CauseStep DEF IInv
<1> QED BY InitInv, <1>1, PTL DEF Spec

\* Every variable keeps its type, and UPnPPorts_Install is called once at most.
THEOREM TypeCorrect == Spec => []TypeOK
<1>1. IInv => TypeOK
  BY DEF IInv
<1> QED BY Invariance, <1>1, PTL

\* No request passes EnsureInit while the first one is in it, although
\* g_initDone is set before the work is done.
THEOREM NoClassBeforeInit == Spec => []ClassAfterInit
<1>1. IInv => ClassAfterInit
  <2> SUFFICES ASSUME IInv, NEW t \in Threads,
                      {pc[t], back[t]} \intersect {"class", "reloaded", "refused"} # {}
               PROVE  InitOver
    BY DEF ClassAfterInit
  <2>1. PastInit(t)
    BY DEF IInv, CallInv, LogPlaces, LoadPlaces, PastInit, Where
  <2> QED BY <2>1 DEF IInv, InstallInv
<1> QED BY Invariance, <1>1, PTL

\* After EnsureInit everything has been installed once, however many asked first.
THEOREM InstallsOnce == Spec => []InstalledOnce
<1>1. IInv => InstalledOnce
  BY DEF IInv, InstallInv, InstalledOnce
<1> QED BY Invariance, <1>1, PTL

\* The critical section of the log is initialised once, without a lock.
THEOREM LogInitialisedOnce == Spec => []LogOnce
<1>1. IInv => LogOnce
  BY DEF IInv, LogInv, LogOnce, At
<1> QED BY Invariance, <1>1, PTL

\* A class is refused for want of the system's DLL only if a load failed.
THEOREM RefusalHasCause == Spec => []RefusedForCause
<1>1. IInv => RefusedForCause
  BY DEF IInv, CauseInv, RefusedForCause, At
<1> QED BY Invariance, <1>1, PTL

\* What hook_C430 depends on is there before the patch and does not change after.
THEOREM DetourIsReady == Spec => DetourReady
<1>1. ASSUME IInv, [Next]_vars, NEW t \in Threads,
             {pc[t], back[t]} \intersect {"hook_C430", "original"} # {}
      PROVE  orig_C430 /\ UNCHANGED <<resolved, orig_C430>>
  <2>1. hooked /\ orig_C430
    BY <1>1 DEF IInv, CallInv, LogPlaces, LoadPlaces, DetourInv, InDetour, Where
  <2>2. ASSUME NEW u \in Threads, Resolve(u) \/ CreateHook(u) PROVE FALSE
    <3>1. Where(u) \in {"resolve", "create"}
      BY <1>1, <2>2 DEF Resolve, CreateHook, At, IInv, CallInv, LogPlaces, LoadPlaces, Where
    <3> QED BY <1>1, <2>1, <3>1 DEF IInv, DetourInv
  <2>3. UNCHANGED <<resolved, orig_C430>>
    BY <1>1, <2>2 DEF Next, Step, vars, hookVars, LoadLogs, Request, CallC430, Detour, ReturnC430,
      Attach, Attached, LogTest, LogInit, LogWrite, LoadTest, LoadLibrary, LoadReturn, EnterInit,
      InstallBegin, EnableHook, InstallUPnP, LeaveInit, Answer, Refused
  <2> QED BY <2>1, <2>3
<1>2. IInv /\ [Next]_vars =>
        [\A t \in Threads : {pc[t], back[t]} \intersect {"hook_C430", "original"} # {}
           => orig_C430 /\ UNCHANGED <<resolved, orig_C430>>]_vars
  BY <1>1
<1> QED BY Invariance, <1>2, PTL DEF Spec, DetourReady
=============================================================================
