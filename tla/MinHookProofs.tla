---------------------------- MODULE MinHookProofs ----------------------------
(***************************************************************************)
(* IInv is an inductive invariant of MinHook, for any number of threads,   *)
(* functions and instructions, and the safety properties follow.  BookInv, *)
(* what concerns the entries, the lock and the suspended threads, needs    *)
(* nothing but the assumptions on the constants; RunInv, which tells where *)
(* the threads are, needs two hypotheses about the calls that are made and *)
(* about the failures, NeverAlone and FailsOnlyEnabling.                   *)
(***************************************************************************)
EXTENDS MinHook, TLAPS, FiniteSetTheorems, WellFoundedInduction

\* No entry before the first call.
LEMMA InitInv == Init => IInv
<1> SUFFICES ASSUME Init PROVE IInv
  OBVIOUS
<1>1. BookTypes /\ Len(g_hooks) = 0 /\ Positions = {}
  <2>1. g_hooks = <<>> /\ Len(g_hooks) = 0 /\ g_hooks \in Seq(Entry)
    BY DEF Init
  <2>2. 1 .. 0 = {}
    OBVIOUS
  <2>3. BookTypes
    BY <2>1 DEF Init, BookTypes
  <2> QED BY <2>1, <2>2, <2>3 DEF Positions
<1>2. CallTypes
  BY DEF Init, CallTypes
<1>3. RunTypes
  <2>1. 0 \in 0 .. MaxSuspends
    BY BoundsAssumption
  <2> QED BY <2>1, BoundsAssumption DEF Init, RunTypes, Places, Unborn, At
<1>4. Cardinality(Targets) \in Nat
  BY BoundsAssumption, FS_CardinalityType
<1>5. BookMatchesCode
  BY <1>1 DEF Init, BookMatchesCode
<1>6. LockInv
  <2>1. frozen = {}
    BY DEF Init, frozen
  <2> QED BY <2>1, BoundsAssumption DEF Init, LockInv
<1>7. DoneInv
  BY DEF Init, DoneInv
<1>8. RunInv
  BY DEF Init, RunInv, Sound, Unborn, At, Whole, Handled
<1> QED BY <1>1, <1>2, <1>3, <1>4, <1>5, <1>6, <1>7, <1>8 DEF IInv, BookInv, TypeOK

-----------------------------------------------------------------------------
(* The entries of g_hooks. *)

\* The used part of g_hooks, as a function.
LEMMA Entries ==
  ASSUME BookTypes
  PROVE  /\ Len(g_hooks) \in Nat /\ DOMAIN g_hooks = Positions /\ Positions = 1 .. Len(g_hooks)
         /\ Positions \subseteq Nat
         /\ \A i \in Positions :
              /\ g_hooks[i] \in Entry
              /\ g_hooks[i] = [target |-> g_hooks[i].target, isEnabled |-> g_hooks[i].isEnabled,
                               queueEnable |-> g_hooks[i].queueEnable]
              /\ g_hooks[i].target \in Targets /\ g_hooks[i].isEnabled \in BOOLEAN
              /\ g_hooks[i].queueEnable \in BOOLEAN
<1>1. Len(g_hooks) \in Nat /\ DOMAIN g_hooks = Positions /\ \A i \in Positions : g_hooks[i] \in Entry
  BY DEF BookTypes, Positions
<1>2. Positions \subseteq Nat
  BY <1>1 DEF Positions
<1> QED BY <1>1, <1>2 DEF Entry, Positions

\* With one entry for a function, there are no more entries than functions.
LEMMA EntriesBounded ==
  ASSUME NEW hooks \in Seq(Entry),
         \A i, j \in 1 .. Len(hooks) : hooks[i].target = hooks[j].target => i = j
  PROVE  Len(hooks) <= Cardinality(Targets)
<1> DEFINE places == 1 .. Len(hooks)
<1>1. Len(hooks) \in Nat /\ \A i \in places : hooks[i] \in Entry
  OBVIOUS
<1> DEFINE f == [i \in places |-> hooks[i].target]
<1>2. f \in Injection(places, Targets)
  <2>1. f \in [places -> Targets]
    BY <1>1 DEF Entry
  <2> QED BY <2>1 DEF Injection, IsInjective
<1>3. IsFiniteSet(places) /\ Cardinality(places) = Len(hooks)
  <2>1. Cardinality(1 .. Len(hooks)) = IF 1 > Len(hooks) THEN 0 ELSE Len(hooks) - 1 + 1
    BY <1>1, FS_Interval
  <2>2. IsFiniteSet(1 .. Len(hooks))
    BY <1>1, FS_Interval
  <2> QED BY <1>1, <2>1, <2>2
<1>4. Cardinality(places) <= Cardinality(Targets)
  BY <1>2, <1>3, BoundsAssumption, FS_Injection
<1> QED BY <1>3, <1>4

\* A set of positions that is not empty has a first one.
LEMMA HasLeast ==
  ASSUME NEW S \in SUBSET Nat, S # {}
  PROVE  \E i \in S : \A j \in S : i <= j
<1> DEFINE R == { p \in Nat \X Nat : p[1] < p[2] }
<1>1. IsWellFoundedOn(R, Nat)
  BY NatLessThanWellFounded, Zenon DEF OpToRel
<1>2. \A x, y \in Nat : <<x, y>> \in R <=> x < y
  OBVIOUS
<1> HIDE DEF R
<1>3. PICK i \in S : \A j \in S : ~(<<j, i>> \in R)
  BY <1>1, WFMin, Zenon
<1>4. ASSUME NEW j \in S PROVE i <= j
  <2>1. i \in Nat /\ j \in Nat /\ ~(j < i)
    BY <1>2, <1>3
  <2> QED BY <2>1
<1> QED BY <1>4

\* EnableHookLL takes an entry of the call that is not as wanted.
LEMMA NextIsPending ==
  ASSUME BookTypes, NEW c \in Callers, Pending(c) # {}
  PROVE  NextPending(c) \in Pending(c) /\ NextPending(c) \in Positions
<1>1. Pending(c) \subseteq Positions
  BY DEF Pending, Subject, FindHookEntry
<1>2. Pending(c) \in SUBSET Nat
  BY <1>1, Entries
<1>3. \E i \in Pending(c) : \A j \in Pending(c) : i <= j
  BY <1>2, HasLeast
<1> QED BY <1>1, <1>3 DEF NextPending

\* EnableHookLL switches one entry and writes the code of its function.
LEMMA OneSwitched ==
  ASSUME BookTypes, NEW c \in Callers, EnableHookLL(c)
  PROVE  \E i \in Pending(c), enable \in BOOLEAN :
           /\ i \in Positions /\ enable = Wanted(c, i)
           /\ g_hooks' \in Seq(Entry) /\ Positions' = Positions
           /\ \A j \in Positions :
                /\ g_hooks'[j].target = g_hooks[j].target
                /\ g_hooks'[j].isEnabled = IF j = i THEN enable ELSE g_hooks[j].isEnabled
                /\ g_hooks'[j].queueEnable = IF j = i THEN enable ELSE g_hooks[j].queueEnable
           /\ code' = IF enable THEN code \union {g_hooks[i].target} ELSE code \ {g_hooks[i].target}
           /\ code' \subseteq Targets
<1> DEFINE i == NextPending(c)
           enable == Wanted(c, i)
<1>1. i \in Pending(c) /\ i \in Positions
  BY NextIsPending DEF EnableHookLL
<1>2. enable \in BOOLEAN
  <2>1. g_hooks[i].queueEnable \in BOOLEAN
    BY <1>1, Entries
  <2> QED BY <2>1 DEF Wanted
<1>3. /\ g_hooks' = [g_hooks EXCEPT ![i].isEnabled = enable, ![i].queueEnable = enable]
      /\ code' = IF enable THEN code \union {g_hooks[i].target} ELSE code \ {g_hooks[i].target}
  BY DEF EnableHookLL
<1> HIDE DEF i, enable
<1>4. g_hooks' = [j \in Positions |-> IF j = i THEN [target |-> g_hooks[i].target,
                    isEnabled |-> enable, queueEnable |-> enable] ELSE g_hooks[j]]
  <2>1. g_hooks = [j \in Positions |-> g_hooks[j]]
    BY Entries DEF BookTypes
  <2>2. g_hooks[i] = [target |-> g_hooks[i].target, isEnabled |-> g_hooks[i].isEnabled,
                      queueEnable |-> g_hooks[i].queueEnable]
    BY <1>1, Entries
  <2>3. [g_hooks[i] EXCEPT !.isEnabled = enable] = [target |-> g_hooks[i].target,
          isEnabled |-> enable, queueEnable |-> g_hooks[i].queueEnable]
    BY <2>2
  <2>4. [g_hooks EXCEPT ![i].isEnabled = enable] = [j \in Positions |-> IF j = i
          THEN [g_hooks[i] EXCEPT !.isEnabled = enable] ELSE g_hooks[j]]
    BY <2>1
  <2>5. g_hooks' = [[g_hooks EXCEPT ![i].isEnabled = enable] EXCEPT ![i].queueEnable = enable]
    BY <1>3
  <2> DEFINE half == [target |-> g_hooks[i].target, isEnabled |-> enable, queueEnable |-> g_hooks[i].queueEnable]
             h == [j \in Positions |-> IF j = i THEN half ELSE g_hooks[j]]
  <2>6. g_hooks' = [h EXCEPT ![i].queueEnable = enable]
    BY <2>3, <2>4, <2>5
  <2>7. h[i] = half /\ [half EXCEPT !.queueEnable = enable] =
          [target |-> g_hooks[i].target, isEnabled |-> enable, queueEnable |-> enable]
    BY <1>1
  <2>8. g_hooks' = [j \in Positions |-> IF j = i THEN [h[i] EXCEPT !.queueEnable = enable] ELSE h[j]]
    BY <1>1, <2>6
  <2>9. \A j \in Positions : j # i => h[j] = g_hooks[j]
    OBVIOUS
  <2> HIDE DEF h, half
  <2> QED BY <2>7, <2>8, <2>9
<1>5. \A j \in Positions : g_hooks'[j] \in Entry
  BY <1>1, <1>2, <1>4, Entries DEF Entry
<1>6. g_hooks' \in [1 .. Len(g_hooks) -> Entry] /\ Len(g_hooks) \in Nat
  BY <1>4, <1>5, Entries
<1>7. g_hooks' \in Seq(Entry) /\ Len(g_hooks') = Len(g_hooks)
  BY <1>6
<1>8. Positions' = Positions
  BY <1>7 DEF Positions
<1>9. \A j \in Positions :
        /\ g_hooks'[j].target = g_hooks[j].target
        /\ g_hooks'[j].isEnabled = IF j = i THEN enable ELSE g_hooks[j].isEnabled
        /\ g_hooks'[j].queueEnable = IF j = i THEN enable ELSE g_hooks[j].queueEnable
  BY <1>4
<1>10. code' \subseteq Targets
  BY <1>1, <1>3, Entries DEF BookTypes
<1> QED BY <1>1, <1>2, <1>3, <1>7, <1>8, <1>9, <1>10 DEF enable

-----------------------------------------------------------------------------
(* How often threads are suspended. *)

\* Who is suspended depends on the counts only.
LEMMA SameFrozen == ASSUME UNCHANGED suspends PROVE frozen' = frozen
  BY DEF frozen

\* Freeze adds one to the count of a thread, or nothing.
LEMMA FreezeCounts ==
  ASSUME RunTypes, NEW c, NEW t \in Runners \union Callers, FreezeThread(c, t)
  PROVE  /\ suspends' \in [Runners \union Callers -> 0 .. MaxSuspends]
         /\ frozen \subseteq frozen' /\ frozen' \subseteq frozen \union {t}
         /\ \A u \in Runners \union Callers : u # t => suspends'[u] = suspends[u]
         /\ t \notin frozen /\ t \in frozen' => suspends'[t] = 1
         /\ t \in Runners \ missed' => t \in frozen' /\ ProcessThreadIPs(c, t)
<1>1. /\ suspends \in [Runners \union Callers -> 0 .. MaxSuspends]
      /\ MaxSuspends \in Nat \ {0} /\ suspends[t] \in 0 .. MaxSuspends
  BY BoundsAssumption DEF RunTypes
<1>2. CASE UNCHANGED suspends
  BY <1>1, <1>2, SameFrozen DEF FreezeThread, Suspended, frozen
<1>3. CASE suspends' = [suspends EXCEPT ![t] = Suspended(@)]
  <2>1. Suspended(suspends[t]) \in 0 .. MaxSuspends /\ Suspended(suspends[t]) > 0
        /\ (~(suspends[t] > 0) => Suspended(suspends[t]) = 1)
    BY <1>1 DEF Suspended
  <2>2. suspends'[t] = Suspended(suspends[t])
        /\ \A u \in Runners \union Callers : u # t => suspends'[u] = suspends[u]
    BY <1>1, <1>3
  <2>3. suspends' \in [Runners \union Callers -> 0 .. MaxSuspends]
    BY <1>1, <1>3, <2>1
  <2> HIDE DEF Suspended
  <2>4. t \in frozen' /\ (t \in frozen <=> suspends[t] > 0)
    BY <2>1, <2>2 DEF frozen
  <2>5. \A u : u # t => (u \in frozen' <=> u \in frozen)
    BY <2>2 DEF frozen
  <2>6. t \in Runners \ missed' => ProcessThreadIPs(c, t)
    BY DEF FreezeThread
  <2> QED BY <2>1, <2>2, <2>3, <2>4, <2>5, <2>6
<1> QED BY <1>2, <1>3 DEF FreezeThread

\* Unfreeze takes one from the count of a thread, or it cannot open the thread.
LEMMA ThawCounts ==
  ASSUME RunTypes, NEW c, NEW t \in Runners \union Callers, ThawThread(c, t), lost \subseteq frozen
  PROVE  /\ suspends' \in [Runners \union Callers -> 0 .. MaxSuspends]
         /\ frozen' \subseteq frozen /\ lost' \subseteq frozen'
         /\ frozen' \ lost' \subseteq frozen \ lost
         /\ \A u \in Runners \union Callers : u # t => suspends'[u] = suspends[u]
         /\ suspends[t] = 1 \/ t \in lost => t \notin frozen' \ lost'
<1>1. /\ suspends \in [Runners \union Callers -> 0 .. MaxSuspends]
      /\ MaxSuspends \in Nat \ {0} /\ suspends[t] \in 0 .. MaxSuspends
  BY BoundsAssumption DEF RunTypes
<1>2. CASE UNCHANGED suspends /\ lost' = lost \union ({t} \intersect frozen)
  <2>1. frozen' = frozen
    BY <1>2, SameFrozen
  <2> QED BY <1>1, <1>2, <2>1
<1>3. CASE suspends' = [suspends EXCEPT ![t] = Resumed(@)] /\ lost' = lost \intersect frozen'
  <2>1. /\ Resumed(suspends[t]) \in 0 .. MaxSuspends
        /\ Resumed(suspends[t]) > 0 => suspends[t] > 0
        /\ suspends[t] = 1 => ~(Resumed(suspends[t]) > 0)
    BY <1>1 DEF Resumed
  <2>2. suspends'[t] = Resumed(suspends[t])
        /\ \A u \in Runners \union Callers : u # t => suspends'[u] = suspends[u]
    BY <1>1, <1>3
  <2>3. suspends' \in [Runners \union Callers -> 0 .. MaxSuspends]
    BY <1>1, <1>3, <2>1
  <2>4. (t \in frozen' <=> Resumed(suspends[t]) > 0) /\ (t \in frozen <=> suspends[t] > 0)
    BY <2>2 DEF frozen
  <2>5. \A u : u # t => (u \in frozen' <=> u \in frozen)
    BY <2>2 DEF frozen
  <2>6. frozen' \subseteq frozen
    BY <2>1, <2>4, <2>5
  <2> QED BY <1>3, <2>1, <2>2, <2>3, <2>4, <2>6
<1> QED BY <1>2, <1>3 DEF ThawThread

-----------------------------------------------------------------------------
\* Every step keeps the types.
LEMMA TypesKept ==
  ASSUME BookInv, [Next]_vars
  PROVE  BookTypes' /\ CallTypes' /\ RunTypes'
<1> USE DEF bookVars, lockVars, heldVars, runVars
<1>0. BookTypes /\ CallTypes /\ RunTypes
  BY DEF BookInv, TypeOK
<1>1. CASE UNCHANGED vars
  BY <1>0, <1>1 DEF vars, BookTypes, CallTypes, RunTypes
<1>2. ASSUME NEW t \in Runners, RunStep(t) PROVE BookTypes' /\ CallTypes' /\ RunTypes'
  <2>1. BookTypes' /\ CallTypes'
    BY <1>0, <1>2 DEF RunStep, BookTypes, CallTypes
  <2>2. ASSUME NEW to \in [at : Places, f : Targets \union {All}, k : 0 .. N], Jumps(t, to) PROVE RunTypes'
    BY <1>0, <1>2, <2>2 DEF RunStep, RunTypes, Jumps
  <2>3. \E to \in [at : Places, f : Targets \union {All}, k : 0 .. N] : Jumps(t, to)
    <3> USE BoundsAssumption DEF At, Out, Unborn, Places
    <3>1. CASE Spawn(t)
      BY <3>1 DEF Spawn
    <3>2. ASSUME NEW f \in Targets,
                 CallTarget(t, f) \/ RunEntry(t, f) \/ RunAbove(t, f) \/ RunDetour(t, f)
          PROVE  \E to \in [at : Places, f : Targets \union {All}, k : 0 .. N] : Jumps(t, to)
      <4> HIDE DEF Places
      <4>1. \A where \in {"target", "above", "detour", "tramp", "fault"}, k \in 0 .. N :
              At(where, f, k) \in [at : Places, f : Targets \union {All}, k : 0 .. N]
        BY DEF Places
      <4>2. Out \in [at : Places, f : Targets \union {All}, k : 0 .. N]
        BY DEF Places
      <4>3. 0 \in 0 .. N /\ 1 \in 0 .. N
        OBVIOUS
      <4> HIDE DEF At, Out
      <4>4. CASE CallTarget(t, f) \/ RunEntry(t, f)
        BY <4>1, <4>2, <4>3, <4>4 DEF CallTarget, RunEntry
      <4>5. CASE RunAbove(t, f) \/ RunDetour(t, f)
        BY <4>1, <4>2, <4>3, <4>5 DEF RunAbove, RunDetour
      <4> QED BY <3>2, <4>4, <4>5
    <3>3. ASSUME NEW f \in Targets, NEW k \in 1 .. N, RunFunction(t, f, k)
          PROVE  \E to \in [at : Places, f : Targets \union {All}, k : 0 .. N] : Jumps(t, to)
      BY <3>3 DEF RunFunction
    <3>4. ASSUME NEW f \in Targets, NEW k \in 0 .. N, RunTrampoline(t, f, k)
          PROVE  \E to \in [at : Places, f : Targets \union {All}, k : 0 .. N] : Jumps(t, to)
      BY <3>4 DEF RunTrampoline
    <3> QED BY <1>2, <3>1, <3>2, <3>3, <3>4 DEF RunStep
  <2> QED BY <2>1, <2>2, <2>3
<1>3. ASSUME NEW c \in Callers, Begin(c) PROVE BookTypes' /\ CallTypes' /\ RunTypes'
  BY <1>0, <1>3 DEF Begin, CallerAt, CallerGoes, BookTypes, CallTypes, RunTypes
<1>4. ASSUME NEW c \in Callers, LibraryStep(c) PROVE BookTypes' /\ CallTypes' /\ RunTypes'
  <2> USE DEF CallerAt, CallerGoes
  <2>1. CASE EnterSpinLock(c) \/ LeaveSpinLock(c)
    BY <1>0, <2>1 DEF EnterSpinLock, LeaveSpinLock, BookTypes, CallTypes, RunTypes
  <2>2. CASE Initialize(c)
    BY <1>0, <2>2 DEF Initialize, CallIs, BookTypes, CallTypes, RunTypes
  <2>3. CASE CreateHook(c)
    <3>1. CallTypes' /\ RunTypes'
      BY <1>0, <2>3 DEF CreateHook, CallIs, CallTypes, RunTypes
    <3>2. CASE UNCHANGED <<g_hooks, slots>>
      BY <1>0, <2>3, <3>1, <3>2 DEF CreateHook, BookTypes
    <3>3. ASSUME op[c].target # All,
                 g_hooks' = Append(g_hooks, [target |-> op[c].target, isEnabled |-> FALSE, queueEnable |-> FALSE]),
                 slots' = slots \union {op[c].target}
          PROVE  BookTypes'
      <4>1. op[c] \in Calls
        <5>1. op[c] \in Calls \union {NoCall}
          BY <1>0 DEF CallTypes
        <5> QED BY <3>3, <5>1 DEF NoCall
      <4>2. op[c].target \in Targets
        BY <3>3, <4>1, CallsAssumption
      <4> QED BY <1>0, <2>3, <3>3, <4>2 DEF CreateHook, BookTypes, Entry
    <3> QED BY <2>3, <3>1, <3>2, <3>3 DEF CreateHook
  <2>4. CASE QueueHook(c)
    <3>1. CallTypes' /\ RunTypes'
      BY <1>0, <2>4 DEF QueueHook, CallIs, CallTypes, RunTypes
    <3>2. g_hooks' \in Seq(Entry)
      <4>1. PICK queueEnable \in BOOLEAN : g_hooks' = [i \in Positions |->
              IF i \in Subject(c) THEN [g_hooks[i] EXCEPT !.queueEnable = queueEnable] ELSE g_hooks[i]]
        BY <2>4 DEF QueueHook
      <4>2. \A i \in Positions : g_hooks[i] \in Entry /\ [g_hooks[i] EXCEPT !.queueEnable = queueEnable] \in Entry
        BY <1>0, Entries DEF Entry
      <4>3. g_hooks' \in [1 .. Len(g_hooks) -> Entry]
        BY <4>1, <4>2 DEF Positions
      <4> QED BY <1>0, <4>3, Entries
    <3> QED BY <1>0, <2>4, <3>1, <3>2 DEF QueueHook, BookTypes
  <2>5. CASE NothingToWrite(c) \/ AllFrozen(c) \/ AllWritten(c) \/ ProtectFails(c) \/ AllThawed(c)
    BY <1>0, <2>5
       DEF NothingToWrite, AllFrozen, AllWritten, ProtectFails, Breaks, AllThawed, BookTypes, CallTypes, RunTypes
  <2>6. CASE EnumerateThreads(c)
    <3>1. pItems' \subseteq Runners \union Callers
      BY <2>6 DEF EnumerateThreads, Alive
    <3> QED BY <1>0, <2>6, <3>1 DEF EnumerateThreads, BookTypes, CallTypes, RunTypes
  <2>7. ASSUME NEW t \in Runners \union Callers, FreezeThread(c, t)
        PROVE  BookTypes' /\ CallTypes' /\ RunTypes'
    <3>1. BookTypes' /\ CallTypes'
      BY <1>0, <2>7 DEF FreezeThread, BookTypes, CallTypes
    <3>2. ip' \in [Runners -> [at : Places, f : Targets \union {All}, k : 0 .. N]]
      <4>1. CASE UNCHANGED ip
        BY <1>0, <4>1 DEF RunTypes
      <4>2. ASSUME NEW i \in Changing(c), t \in Runners,
                   Jumps(t, IF Announced(c, i) THEN FindNewIP(ip[t].f, ip[t]) ELSE FindOldIP(ip[t].f, ip[t]))
            PROVE  ip' \in [Runners -> [at : Places, f : Targets \union {All}, k : 0 .. N]]
        <5>1. ip[t] \in [at : Places, f : Targets \union {All}, k : 0 .. N]
          BY <1>0, <4>2 DEF RunTypes
        <5>2. /\ FindNewIP(ip[t].f, ip[t]) \in [at : Places, f : Targets \union {All}, k : 0 .. N]
              /\ FindOldIP(ip[t].f, ip[t]) \in [at : Places, f : Targets \union {All}, k : 0 .. N]
          BY <5>1 DEF FindNewIP, FindOldIP, At, Places
        <5> QED BY <1>0, <4>2, <5>2 DEF Jumps, RunTypes
      <4> QED BY <2>7, <4>1, <4>2 DEF FreezeThread, ProcessThreadIPs
    <3>3. suspends' \in [Runners \union Callers -> 0 .. MaxSuspends]
      BY <1>0, <2>7, FreezeCounts
    <3>4. UNCHANGED lost /\ missed' \subseteq Runners
      BY <1>0, <2>7 DEF FreezeThread, RunTypes
    <3> QED BY <1>0, <3>1, <3>2, <3>3, <3>4 DEF RunTypes
  <2>8. ASSUME NEW t \in Runners \union Callers, ThawThread(c, t)
        PROVE  BookTypes' /\ CallTypes' /\ RunTypes'
    <3>1. lost \subseteq frozen /\ frozen \subseteq Runners \union Callers
      BY DEF BookInv, LockInv, frozen
    <3>2. suspends' \in [Runners \union Callers -> 0 .. MaxSuspends] /\ lost' \subseteq Runners \union Callers
      BY <1>0, <2>8, <3>1, ThawCounts
    <3>3. BookTypes' /\ CallTypes'
      BY <1>0, <2>8 DEF ThawThread, BookTypes, CallTypes
    <3>4. UNCHANGED <<ip, missed>>
      BY <2>8 DEF ThawThread
    <3> QED BY <1>0, <3>2, <3>3, <3>4 DEF RunTypes
  <2>9. CASE EnableHookLL(c)
    <3>1. g_hooks' \in Seq(Entry) /\ code' \subseteq Targets
      BY <1>0, <2>9, OneSwitched
    <3> QED BY <1>0, <2>9, <3>1 DEF EnableHookLL, Alive, BookTypes, CallTypes, RunTypes
  <2>10. CASE RemoveHook(c)
    <3>1. g_hooks' \in Seq(Entry)
      <4>1. PICK i \in Subject(c) : g_hooks' = DeleteHookEntry(i)
        BY <2>10 DEF RemoveHook
      <4>2. i \in Positions /\ Len(g_hooks) \in Nat /\ Len(g_hooks) - 1 \in Nat
        BY <1>0, <4>1, Entries DEF Subject, FindHookEntry
      <4>3. g_hooks' \in [1 .. Len(g_hooks) - 1 -> Entry]
        BY <1>0, <4>1, <4>2, Entries DEF DeleteHookEntry, Positions
      <4> QED BY <4>2, <4>3
    <3> QED BY <1>0, <2>10, <3>1 DEF RemoveHook, Frees, BoundFor, BookTypes, CallTypes, RunTypes
  <2>11. CASE Uninitialize(c)
    <3>1. <<>> \in Seq(Entry)
      OBVIOUS
    <3> QED BY <1>0, <2>11, <3>1 DEF Uninitialize, Frees, BoundFor, BookTypes, CallTypes, RunTypes
  <2>12. CASE FreesNothing(c)
    BY <1>0, <2>12 DEF FreesNothing, BookTypes, CallTypes, RunTypes
  <2> QED BY <1>4, <2>1, <2>2, <2>3, <2>4, <2>5, <2>6, <2>7, <2>8, <2>9, <2>10, <2>11, <2>12 DEF LibraryStep
<1> QED BY <1>1, <1>2, <1>3, <1>4 DEF Next

\* The spin lock is held from EnterSpinLock to LeaveSpinLock.
LEMMA OneOwner ==
  ASSUME CallTypes, LockInv, NEW c \in Callers, mpc[c] \notin {"idle", "spin"}
  PROVE  g_isLocked = c /\ \A d \in Callers \ {c} : mpc[d] \in {"idle", "spin"}
  BY DEF LockInv, CallTypes

\* Every step keeps the discipline of the lock and of the list of threads.
LEMMA LockKept ==
  ASSUME BookInv, [Next]_vars
  PROVE  LockInv'
<1> USE DEF bookVars, lockVars, heldVars, runVars
<1>0. CallTypes /\ RunTypes /\ LockInv /\ (UNCHANGED suspends => frozen' = frozen)
  BY SameFrozen DEF BookInv, TypeOK
<1>1. CASE UNCHANGED vars
  BY <1>0, <1>1 DEF vars, LockInv
<1>2. ASSUME NEW t \in Runners, RunStep(t) PROVE LockInv'
  BY <1>0, <1>2 DEF RunStep, LockInv
<1>3. ASSUME NEW c \in Callers, Begin(c) PROVE LockInv'
  BY <1>0, <1>3 DEF Begin, CallerAt, CallerGoes, LockInv, CallTypes
<1>4. ASSUME NEW c \in Callers, LibraryStep(c) PROVE LockInv'
  <2> USE DEF CallerAt, CallerGoes
  <2>1. CASE EnterSpinLock(c)
    <3>1. \A d \in Callers : mpc[d] \in {"idle", "spin"}
      BY <1>0, <2>1, BoundsAssumption DEF EnterSpinLock, LockIsFree, LockInv, CallTypes
    <3>2. pItems = {} /\ frozen \ lost = {}
      BY <1>0, <3>1 DEF LockInv
    <3> QED BY <1>0, <2>1, <3>1, <3>2, BoundsAssumption DEF EnterSpinLock, LockInv, CallTypes
  <2>2. CASE LeaveSpinLock(c)
    <3>1. \A d \in Callers \ {c} : mpc[d] \in {"idle", "spin"}
      BY <1>0, <2>2, OneOwner DEF LeaveSpinLock
    <3>2. pItems = {} /\ frozen \ lost = {}
      BY <1>0, <2>2, <3>1 DEF LeaveSpinLock, LockInv
    <3>3. NoOne \notin frozen
      BY BoundsAssumption DEF frozen
    <3> QED BY <1>0, <2>2, <3>1, <3>2, <3>3, BoundsAssumption DEF LeaveSpinLock, LockInv, CallTypes
  <2> SUFFICES ASSUME ~EnterSpinLock(c), ~LeaveSpinLock(c) PROVE LockInv'
    BY <2>1, <2>2
  <2>3. mpc[c] \notin {"idle", "spin"}
    BY <1>4 DEF LibraryStep, Initialize, CreateHook, QueueHook, NothingToWrite, EnumerateThreads, FreezeThread,
                ThawThread, AllFrozen, EnableHookLL, ProtectFails, AllWritten, AllThawed, RemoveHook,
                Uninitialize, FreesNothing, CallIs, Writes, Frees
  <2>4. g_isLocked = c /\ \A d \in Callers \ {c} : mpc[d] \in {"idle", "spin"}
    BY <1>0, <2>3, OneOwner
  <2>5. CASE Initialize(c) \/ CreateHook(c) \/ QueueHook(c)
    BY <1>0, <2>4, <2>5 DEF Initialize, CreateHook, QueueHook, CallIs, LockInv, CallTypes
  <2>6. CASE NothingToWrite(c)
    BY <1>0, <2>4, <2>6 DEF NothingToWrite, Writes, LockInv, CallTypes
  <2>7. CASE EnumerateThreads(c)
    <3>1. frozen \ lost = {}
      BY <1>0, <2>4, <2>7 DEF EnumerateThreads, Writes, LockInv
    <3>2. pItems' \subseteq Runners \union (Callers \ {c}) /\ left' = pItems'
      BY <2>7 DEF EnumerateThreads, Alive
    <3> QED BY <1>0, <2>4, <2>7, <3>1, <3>2, BoundsAssumption DEF EnumerateThreads, Writes, LockInv, CallTypes
  <2>8. ASSUME NEW t \in Runners \union Callers, FreezeThread(c, t) PROVE LockInv'
    <3>1. /\ mpc[c] = "freeze" /\ t \in left /\ t \in pItems /\ left' = left \ {t}
          /\ UNCHANGED <<mpc, op, g_isLocked, pItems, lost>>
      BY <1>0, <2>8 DEF FreezeThread, CallTypes
    <3>2. /\ frozen \subseteq frozen' /\ frozen' \subseteq frozen \union {t}
          /\ \A u \in Runners \union Callers : u # t => suspends'[u] = suspends[u]
          /\ t \notin frozen /\ t \in frozen' => suspends'[t] = 1
      BY <1>0, <2>8, FreezeCounts
    <3>3. t \notin frozen \ lost /\ frozen' \subseteq Runners \union Callers
      BY <1>0, <3>1 DEF LockInv, frozen
    <3>4. \A u \in frozen' \ lost : suspends'[u] = 1
      BY <1>0, <3>2, <3>3 DEF LockInv
    <3>5. (frozen' \ lost) \intersect left' = {}
      BY <1>0, <3>1, <3>2 DEF LockInv
    <3>6. g_isLocked \notin pItems \union frozen' /\ lost \subseteq frozen' /\ frozen' \ lost \subseteq pItems
      BY <1>0, <3>1, <3>2 DEF LockInv
    <3> QED BY <1>0, <2>4, <3>1, <3>4, <3>5, <3>6 DEF LockInv
  <2>9. ASSUME NEW t \in Runners \union Callers, ThawThread(c, t) PROVE LockInv'
    <3>1. /\ mpc[c] = "thaw" /\ t \in left /\ left' = left \ {t}
          /\ UNCHANGED <<mpc, op, g_isLocked, pItems>>
      BY <2>9 DEF ThawThread
    <3>2. /\ lost \subseteq frozen /\ frozen \ lost \subseteq left
          /\ t \in frozen \ lost => suspends[t] = 1
      BY <1>0, <3>1 DEF LockInv
    <3>3. /\ frozen' \subseteq frozen /\ lost' \subseteq frozen'
          /\ frozen' \ lost' \subseteq frozen \ lost
          /\ \A u \in Runners \union Callers : u # t => suspends'[u] = suspends[u]
          /\ suspends[t] = 1 \/ t \in lost => t \notin frozen' \ lost'
      BY <1>0, <2>9, <3>2, ThawCounts
    <3>4. t \notin frozen' \ lost' /\ frozen \subseteq Runners \union Callers
      BY <3>2, <3>3 DEF frozen
    <3>5. \A u \in frozen' \ lost' : suspends'[u] = 1
      BY <1>0, <3>3, <3>4 DEF LockInv
    <3>6. frozen' \ lost' \subseteq left'
      BY <3>1, <3>2, <3>3, <3>4
    <3>7. g_isLocked \notin pItems \union frozen' /\ frozen' \ lost' \subseteq pItems
      BY <1>0, <3>3 DEF LockInv
    <3> QED BY <1>0, <2>4, <3>1, <3>3, <3>5, <3>6, <3>7 DEF LockInv
  <2>10. CASE AllFrozen(c) \/ AllWritten(c) \/ ProtectFails(c)
    BY <1>0, <2>4, <2>10 DEF AllFrozen, AllWritten, ProtectFails, Breaks, LockInv, CallTypes
  <2>11. CASE EnableHookLL(c)
    BY <1>0, <2>4, <2>11 DEF EnableHookLL, LockInv
  <2>12. CASE AllThawed(c)
    BY <1>0, <2>4, <2>12 DEF AllThawed, LockInv, CallTypes
  <2>13. CASE RemoveHook(c) \/ Uninitialize(c) \/ FreesNothing(c)
    BY <1>0, <2>4, <2>13 DEF RemoveHook, Uninitialize, FreesNothing, Frees, LockInv, CallTypes
  <2> QED BY <1>4, <2>5, <2>6, <2>7, <2>8, <2>9, <2>10, <2>11, <2>12, <2>13 DEF LibraryStep
<1> QED BY <1>1, <1>2, <1>3, <1>4 DEF Next

-----------------------------------------------------------------------------
(* The entries and the code. *)

\* What a call is to write depends on the entries and on the call.
LEMMA SamePending ==
  ASSUME NEW c \in Callers, UNCHANGED g_hooks, op'[c] = op[c]
  PROVE  Pending(c)' = Pending(c) /\ Subject(c)' = Subject(c)
  BY DEF Pending, Subject, FindHookEntry, Positions, Wanted

\* In every state in which a call has written what it was to write, it has none left.
LEMMA DoneKept ==
  ASSUME BookInv, [Next]_vars
  PROVE  DoneInv'
<1> USE DEF bookVars, lockVars, heldVars, runVars
<1>0. CallTypes /\ RunTypes /\ LockInv /\ DoneInv
  BY DEF BookInv, TypeOK
<1>1. ASSUME UNCHANGED <<g_hooks, mpc, op, ok>> PROVE DoneInv'
  <2>1. \A c \in Callers : Pending(c)' = Pending(c)
    BY <1>1, SamePending
  <2> QED BY <1>0, <1>1, <2>1 DEF DoneInv
<1>2. CASE UNCHANGED vars \/ \E t \in Runners : RunStep(t)
  BY <1>1, <1>2 DEF vars, RunStep
<1>3. ASSUME NEW c \in Callers, Begin(c) PROVE DoneInv'
  <2>1. UNCHANGED <<g_hooks, ok>> /\ mpc'[c] = "spin"
        /\ \A d \in Callers \ {c} : op'[d] = op[d] /\ mpc'[d] = mpc[d]
    BY <1>0, <1>3 DEF Begin, CallerAt, CallerGoes, CallTypes
  <2>2. \A d \in Callers \ {c} : Pending(d)' = Pending(d)
    BY <2>1, SamePending
  <2> QED BY <1>0, <2>1, <2>2 DEF DoneInv
<1>4. ASSUME NEW c \in Callers, LibraryStep(c) PROVE DoneInv'
  <2> USE DEF CallerAt, CallerGoes
  <2>1. CASE EnterSpinLock(c)
    <3>1. \A d \in Callers : mpc[d] \in {"idle", "spin"}
      BY <1>0, <2>1, BoundsAssumption DEF EnterSpinLock, LockIsFree, LockInv, CallTypes
    <3> QED BY <1>0, <2>1, <3>1 DEF EnterSpinLock, DoneInv, CallTypes
  <2> SUFFICES ASSUME ~EnterSpinLock(c) PROVE DoneInv'
    BY <2>1
  <2>2. mpc[c] \notin {"idle", "spin"}
    BY <1>4 DEF LibraryStep, Initialize, CreateHook, QueueHook, NothingToWrite, EnumerateThreads, FreezeThread,
                ThawThread, AllFrozen, EnableHookLL, ProtectFails, AllWritten, AllThawed, RemoveHook,
                Uninitialize, FreesNothing, LeaveSpinLock, CallIs, Writes, Frees
  <2>3. \A d \in Callers \ {c} : mpc[d] \in {"idle", "spin"}
    BY <1>0, <2>2, OneOwner
  <2>4. CASE Initialize(c) \/ CreateHook(c) \/ QueueHook(c) \/ RemoveHook(c) \/ Uninitialize(c) \/ FreesNothing(c)
             \/ LeaveSpinLock(c) \/ EnumerateThreads(c) \/ AllFrozen(c)
    <3>1. mpc' \in [Callers -> {"idle", "spin", "leave", "freeze", "patch"}]
      BY <1>0, <2>3, <2>4
         DEF Initialize, CreateHook, QueueHook, RemoveHook, Uninitialize, FreesNothing, LeaveSpinLock,
             EnumerateThreads, AllFrozen, CallTypes
    <3> QED BY <3>1 DEF DoneInv
  <2>5. CASE EnableHookLL(c)
    BY <1>0, <2>3, <2>5 DEF EnableHookLL, DoneInv, CallTypes
  <2>6. CASE NothingToWrite(c) \/ AllWritten(c)
    <3>1. Pending(c)' = {}
      BY <2>6, SamePending DEF NothingToWrite, AllWritten
    <3> QED BY <1>0, <2>3, <2>6, <3>1 DEF NothingToWrite, AllWritten, DoneInv, CallTypes
  <2>7. CASE AllThawed(c)
    <3>1. Pending(c)' = Pending(c)
      BY <2>7, SamePending DEF AllThawed
    <3> QED BY <1>0, <2>3, <2>7, <3>1 DEF AllThawed, DoneInv, CallTypes
  <2>8. CASE ProtectFails(c)
    BY <1>0, <2>3, <2>8 DEF ProtectFails, Breaks, DoneInv, CallTypes
  <2>9. ASSUME NEW t \in Runners \union Callers, FreezeThread(c, t) \/ ThawThread(c, t) PROVE DoneInv'
    BY <1>1, <2>9 DEF FreezeThread, ThawThread
  <2> QED BY <1>4, <2>4, <2>5, <2>6, <2>7, <2>8, <2>9 DEF LibraryStep
<1> QED BY <1>2, <1>3, <1>4 DEF Next

\* RemoveHook keeps all entries but one, and each of them once.
LEMMA OneDeleted ==
  ASSUME BookTypes, NEW i \in Positions, g_hooks' = DeleteHookEntry(i)
  PROVE  \E from \in [Positions' -> Positions \ {i}] :
           /\ \A j \in Positions' : g_hooks'[j] = g_hooks[from[j]]
           /\ \A j, k \in Positions' : from[j] = from[k] => j = k
           /\ \A k \in Positions \ {i} : \E j \in Positions' : from[j] = k
<1> DEFINE n == Len(g_hooks)
           from == [j \in Positions' |-> IF j = i THEN n ELSE j]
<1>1. n \in Nat /\ n - 1 \in Nat /\ i \in 1 .. n
  BY Entries
<1>2. g_hooks' = [j \in 1 .. n - 1 |-> IF j = i THEN g_hooks[n] ELSE g_hooks[j]]
  BY DEF DeleteHookEntry
<1>3. Positions' = 1 .. n - 1
  <2>1. Len(g_hooks') = n - 1
    BY <1>1, <1>2
  <2> QED BY <2>1 DEF Positions
<1>4. Positions = 1 .. n
  BY DEF Positions
<1> HIDE DEF n
<1>5. from \in [Positions' -> Positions \ {i}]
  BY <1>1, <1>3, <1>4
<1>6. \A j \in Positions' : g_hooks'[j] = g_hooks[from[j]]
  BY <1>1, <1>2, <1>3
<1>7. \A j, k \in Positions' : from[j] = from[k] => j = k
  BY <1>1, <1>3
<1>8. ASSUME NEW k \in Positions \ {i} PROVE \E j \in Positions' : from[j] = k
  <2>1. CASE k = n
    BY <1>1, <1>3, <1>4, <1>8, <2>1
  <2>2. CASE k # n
    BY <1>1, <1>3, <1>4, <1>8, <2>2
  <2> QED BY <2>1, <2>2
<1> QED BY <1>5, <1>6, <1>7, <1>8

\* The entries, function by function.
OneEntryEach ==
  /\ \A f \in Targets : f \in code <=> \E i \in Positions : g_hooks[i].target = f /\ g_hooks[i].isEnabled
  /\ \A f \in Targets : f \in slots <=> \E i \in Positions : g_hooks[i].target = f
  /\ \A i, j \in Positions : g_hooks[i].target = g_hooks[j].target => i = j

\* BookMatchesCode speaks of sets; this, of each entry.
LEMMA BookMeansEach ==
  ASSUME BookTypes, BookMatchesCode
  PROVE  OneEntryEach
<1>1. \A i \in Positions : g_hooks[i].target \in Targets
  BY Entries
<1> QED BY <1>1 DEF BookMatchesCode, OneEntryEach, BookTypes

\* And back.
LEMMA BookFromEach ==
  ASSUME BookTypes', OneEntryEach'
  PROVE  BookMatchesCode'
<1>1. \A i \in Positions' : g_hooks'[i].target \in Targets
  <2>1. \A i \in Positions' : g_hooks'[i] \in Entry
    BY DEF BookTypes, Positions
  <2> QED BY <2>1 DEF Entry
<1>2. code' = { g_hooks'[i].target : i \in { j \in Positions' : g_hooks'[j].isEnabled } }
  BY <1>1 DEF OneEntryEach, BookTypes
<1>3. slots' = { g_hooks'[i].target : i \in Positions' }
  BY <1>1 DEF OneEntryEach, BookTypes
<1> QED BY <1>2, <1>3 DEF BookMatchesCode, OneEntryEach

\* What RemoveHook and Uninitialize free is disabled.
LEMMA FreedIsDisabled ==
  ASSUME BookInv, NEW c \in Callers, Frees(c, "RemoveHook") \/ Frees(c, "Uninitialize"), NEW i \in Subject(c)
  PROVE  i \in Positions /\ g_hooks[i].isEnabled = FALSE
<1>1. Pending(c) = {}
  BY DEF BookInv, DoneInv, Frees, CallerAt, MayFree
<1>2. i \in Positions
  BY DEF Subject, FindHookEntry
<1>3. g_hooks[i].isEnabled \in BOOLEAN
  BY <1>2, Entries DEF BookInv, TypeOK
<1>4. Wanted(c, i) = FALSE
  BY DEF Wanted, Frees
<1> QED BY <1>1, <1>2, <1>3, <1>4 DEF Pending

\* Every step keeps the entries and the code in agreement.
LEMMA BookKept ==
  ASSUME BookInv, [Next]_vars
  PROVE  BookMatchesCode'
<1> USE DEF bookVars, lockVars, heldVars, runVars
<1>0. BookTypes /\ CallTypes /\ BookTypes' /\ OneEntryEach
  BY TypesKept, BookMeansEach DEF BookInv, TypeOK
<1>1. CASE UNCHANGED <<g_hooks, slots, code>>
  BY <1>1 DEF BookInv, BookMatchesCode, Positions
<1>2. CASE UNCHANGED vars \/ \E t \in Runners : RunStep(t)
  BY <1>1, <1>2 DEF vars, RunStep
<1>3. ASSUME NEW c \in Callers, Begin(c) \/ LibraryStep(c) PROVE BookMatchesCode'
  <2>1. CASE CreateHook(c)
    <3>1. CASE UNCHANGED <<g_hooks, slots>>
      BY <1>1, <2>1, <3>1 DEF CreateHook
    <3>2. ASSUME IsNew(op[c].target),
                 g_hooks' = Append(g_hooks, [target |-> op[c].target, isEnabled |-> FALSE, queueEnable |-> FALSE]),
                 slots' = slots \union {op[c].target}
          PROVE  BookMatchesCode'
      <4>1. DOMAIN g_hooks' = 1 .. Len(g_hooks) + 1 /\ Len(g_hooks') = Len(g_hooks) + 1
        BY <1>0, <3>2 DEF BookTypes
      <4>2. Positions' = Positions \union {Len(g_hooks) + 1} /\ Len(g_hooks) + 1 \notin Positions
        BY <1>0, <4>1, Entries DEF Positions
      <4>3. /\ \A i \in Positions : g_hooks'[i] = g_hooks[i]
            /\ g_hooks'[Len(g_hooks) + 1].target = op[c].target
            /\ g_hooks'[Len(g_hooks) + 1].isEnabled = FALSE
        BY <1>0, <3>2, Entries DEF BookTypes
      <4>4. \A i \in Positions : g_hooks[i].target # op[c].target
        BY <3>2 DEF IsNew, FindHookEntry
      <4>5. OneEntryEach'
        <5>1. code' = code
          BY <2>1 DEF CreateHook
        <5> DEFINE last == Len(g_hooks) + 1
        <5>2. Positions' = Positions \union {last} /\ last \notin Positions
          BY <4>2
        <5> HIDE DEF last
        <5>3. /\ \A i \in Positions : g_hooks'[i].target = g_hooks[i].target
                                        /\ g_hooks'[i].isEnabled = g_hooks[i].isEnabled
              /\ g_hooks'[last].target = op[c].target /\ g_hooks'[last].isEnabled = FALSE
          BY <4>3 DEF last
        <5>4. \A i, j \in Positions' : g_hooks'[i].target = g_hooks'[j].target => i = j
          BY <1>0, <4>4, <5>2, <5>3 DEF OneEntryEach
        <5>5. \A f \in Targets : f \in slots' <=> \E i \in Positions' : g_hooks'[i].target = f
          <6>1. \A f \in Targets : f \in slots <=> \E i \in Positions : g_hooks[i].target = f
            BY <1>0 DEF OneEntryEach
          <6>2. \A f \in Targets : (\E i \in Positions' : g_hooks'[i].target = f) <=>
                  (\E i \in Positions : g_hooks[i].target = f) \/ f = op[c].target
            BY <5>2, <5>3
          <6> QED BY <3>2, <6>1, <6>2
        <5>6. ASSUME NEW f \in Targets
              PROVE  f \in code' <=> \E i \in Positions' : g_hooks'[i].target = f /\ g_hooks'[i].isEnabled
          <6>1. f \in code <=> \E i \in Positions : g_hooks[i].target = f /\ g_hooks[i].isEnabled
            BY <1>0 DEF OneEntryEach
          <6>2. ASSUME NEW i \in Positions', g_hooks'[i].target = f, g_hooks'[i].isEnabled
                PROVE  f \in code
            <7>1. i # last
              BY <5>3, <6>2
            <7> QED BY <5>2, <5>3, <6>1, <6>2, <7>1
          <6>3. ASSUME NEW i \in Positions, g_hooks[i].target = f, g_hooks[i].isEnabled
                PROVE  i \in Positions' /\ g_hooks'[i].target = f /\ g_hooks'[i].isEnabled
            BY <5>2, <5>3, <6>3
          <6> QED BY <5>1, <6>1, <6>2, <6>3
        <5> QED BY <5>4, <5>5, <5>6 DEF OneEntryEach
      <4> QED BY <1>0, <4>5, BookFromEach
    <3> QED BY <2>1, <3>1, <3>2 DEF CreateHook
  <2>2. CASE QueueHook(c)
    <3>1. PICK queueEnable \in BOOLEAN : g_hooks' = [i \in Positions |->
            IF i \in Subject(c) THEN [g_hooks[i] EXCEPT !.queueEnable = queueEnable] ELSE g_hooks[i]]
      BY <2>2 DEF QueueHook
    <3>2. Positions' = Positions
      <4>1. Len(g_hooks') = Len(g_hooks)
        BY <1>0, <3>1, Entries
      <4> QED BY <4>1 DEF Positions
    <3>3. \A i \in Positions : g_hooks'[i].target = g_hooks[i].target
                                 /\ g_hooks'[i].isEnabled = g_hooks[i].isEnabled
      BY <1>0, <3>1, Entries DEF Entry
    <3>4. UNCHANGED <<code, slots>>
      BY <2>2 DEF QueueHook
    <3> QED BY <3>2, <3>3, <3>4 DEF BookInv, BookMatchesCode
  <2>3. CASE EnableHookLL(c)
    <3>1. OneEntryEach'
      <4>1. PICK i \in Pending(c), enable \in BOOLEAN :
              /\ i \in Positions /\ enable = Wanted(c, i)
              /\ Positions' = Positions
              /\ \A j \in Positions :
                   /\ g_hooks'[j].target = g_hooks[j].target
                   /\ g_hooks'[j].isEnabled = IF j = i THEN enable ELSE g_hooks[j].isEnabled
              /\ code' = IF enable THEN code \union {g_hooks[i].target} ELSE code \ {g_hooks[i].target}
        BY <1>0, <2>3, OneSwitched
      <4>2. slots' = slots
        BY <2>3 DEF EnableHookLL
      <4> QED BY <1>0, <4>1, <4>2 DEF OneEntryEach
    <3> QED BY <1>0, <3>1, BookFromEach
  <2>4. CASE RemoveHook(c)
    <3>1. PICK i \in Subject(c) : g_hooks' = DeleteHookEntry(i) /\ slots' = slots \ {g_hooks[i].target}
      BY <2>4 DEF RemoveHook
    <3>2. i \in Positions /\ g_hooks[i].isEnabled = FALSE
      BY <2>4, FreedIsDisabled DEF RemoveHook
    <3>3. PICK from \in [Positions' -> Positions \ {i}] :
            /\ \A j \in Positions' : g_hooks'[j] = g_hooks[from[j]]
            /\ \A j, k \in Positions' : from[j] = from[k] => j = k
            /\ \A k \in Positions \ {i} : \E j \in Positions' : from[j] = k
      BY <1>0, <3>1, <3>2, OneDeleted
    <3>4. code' = code
      BY <2>4 DEF RemoveHook
    <3>5. OneEntryEach'
      BY <1>0, <3>1, <3>2, <3>3, <3>4 DEF OneEntryEach
    <3> QED BY <1>0, <3>5, BookFromEach
  <2>5. CASE Uninitialize(c)
    <3>1. Subject(c) = Positions
      <4>1. op[c] \in Calls
        BY <1>0, <2>5 DEF Uninitialize, Frees, CallTypes, NoCall
      <4> QED BY <2>5, <4>1, CallsAssumption DEF Uninitialize, Frees, Subject
    <3>2. \A i \in Positions : g_hooks[i].isEnabled = FALSE
      BY <2>5, <3>1, FreedIsDisabled DEF Uninitialize
    <3>3. code = {}
      BY <1>0, <3>2 DEF OneEntryEach, BookTypes
    <3>4. Positions' = {}
      <4>1. Len(g_hooks') = 0 /\ 1 .. 0 = {}
        BY <2>5 DEF Uninitialize
      <4> QED BY <4>1 DEF Positions
    <3> QED BY <2>5, <3>3, <3>4 DEF Uninitialize, BookMatchesCode
  <2>6. CASE \/ Begin(c) \/ EnterSpinLock(c) \/ Initialize(c) \/ NothingToWrite(c) \/ EnumerateThreads(c)
             \/ AllFrozen(c) \/ ProtectFails(c) \/ AllWritten(c) \/ AllThawed(c) \/ FreesNothing(c) \/ LeaveSpinLock(c)
             \/ \E t \in Runners \union Callers : FreezeThread(c, t) \/ ThawThread(c, t)
    BY <1>1, <2>6 DEF Begin, EnterSpinLock, Initialize, NothingToWrite, EnumerateThreads, AllFrozen, ProtectFails,
                      AllWritten, AllThawed, FreesNothing, LeaveSpinLock, FreezeThread, ThawThread
  <2> QED BY <1>3, <2>1, <2>2, <2>3, <2>4, <2>5, <2>6 DEF LibraryStep
<1> QED BY <1>2, <1>3 DEF Next

\* Every step keeps BookInv, whatever is called and whatever fails.
LEMMA BookStep ==
  ASSUME BookInv, [Next]_vars
  PROVE  BookInv'
<1>1. BookTypes' /\ CallTypes' /\ RunTypes'
  BY TypesKept
<1>2. BookMatchesCode'
  BY BookKept
<1>3. LockInv' /\ DoneInv'
  BY LockKept, DoneKept
<1>4. g_hooks' \in Seq(Entry)
      /\ \A i, j \in 1 .. Len(g_hooks') : g_hooks'[i].target = g_hooks'[j].target => i = j
  BY <1>1, <1>2 DEF BookTypes, BookMatchesCode, Positions
<1>5. Len(g_hooks') <= Cardinality(Targets)
  BY <1>4, EntriesBounded
<1> QED BY <1>1, <1>2, <1>3, <1>5 DEF BookInv, TypeOK

\* Entries, code, lock and suspended threads fit one another at every step of
\* hook.c, whichever steps fail.
THEOREM BookInvariance == Spec => []BookInv
<1>1. Init => BookInv
  BY InitInv DEF IInv
<1>2. BookInv /\ [Next]_vars => BookInv'
  BY BookStep
<1> QED BY <1>1, <1>2, PTL DEF Spec

\* The types, and never more entries than functions, whatever is called and fails.
THEOREM TypeCorrect == Spec => []TypeOK
<1>1. BookInv => TypeOK
  BY DEF BookInv
<1> QED BY <1>1, BookInvariance, PTL

\* The hook table always tells what is in memory: whichever calls are made, in
\* whichever order, and wherever VirtualProtect or the allocation fails.
THEOREM TableTellsMemory == Spec => []BookMatchesCode
<1>1. BookInv => BookMatchesCode
  BY DEF BookInv
<1> QED BY <1>1, BookInvariance, PTL

\* Who holds the spin lock is never suspended, so two callers cannot suspend each
\* other; and outside a call only threads are that Unfreeze could not open.
THEOREM OwnerSuspends == Spec => []FrozenByOwner
<1>1. BookInv => FrozenByOwner
  <2> SUFFICES ASSUME BookInv, frozen \ lost # {}
               PROVE  \E c \in Callers : g_isLocked = c /\ mpc[c] \in {"freeze", "patch", "thaw"}
    BY DEF FrozenByOwner, BookInv, LockInv
  <2>1. PICK c \in Callers : mpc[c] \in {"freeze", "patch", "thaw"}
    BY DEF BookInv, LockInv
  <2> QED BY <2>1 DEF BookInv, LockInv
<1> QED BY <1>1, BookInvariance, PTL

-----------------------------------------------------------------------------
(* The threads that run through the hooked functions. *)

\* What the invariant of the runners needs: a hot-patched function is not
\* disabled alone (MH_DisableHook would announce the opposite), and no VirtualProtect
\* fails while a jump is yet to be removed, as none does if only MH_EnableHook meets
\* one that fails.
NeverAlone        == \A call \in Calls : call.name = "DisableHook" => call.target \notin HotPatched
FailsOnlyEnabling == \A c \in Callers : ProtectFails(c) => \A i \in Pending(c) : Wanted(c, i)
OnlyEnableFails   == Fails \intersect Writers \subseteq {"EnableHook"}

\* The functions that will start with the jump, one by one.
LEMMA FinalCodeEach ==
  ASSUME NEW c, NEW f
  PROVE  f \in FinalCode(c) <=>
           /\ f \in code \/ \E i \in Pending(c) : g_hooks[i].target = f /\ Wanted(c, i) = TRUE
           /\ ~ \E i \in Pending(c) : g_hooks[i].target = f /\ Wanted(c, i) = FALSE
  BY DEF FinalCode

\* What a call wants of a hook is one of two things.
LEMMA WantedIsBoolean ==
  ASSUME BookTypes, NEW c, NEW i \in Positions
  PROVE  Wanted(c, i) \in BOOLEAN
<1>1. g_hooks[i].queueEnable \in BOOLEAN
  BY Entries
<1> QED BY <1>1 DEF Wanted

\* Whom Freeze has been through changes with the place of the call and its list.
LEMMA SameHandled ==
  ASSUME NEW c \in Callers, UNCHANGED <<pItems, left>>, mpc'[c] = mpc[c]
  PROVE  Handled(c)' = Handled(c)
  BY DEF Handled

\* A thread that stays where it is is sound as long as the code is the same.
LEMMA SoundKept ==
  ASSUME NEW t \in Runners, Sound(t), ip'[t] = ip[t], code' = code,
         ip[t].at \in {"detour", "tramp"} => ip[t].f \in slots',
         (\A c \in Callers : t \notin Handled(c)') => \A c \in Callers : t \notin Handled(c),
         \A c \in Callers : t \in Handled(c)' =>
           t \in Handled(c) /\ (t \in frozen => t \in frozen') /\ FinalCode(c)' = FinalCode(c)
  PROVE  Sound(t)'
<1>1. \A jumps : Whole(t, jumps) => Whole(t, jumps)'
  BY DEF Whole
<1> QED BY <1>1 DEF Sound

\* A step that leaves entries, code and calls alone leaves what will be patched.
LEMMA SameFinalCode ==
  ASSUME NEW c \in Callers, UNCHANGED <<g_hooks, code>>, op'[c] = op[c]
  PROVE  FinalCode(c)' = FinalCode(c)
<1>1. Pending(c)' = Pending(c)
  BY SamePending
<1> QED BY <1>1 DEF FinalCode, Wanted

\* Each step of a runner leads it to an instruction.
LEMMA RunnersKept ==
  ASSUME IInv, NEW t \in Runners, RunStep(t)
  PROVE  RunInv'
<1> USE DEF bookVars, lockVars, heldVars
<1>0. /\ UNCHANGED <<g_hHeap, g_hooks, slots, code, mpc, op, pItems, left, suspends, missed>>
      /\ RunTypes /\ BookTypes /\ OneEntryEach /\ RunInv
  BY BookMeansEach DEF RunStep, IInv, BookInv, TypeOK
<1>h. frozen' = frozen /\ \A c \in Callers : Handled(c)' = Handled(c)
  BY <1>0, SameFrozen, SameHandled
<1>1. \E to : Jumps(t, to)
  BY DEF RunStep, Spawn, CallTarget, RunEntry, RunAbove, RunDetour, RunFunction, RunTrampoline
<1>2. ASSUME NEW u \in Runners \ missed, u # t PROVE Sound(u)'
  <2>1. ip'[u] = ip[u]
    BY <1>1, <1>2 DEF Jumps
  <2>2. \A c \in Callers : FinalCode(c)' = FinalCode(c)
    BY <1>0, SameFinalCode
  <2> QED BY <1>0, <1>h, <1>2, <2>1, <2>2, SoundKept DEF RunInv, Sound
<1>3. ASSUME t \notin missed PROVE Sound(t)'
  <2>0. Sound(t)
    BY <1>0, <1>3 DEF RunInv
  \* Where it goes to, and that it goes on.
  <2>1. ASSUME NEW to, Jumps(t, to), to.at # "fault",
               to.at \in {"target", "above", "detour", "tramp"} => to.f \in Targets,
               to.at \in {"detour", "tramp"} => to.f \in slots,
               to.at = "above" => to.f \in code \intersect HotPatched,
               to.at = "target" /\ to.f \in code => to.k \notin Torn(to.f),
               t \notin frozen
        PROVE  Sound(t)'
    <3>1. ip'[t] = to
      BY <1>0, <2>1 DEF Jumps, RunTypes
    <3>2. Whole(t, code)'
      BY <1>0, <2>1, <3>1 DEF Whole
    <3>3. \A c \in Callers : t \notin Handled(c)'
      BY <1>h, <2>0, <2>1 DEF Sound
    <3> QED BY <1>0, <2>1, <3>1, <3>2, <3>3 DEF Sound
  <2>2. CASE Spawn(t)
    <3>1. ip'[t].at = "out"
      BY <1>0, <2>2 DEF Spawn, Jumps, Out, At, RunTypes
    <3>2. \A c \in Callers : t \in Handled(c)' => t \in frozen'
      BY <1>h, <2>0 DEF Sound
    <3> QED BY <3>1, <3>2 DEF Sound, Whole
  <2>3. ASSUME NEW f \in Targets,
               CallTarget(t, f) \/ RunEntry(t, f) \/ RunAbove(t, f) \/ RunDetour(t, f)
        PROVE  Sound(t)'
    <3>1. t \notin frozen
      BY <2>3 DEF CallTarget, RunEntry, RunAbove, RunDetour, Runs
    <3>2. 0 \notin Torn(f) /\ (f \in code => f \in slots)
      BY <1>0, BoundsAssumption DEF Torn, OneEntryEach
    <3>3. CASE CallTarget(t, f)
      BY <2>1, <3>1, <3>2, <3>3 DEF CallTarget, At
    <3>4. CASE RunEntry(t, f)
      <4>1. \/ f \notin code /\ Jumps(t, At("target", f, 1))
            \/ f \in code /\ f \in HotPatched /\ Jumps(t, At("above", f, 0))
            \/ f \in code /\ Jumps(t, At("detour", f, 0))
        BY <3>4 DEF RunEntry
      <4> QED BY <2>1, <3>1, <3>2, <4>1 DEF At
    <3>5. CASE RunAbove(t, f)
      <4>1. f \in code
        BY <2>0, <3>5 DEF RunAbove, Runs, Sound, At
      <4>2. Jumps(t, At("detour", f, 0))
        BY <3>5, <4>1 DEF RunAbove
      <4> QED BY <2>1, <3>1, <3>2, <4>1, <4>2 DEF At
    <3>6. CASE RunDetour(t, f)
      <4>1. f \in slots
        BY <2>0, <3>6 DEF RunDetour, Runs, Sound, At
      <4>2. Jumps(t, Out) \/ Jumps(t, At("tramp", f, 0))
        BY <3>6 DEF RunDetour
      <4> QED BY <2>1, <3>1, <4>1, <4>2 DEF At, Out
    <3> QED BY <2>3, <3>3, <3>4, <3>5, <3>6
  <2>4. ASSUME NEW f \in Targets, NEW k \in 1 .. N, RunFunction(t, f, k)
        PROVE  Sound(t)'
    <3>1. t \notin frozen /\ (f \in code => k \notin Torn(f))
      BY <2>0, <2>4 DEF RunFunction, Runs, Sound, Whole, At
    <3>2. CASE k < N
      <4>1. f \in code => k + 1 \notin Torn(f)
        BY <3>1, <3>2, BoundsAssumption DEF Torn
      <4>2. Jumps(t, At("target", f, k + 1))
        BY <2>4, <3>1, <3>2 DEF RunFunction
      <4> QED BY <2>1, <3>1, <4>1, <4>2 DEF At
    <3>3. CASE ~(k < N)
      <4>1. Jumps(t, Out)
        BY <2>4, <3>1, <3>3 DEF RunFunction
      <4> QED BY <2>1, <3>1, <4>1 DEF At, Out
    <3> QED BY <3>2, <3>3
  <2>5. ASSUME NEW f \in Targets, NEW k \in 0 .. N, RunTrampoline(t, f, k)
        PROVE  Sound(t)'
    <3>1. t \notin frozen /\ f \in slots
      BY <2>0, <2>5 DEF RunTrampoline, Runs, Sound, At
    <3>2. f \in HotPatched \/ N \notin Torn(f)
      BY BoundsAssumption DEF Torn
    <3>3. \/ Jumps(t, At("tramp", f, k + 1)) \/ Jumps(t, Out)
          \/ f \notin HotPatched /\ Jumps(t, At("target", f, N))
      BY <2>5, <3>1 DEF RunTrampoline
    <3> QED BY <2>1, <3>1, <3>2, <3>3 DEF At, Out
  <2> QED BY <2>2, <2>3, <2>4, <2>5 DEF RunStep
<1> QED BY <1>0, <1>2, <1>3 DEF RunInv

\* A thread that Freeze suspends is at an instruction of the memory to come: it
\* was moved where that memory has one, or needed not to be.
LEMMA FrozenSound ==
  ASSUME IInv, NeverAlone, NEW c \in Callers, NEW t \in Runners \ missed, FreezeThread(c, t),
         t \in frozen', ProcessThreadIPs(c, t)
  PROVE  Sound(t)'
<1> DEFINE f == ip[t].f
<1>0. BookTypes /\ CallTypes /\ RunTypes /\ LockInv /\ OneEntryEach /\ Sound(t)
  BY BookMeansEach DEF IInv, BookInv, TypeOK, RunInv
<1>1. mpc[c] = "freeze" /\ t \in left /\ UNCHANGED <<g_hooks, slots, code, mpc, op>>
      /\ t \in pItems' \ left'
  BY <1>0 DEF FreezeThread, CallerAt, CallTypes, bookVars
<1>2. \A d \in Callers \ {c} : mpc[d] \in {"idle", "spin"}
  BY <1>0, <1>1, OneOwner
<1>3. FinalCode(c)' = FinalCode(c)
  BY <1>1, SameFinalCode
<1>4. Whole(t, code)
  BY <1>0, <1>1, <1>2 DEF Sound, Handled
<1>h. t \in Handled(c)' /\ \A d \in Callers \ {c} : Handled(d)' = {}
  BY <1>1, <1>2 DEF Handled
<1>5. \A i \in Pending(c) : i \in Subject(c) /\ i \in Positions /\ g_hooks[i].isEnabled # Wanted(c, i)
                              /\ Wanted(c, i) \in BOOLEAN
  BY <1>0, WantedIsBoolean DEF Pending, Subject, FindHookEntry
<1> SUFFICES ASSUME TRUE
             PROVE  /\ ip'[t].at # "fault"
                    /\ ip'[t].at \in {"target", "above", "detour", "tramp"} => ip'[t].f \in Targets
                    /\ ip'[t].at \in {"detour", "tramp"} => ip'[t].f \in slots
                    /\ ip'[t].at = "above" => ip'[t].f \in code \intersect HotPatched
                    /\ ip'[t].at = "target" /\ ip'[t].f \in FinalCode(c) => ip'[t].k \notin Torn(ip'[t].f)
                    /\ ip'[t].at = "above" => ip'[t].f \in FinalCode(c)
  BY <1>1, <1>2, <1>3, <1>h DEF Sound, Whole
<1>6. CASE ~ \E i \in Changing(c) : g_hooks[i].target = f
  <2>1. ip' = ip
    BY <1>6 DEF ProcessThreadIPs
  <2>2. ASSUME ip[t].at = "target", f \in FinalCode(c) PROVE ip[t].k \notin Torn(f)
    <3>1. ASSUME f \notin code PROVE FALSE
      <4>1. PICK i \in Pending(c) : g_hooks[i].target = f /\ Wanted(c, i) = TRUE
        BY <2>2, <3>1, FinalCodeEach
      <4>2. i \in Changing(c)
        BY <1>5, <4>1 DEF Changing, Announced
      <4> QED BY <1>6, <4>1, <4>2
    <3> QED BY <1>4, <2>2, <3>1 DEF Whole
  <2>3. ASSUME ip[t].at = "above" PROVE f \in FinalCode(c)
    <3>1. f \in code /\ f \in HotPatched
      BY <1>0, <2>3 DEF Sound
    <3>2. ASSUME NEW i \in Pending(c), g_hooks[i].target = f, Wanted(c, i) = FALSE PROVE FALSE
      <4>1. ~(op[c].name = "DisableHook" /\ op[c].target # All)
        <5> SUFFICES ASSUME op[c].name = "DisableHook", op[c].target # All PROVE FALSE
          OBVIOUS
        <5>1. op[c] \in Calls
          BY <1>0 DEF CallTypes, NoCall
        <5>2. op[c].target = f
          BY <1>5, <3>2 DEF Subject, FindHookEntry
        <5> QED BY <3>1, <5>1, <5>2 DEF NeverAlone
      <4>2. i \in Changing(c)
        BY <1>5, <3>2, <4>1 DEF Changing, Announced
      <4> QED BY <1>6, <3>2, <4>2
    <3> QED BY <3>1, <3>2, FinalCodeEach
  <2> QED BY <1>0, <2>1, <2>2, <2>3 DEF Sound
<1>7. ASSUME NEW i \in Changing(c), g_hooks[i].target = f,
             Jumps(t, IF Announced(c, i) THEN FindNewIP(f, ip[t]) ELSE FindOldIP(f, ip[t]))
      PROVE  /\ ip'[t].at # "fault"
             /\ ip'[t].at \in {"target", "above", "detour", "tramp"} => ip'[t].f \in Targets
             /\ ip'[t].at \in {"detour", "tramp"} => ip'[t].f \in slots
             /\ ip'[t].at = "above" => ip'[t].f \in code \intersect HotPatched
             /\ ip'[t].at = "target" /\ ip'[t].f \in FinalCode(c) => ip'[t].k \notin Torn(ip'[t].f)
             /\ ip'[t].at = "above" => ip'[t].f \in FinalCode(c)
  <2>0. i \in Positions /\ i \in Subject(c) /\ g_hooks[i].isEnabled # Announced(c, i)
        /\ g_hooks[i].isEnabled \in BOOLEAN /\ Wanted(c, i) \in BOOLEAN
    BY <1>0, Entries, WantedIsBoolean DEF Changing, Subject, FindHookEntry
  <2>1. f \in Targets /\ f \in slots
    <3>1. f \in Targets
      BY <1>0, <1>7, <2>0, Entries
    <3> QED BY <1>0, <1>7, <2>0, <3>1 DEF OneEntryEach
  <2>2. CASE Announced(c, i)
    <3>1. g_hooks[i].isEnabled = FALSE
      BY <2>0, <2>2
    <3>2. f \notin code
      BY <1>0, <1>7, <2>0, <2>1, <3>1 DEF OneEntryEach
    <3>3. ip[t].at # "above"
      BY <1>0, <3>2 DEF Sound
    <3>4. ip'[t] = IF ip[t].at = "target" THEN At("tramp", f, ip[t].k) ELSE ip[t]
      BY <1>0, <1>7, <2>2 DEF Jumps, FindNewIP, RunTypes
    <3>5. CASE ip[t].at = "target"
      BY <2>1, <3>4, <3>5 DEF At
    <3>6. CASE ip[t].at # "target"
      BY <1>0, <3>3, <3>4, <3>6 DEF Sound
    <3> QED BY <3>5, <3>6
  <2>3. CASE ~Announced(c, i)
    <3>1. i \in Pending(c) /\ Wanted(c, i) = FALSE
      <4>1. Wanted(c, i) = FALSE /\ g_hooks[i].isEnabled = TRUE
        BY <2>0, <2>3 DEF Announced
      <4> QED BY <2>0, <4>1 DEF Pending
    <3>2. f \notin FinalCode(c)
      BY <1>7, <3>1, FinalCodeEach
    <3>3. ip'[t] = IF ip[t].at \in {"above", "tramp"} THEN At("target", f, ip[t].k) ELSE ip[t]
      BY <1>0, <1>7, <2>3 DEF Jumps, FindOldIP, RunTypes
    <3>4. CASE ip[t].at \in {"above", "tramp"}
      BY <2>1, <3>2, <3>3, <3>4 DEF At
    <3>5. CASE ip[t].at \notin {"above", "tramp"}
      BY <1>0, <3>2, <3>3, <3>5 DEF Sound
    <3> QED BY <3>4, <3>5
  <2> QED BY <2>2, <2>3
<1> QED BY <1>6, <1>7 DEF ProcessThreadIPs

\* What is written brings memory nearer to the one to come.
LEMMA FinalCodeKept ==
  ASSUME BookInv, NEW c \in Callers, EnableHookLL(c)
  PROVE  /\ FinalCode(c)' = FinalCode(c)
         /\ code \intersect FinalCode(c) \subseteq code'
<1>0. BookTypes /\ OneEntryEach
  BY BookMeansEach DEF BookInv, TypeOK
<1>1. PICK i \in Pending(c), enable \in BOOLEAN :
        /\ i \in Positions /\ enable = Wanted(c, i)
        /\ Positions' = Positions
        /\ \A j \in Positions :
             /\ g_hooks'[j].target = g_hooks[j].target
             /\ g_hooks'[j].isEnabled = IF j = i THEN enable ELSE g_hooks[j].isEnabled
             /\ g_hooks'[j].queueEnable = IF j = i THEN enable ELSE g_hooks[j].queueEnable
        /\ code' = IF enable THEN code \union {g_hooks[i].target} ELSE code \ {g_hooks[i].target}
  BY <1>0, OneSwitched
<1>2. op' = op
  BY DEF EnableHookLL
<1>3. \A j \in Positions : Wanted(c, j)' = Wanted(c, j)
  <2>1. ASSUME NEW j \in Positions, j # i PROVE Wanted(c, j)' = Wanted(c, j)
    <3>1. g_hooks'[j].queueEnable = g_hooks[j].queueEnable
      BY <1>1, <2>1
    <3> QED BY <1>2, <3>1 DEF Wanted
  <2>2. Wanted(c, i)' = Wanted(c, i)
    <3>1. g_hooks'[i].queueEnable = Wanted(c, i) /\ g_hooks[i].queueEnable \in BOOLEAN
      BY <1>0, <1>1, Entries
    <3> QED BY <1>2, <3>1 DEF Wanted
  <2> QED BY <2>1, <2>2
<1>4. Subject(c)' = Subject(c) /\ Subject(c) \subseteq Positions
  BY <1>1, <1>2 DEF Subject, FindHookEntry
<1>5. Pending(c)' = Pending(c) \ {i} /\ Pending(c) \subseteq Positions
  <2>1. Pending(c)' = { j \in Subject(c) : g_hooks'[j].isEnabled # Wanted(c, j)' }
    BY <1>4 DEF Pending
  <2>2. \A j \in Subject(c) : j # i => g_hooks'[j].isEnabled = g_hooks[j].isEnabled
    BY <1>1, <1>4
  <2>3. g_hooks'[i].isEnabled = Wanted(c, i)'
    BY <1>1, <1>3
  <2> QED BY <1>3, <1>4, <2>1, <2>2, <2>3 DEF Pending
<1>6. ASSUME NEW f PROVE f \in FinalCode(c)' <=> f \in FinalCode(c)
  <2>1. f \in FinalCode(c)' <=>
          /\ f \in code' \/ \E j \in Pending(c) \ {i} : g_hooks[j].target = f /\ Wanted(c, j) = TRUE
          /\ ~ \E j \in Pending(c) \ {i} : g_hooks[j].target = f /\ Wanted(c, j) = FALSE
    <3>1. f \in FinalCode(c)' <=>
            /\ f \in code' \/ \E j \in Pending(c)' : g_hooks'[j].target = f /\ Wanted(c, j)' = TRUE
            /\ ~ \E j \in Pending(c)' : g_hooks'[j].target = f /\ Wanted(c, j)' = FALSE
      BY DEF FinalCode
    <3> QED BY <1>1, <1>3, <1>5, <3>1
  <2>2. f \in FinalCode(c) <=>
          /\ f \in code \/ \E j \in Pending(c) : g_hooks[j].target = f /\ Wanted(c, j) = TRUE
          /\ ~ \E j \in Pending(c) : g_hooks[j].target = f /\ Wanted(c, j) = FALSE
    BY FinalCodeEach
  <2>3. \A j \in Pending(c) : g_hooks[j].target = g_hooks[i].target => j = i
    BY <1>0, <1>1, <1>5 DEF OneEntryEach
  <2>4. CASE enable = TRUE
    BY <1>1, <2>1, <2>2, <2>3, <2>4
  <2>5. CASE enable = FALSE
    BY <1>1, <2>1, <2>2, <2>3, <2>5
  <2> QED BY <2>4, <2>5
<1>7. ASSUME NEW f \in code \intersect FinalCode(c) PROVE f \in code'
  BY <1>1, <1>7, FinalCodeEach
<1> QED BY <1>6, <1>7

\* Every step keeps the runners sound.
LEMMA RunKept ==
  ASSUME NeverAlone, FailsOnlyEnabling, IInv, [Next]_vars
  PROVE  RunInv'
<1> USE DEF bookVars, lockVars, heldVars, runVars
<1>0. /\ BookTypes /\ CallTypes /\ RunTypes /\ LockInv /\ BookInv /\ RunInv
      /\ \A u \in Runners \ missed : Sound(u)
      /\ UNCHANGED suspends => frozen' = frozen
  BY SameFrozen DEF IInv, BookInv, TypeOK, RunInv
<1>1. CASE UNCHANGED vars
  <2>1. \A c \in Callers : FinalCode(c)' = FinalCode(c) /\ Handled(c)' = Handled(c)
    BY <1>1, SameFinalCode, SameHandled DEF vars
  <2>2. \A u \in Runners \ missed : Sound(u)'
    BY <1>0, <1>1, <2>1, SoundKept DEF vars, Sound
  <2> QED BY <1>1, <2>2 DEF vars, RunInv
<1>2. ASSUME NEW c \in Callers, Begin(c) PROVE RunInv'
  <2>1. /\ mpc'[c] = "spin" /\ UNCHANGED <<g_hooks, slots, code, pItems, left, frozen, ip, missed>>
        /\ mpc[c] = "idle" /\ \A d \in Callers \ {c} : mpc'[d] = mpc[d] /\ op'[d] = op[d]
    BY <1>0, <1>2 DEF Begin, CallerAt, CallerGoes, CallTypes
  <2>2. Handled(c) = {} /\ Handled(c)' = {}
        /\ \A d \in Callers \ {c} : FinalCode(d)' = FinalCode(d) /\ Handled(d)' = Handled(d)
    BY <2>1, SameFinalCode, SameHandled DEF Handled
  <2>3. \A u \in Runners \ missed : Sound(u)'
    BY <1>0, <2>1, <2>2, SoundKept DEF Sound
  <2> QED BY <2>1, <2>3 DEF RunInv
<1>3. ASSUME NEW c \in Callers, LibraryStep(c) PROVE RunInv'
  <2> USE DEF CallerAt, CallerGoes
  \* Steps in which nobody is freezing or writing, nor comes to be.
  <2>1. ASSUME mpc' \in [Callers -> {"idle", "spin", "run", "leave", "finish"}], code' = code, ip' = ip,
               missed \subseteq missed',
               \A u \in Runners \ missed' : ip[u].at \in {"detour", "tramp"} => ip[u].f \in slots',
               \A d \in Callers : mpc[d] \notin {"freeze", "patch"}
        PROVE  RunInv'
    <3>1. \A d \in Callers : Handled(d) = {} /\ Handled(d)' = {}
      BY <2>1 DEF Handled
    <3>2. \A u \in Runners \ missed' : Sound(u)'
      BY <1>0, <2>1, <3>1, SoundKept
    <3> QED BY <3>2 DEF RunInv
  <2>2. \A u \in Runners \ missed : ip[u].at \in {"detour", "tramp"} => ip[u].f \in slots
    BY <1>0 DEF Sound
  <2>3. CASE EnterSpinLock(c)
    <3>1. \A d \in Callers : mpc[d] \in {"idle", "spin"}
      BY <1>0, <2>3, BoundsAssumption DEF EnterSpinLock, LockIsFree, LockInv, CallTypes
    <3>3. mpc' \in [Callers -> {"idle", "spin", "run", "leave", "finish"}]
      BY <1>0, <2>3, <3>1 DEF EnterSpinLock, CallTypes
    <3> QED BY <2>1, <2>2, <2>3, <3>1, <3>3 DEF EnterSpinLock
  <2> SUFFICES ASSUME ~EnterSpinLock(c) PROVE RunInv'
    BY <2>3
  <2>4. mpc[c] \notin {"idle", "spin"}
    BY <1>3 DEF LibraryStep, Initialize, CreateHook, QueueHook, NothingToWrite, EnumerateThreads, FreezeThread,
                ThawThread, AllFrozen, EnableHookLL, ProtectFails, AllWritten, AllThawed, RemoveHook,
                Uninitialize, FreesNothing, LeaveSpinLock, CallIs, Writes, Frees
  <2>5. \A d \in Callers \ {c} : mpc[d] \in {"idle", "spin"}
    BY <1>0, <2>4, OneOwner
  <2>6. /\ \A d \in Callers \ {c} : Handled(d) = {}
        /\ mpc[c] \notin {"freeze", "patch"} => \A d \in Callers : mpc[d] \notin {"freeze", "patch"}
    BY <2>5 DEF Handled
  <2>7. CASE Initialize(c) \/ CreateHook(c) \/ QueueHook(c) \/ NothingToWrite(c) \/ FreesNothing(c) \/ LeaveSpinLock(c)
    <3>1. mpc[c] \in {"run", "finish", "leave"} /\ UNCHANGED <<code, ip, missed>> /\ slots \subseteq slots'
      BY <2>7 DEF Initialize, CreateHook, QueueHook, NothingToWrite, FreesNothing, LeaveSpinLock, CallIs, Writes
    <3>2. mpc' \in [Callers -> {"idle", "spin", "run", "leave", "finish"}]
      BY <1>0, <2>5, <2>7
         DEF Initialize, CreateHook, QueueHook, NothingToWrite, FreesNothing, LeaveSpinLock, CallTypes
    <3> QED BY <2>1, <2>2, <2>6, <3>1, <3>2
  <2>8. CASE RemoveHook(c) \/ Uninitialize(c)
    <3>1. mpc[c] = "finish" /\ UNCHANGED <<code, ip>> /\ missed \subseteq missed'
      BY <2>8 DEF RemoveHook, Uninitialize, Frees
    <3>2. mpc' \in [Callers -> {"idle", "spin", "run", "leave", "finish"}]
      BY <1>0, <2>5, <2>8 DEF RemoveHook, Uninitialize, CallTypes
    <3>3. PICK freed : slots' = slots \ freed /\ missed' = missed \union BoundFor(freed)
      BY <2>8 DEF RemoveHook, Uninitialize
    <3>4. \A u \in Runners \ missed' : ip[u].at \in {"detour", "tramp"} => ip[u].f \in slots'
      BY <2>2, <3>3 DEF BoundFor
    <3> QED BY <2>1, <2>6, <3>1, <3>2, <3>4
  <2>9. CASE AllThawed(c)
    <3>1. mpc' \in [Callers -> {"idle", "spin", "run", "leave", "finish"}]
      BY <1>0, <2>5, <2>9 DEF AllThawed, CallTypes
    <3> QED BY <2>1, <2>2, <2>6, <2>9, <3>1 DEF AllThawed
  <2>10. CASE EnumerateThreads(c)
    <3>1. UNCHANGED <<slots, code, ip, missed>>
      BY <2>10 DEF EnumerateThreads
    <3>h. \A d \in Callers : Handled(d) = {} /\ Handled(d)' = {}
      <4>1. \A d \in Callers \ {c} : mpc'[d] = mpc[d]
        BY <1>0, <2>10 DEF EnumerateThreads, CallTypes
      <4>2. pItems' \ left' = {} /\ mpc[c] = "run"
        BY <2>10 DEF EnumerateThreads, Writes
      <4> QED BY <2>5, <4>1, <4>2 DEF Handled
    <3>2. \A u \in Runners \ missed : Sound(u)'
      BY <1>0, <2>2, <3>1, <3>h, SoundKept
    <3> QED BY <3>1, <3>2 DEF RunInv
  <2>11. ASSUME NEW t \in Runners \union Callers, FreezeThread(c, t) PROVE RunInv'
    <3>1. /\ mpc[c] = "freeze" /\ UNCHANGED <<g_hooks, slots, code, mpc, op, pItems>> /\ missed \subseteq missed'
          /\ t \in left /\ left' = left \ {t}
          /\ \A u \in Runners \ {t} : ip'[u] = ip[u]
      <4>1. mpc[c] = "freeze" /\ UNCHANGED <<g_hooks, slots, code, mpc, op, pItems>>
            /\ t \in left /\ left' = left \ {t}
        BY <2>11 DEF FreezeThread
      <4>2. missed \subseteq missed' /\ (UNCHANGED ip \/ ProcessThreadIPs(c, t))
        BY <2>11 DEF FreezeThread
      <4>3. UNCHANGED ip \/ \E to : Jumps(t, to)
        BY <4>2 DEF ProcessThreadIPs
      <4>4. \A u \in Runners \ {t} : ip'[u] = ip[u]
        BY <1>0, <4>3 DEF Jumps, RunTypes
      <4> QED BY <4>1, <4>2, <4>4
    <3>2. \A d \in Callers : FinalCode(d)' = FinalCode(d)
      BY <3>1, SameFinalCode
    <3>3. frozen \subseteq frozen' /\ (t \in Runners \ missed' => t \in frozen' /\ ProcessThreadIPs(c, t))
      BY <1>0, <2>11, FreezeCounts
    <3>4. \A d \in Callers, u \in Runners : u # t => (u \in Handled(d)' <=> u \in Handled(d))
      BY <3>1 DEF Handled
    <3>5. ASSUME NEW u \in Runners \ missed', u # t PROVE Sound(u)'
      BY <1>0, <2>2, <3>1, <3>2, <3>3, <3>4, <3>5, SoundKept
    <3>6. ASSUME t \in Runners \ missed' PROVE Sound(t)'
      BY <1>0, <2>11, <3>1, <3>3, <3>6, FrozenSound
    <3> QED BY <3>5, <3>6 DEF RunInv
  <2>12. ASSUME NEW t \in Runners \union Callers, ThawThread(c, t) PROVE RunInv'
    <3>1. mpc[c] = "thaw" /\ UNCHANGED <<slots, code, mpc, ip, missed>>
      BY <2>12 DEF ThawThread
    <3>2. \A d \in Callers : Handled(d) = {} /\ Handled(d)' = {}
      BY <2>5, <3>1 DEF Handled
    <3>3. \A u \in Runners \ missed : Sound(u)'
      BY <1>0, <2>2, <3>1, <3>2, SoundKept
    <3> QED BY <3>1, <3>3 DEF RunInv
  <2>13. CASE AllFrozen(c)
    <3>1. /\ mpc[c] = "freeze" /\ mpc'[c] = "patch"
          /\ UNCHANGED <<g_hooks, slots, code, op, pItems, left, frozen, ip, missed>>
          /\ \A d \in Callers \ {c} : mpc'[d] = mpc[d]
      BY <1>0, <2>13 DEF AllFrozen, CallTypes
    <3>2. \A d \in Callers : FinalCode(d)' = FinalCode(d)
      BY <3>1, SameFinalCode
    <3>3. \A d \in Callers : Handled(d)' = Handled(d)
      BY <2>5, <3>1 DEF Handled
    <3>4. \A u \in Runners \ missed : Sound(u)'
      BY <1>0, <2>2, <3>1, <3>2, <3>3, SoundKept
    <3> QED BY <3>1, <3>4 DEF RunInv
  <2>14. CASE EnableHookLL(c)
    <3>1. /\ mpc[c] = "patch" /\ UNCHANGED <<slots, mpc, pItems, left, frozen, ip>>
          /\ missed' = missed \union (Alive \ pItems)
      BY <1>0, <2>14 DEF EnableHookLL
    <3>2. FinalCode(c)' = FinalCode(c) /\ code \intersect FinalCode(c) \subseteq code'
      BY <1>0, <2>14, FinalCodeKept
    <3>h. /\ \A d \in Callers \ {c} : Handled(d)' = {}
          /\ Handled(c) = pItems /\ Handled(c)' = pItems
      BY <1>0, <2>5, <3>1 DEF Handled, LockInv
    <3>3. ASSUME NEW u \in Runners \ missed' PROVE Sound(u)'
      <4>0. Sound(u)
        BY <1>0, <3>1, <3>3
      <4>1. CASE u \in pItems
        <5>1. Whole(u, FinalCode(c)) /\ u \in frozen
          BY <3>h, <4>0, <4>1 DEF Sound
        <5>2. ip[u].at = "above" => ip[u].f \in code'
          BY <3>2, <4>0, <5>1 DEF Sound, Whole
        <5>3. Whole(u, FinalCode(c))'
          BY <3>1, <3>2, <5>1 DEF Whole
        <5> QED BY <3>1, <3>h, <4>0, <4>1, <5>1, <5>2, <5>3 DEF Sound
      <4>2. CASE u \notin pItems
        <5>1. ip[u].at = "unborn"
          BY <3>1, <3>3, <4>0, <4>2 DEF Alive, Sound
        <5> QED BY <3>1, <3>h, <4>2, <5>1 DEF Sound, Whole
      <4> QED BY <4>1, <4>2
    <3> QED BY <3>3 DEF RunInv
  <2>15. CASE ProtectFails(c) \/ AllWritten(c)
    <3>1. /\ mpc[c] = "patch" /\ mpc'[c] = "thaw" /\ UNCHANGED <<slots, code, frozen, ip, missed>>
          /\ \A d \in Callers \ {c} : mpc'[d] = mpc[d]
      BY <1>0, <2>15 DEF ProtectFails, Breaks, AllWritten, CallTypes
    <3>2. code \subseteq FinalCode(c)
      <4>1. ASSUME NEW f \in code, NEW i \in Pending(c), g_hooks[i].target = f, Wanted(c, i) = FALSE
            PROVE  FALSE
        <5>1. ProtectFails(c)
          BY <2>15, <4>1 DEF AllWritten
        <5> QED BY <4>1, <5>1 DEF FailsOnlyEnabling
      <4> QED BY <4>1, FinalCodeEach
    <3>3. \A d \in Callers : Handled(d)' = {}
      BY <2>5, <3>1 DEF Handled
    <3>4. ASSUME NEW u \in Runners \ missed PROVE Sound(u)'
      <4>0. Sound(u)
        BY <1>0
      <4>1. Whole(u, code) \/ Whole(u, FinalCode(c))
        BY <2>6, <4>0 DEF Sound
      <4>2. Whole(u, code)
        BY <3>2, <4>0, <4>1 DEF Whole, Sound
      <4>3. Whole(u, code)'
        BY <3>1, <4>2 DEF Whole
      <4> QED BY <3>1, <3>3, <4>0, <4>3 DEF Sound
    <3> QED BY <3>1, <3>4 DEF RunInv
  <2> QED BY <1>3, <2>7, <2>8, <2>9, <2>10, <2>11, <2>12, <2>13, <2>14, <2>15 DEF LibraryStep
<1> QED BY <1>1, <1>2, <1>3, RunnersKept DEF Next

\* Entries, lock, suspended threads and running threads fit one another at every
\* step of hook.c, unless a hot-patched function is disabled alone or a call breaks off
\* with a jump left to remove.
THEOREM RunInvariance ==
  ASSUME NeverAlone
  PROVE  Spec /\ [][FailsOnlyEnabling]_vars => []IInv
<1>1. Init => IInv
  BY InitInv
<1>2. IInv /\ [Next]_vars /\ [FailsOnlyEnabling]_vars => IInv'
  <2> SUFFICES ASSUME IInv, [Next]_vars, [FailsOnlyEnabling]_vars PROVE IInv'
    OBVIOUS
  <2>1. CASE FailsOnlyEnabling
    BY <2>1, BookStep, RunKept DEF IInv
  <2>2. CASE UNCHANGED vars
    <3>1. FailsOnlyEnabling
      <4> SUFFICES ASSUME NEW c \in Callers, ProtectFails(c) PROVE FALSE
        BY DEF FailsOnlyEnabling
      <4>1. mpc[c] = "patch" /\ mpc' = [mpc EXCEPT ![c] = "thaw"] /\ mpc' = mpc
        BY <2>2 DEF ProtectFails, Breaks, CallerAt, CallerGoes, vars
      <4>2. mpc \in [Callers -> {"idle", "spin", "run", "freeze", "patch", "thaw", "finish", "leave"}]
        BY DEF IInv, BookInv, TypeOK, CallTypes
      <4> QED BY <4>1, <4>2
    <3> QED BY <3>1, BookStep, RunKept DEF IInv
  <2> QED BY <2>1, <2>2
<1> QED BY <1>1, <1>2, PTL DEF Spec

\* If only MH_EnableHook meets a VirtualProtect that fails, no jump is left to remove.
LEMMA EnablingOnly ==
  ASSUME OnlyEnableFails
  PROVE  Spec => [][FailsOnlyEnabling]_vars
<1>1. BookInv => FailsOnlyEnabling
  <2> SUFFICES ASSUME BookInv, NEW c \in Callers, ProtectFails(c), NEW i \in Pending(c)
               PROVE  Wanted(c, i)
    BY DEF FailsOnlyEnabling
  <2>1. mpc[c] = "patch" /\ op[c].name \in Fails
    BY DEF ProtectFails, CallerAt
  <2>2. op[c].name \in Writers
    BY <2>1 DEF BookInv, LockInv
  <2> QED BY <2>1, <2>2 DEF OnlyEnableFails, Wanted
<1> QED BY <1>1, BookInvariance, PTL

\* However calls, suspensions and the hooked functions interleave, no thread
\* that the library could move runs into the middle of a jump, past a long jump
\* that is gone, or into a trampoline that was freed.
THEOREM RunsAreWhole ==
  ASSUME NeverAlone
  PROVE  Spec /\ [][FailsOnlyEnabling]_vars => []RunsWhole
<1>1. IInv => RunsWhole
  BY DEF IInv, RunInv, Sound, RunsWhole
<1> QED BY <1>1, RunInvariance, PTL

\* The same of a program in which only MH_EnableHook may break off, like the shim.
THEOREM EnablersRunWhole ==
  ASSUME NeverAlone, OnlyEnableFails
  PROVE  Spec => []RunsWhole
BY RunsAreWhole, EnablingOnly, PTL

\* What is true of "If the thread suspended in the overwritten area, move IP to the
\* proper address": a thread whose context could be read.
MovedUnlessMissed ==
  \A t \in (frozen \cap Runners) \ missed, c \in Callers : mpc[c] = "thaw" =>
    /\ ip[t].at = "target" /\ ip[t].f \in code => ip[t].k \notin Torn(ip[t].f)
    /\ ip[t].at = "above" => ip[t].f \in code

\* When suspended threads are about to go on, none that could be moved is where no
\* instruction starts; minhook_disable shows that the first hypothesis is needed.
THEOREM ThreadsMovedOut ==
  ASSUME NeverAlone
  PROVE  Spec /\ [][FailsOnlyEnabling]_vars => []MovedUnlessMissed
<1>1. IInv => MovedUnlessMissed
  <2> SUFFICES ASSUME IInv, NEW t \in (frozen \cap Runners) \ missed, NEW c \in Callers, mpc[c] = "thaw"
               PROVE  Whole(t, code)
    BY DEF MovedUnlessMissed, Whole
  <2>1. \A d \in Callers : Handled(d) = {}
    BY OneOwner DEF IInv, BookInv, TypeOK, Handled
  <2> QED BY <2>1 DEF IInv, RunInv, Sound
<1> QED BY <1>1, RunInvariance, PTL
=============================================================================
