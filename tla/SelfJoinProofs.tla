--------------------------- MODULE SelfJoinProofs ---------------------------
(***************************************************************************)
(* Proofs about SelfJoin, for any addresses and any bounds: the references *)
(* to address objects balance, and a call joins one way only.              *)
(***************************************************************************)
EXTENDS SelfJoin, FiniteSetTheorems, TLAPS

-----------------------------------------------------------------------------
\* An array of addresses holds an address a finite number of times.
LEMMA CopiesType ==
  ASSUME NEW array \in Seq(Addrs), NEW a
  PROVE  Copies(array, a) \in Nat
<1>1. DOMAIN array = 1 .. Len(array) /\ Len(array) \in Nat
  OBVIOUS
<1>2. IsFiniteSet(DOMAIN array)
  BY <1>1, FS_Interval
<1>3. IsFiniteSet({ n \in DOMAIN array : array[n] = a })
  BY <1>2, FS_Subset
<1> QED
  BY <1>3, FS_CardinalityType DEF Copies

\* The empty array holds no address.
LEMMA CopiesEmpty == ASSUME NEW a PROVE Copies(<<>>, a) = 0
<1>1. { n \in DOMAIN <<>> : <<>>[n] = a } = {}
  OBVIOUS
<1> QED
  BY <1>1, FS_EmptySet DEF Copies

\* The invariant holds initially.
LEMMA InitInv == Init => IInv
<1> SUFFICES ASSUME Init PROVE IInv
  OBVIOUS
<1>1. \A a \in Addrs : Copies(arr, a) = 0
  BY CopiesEmpty DEF Init
<1>2. TypeOK
  <2>1. conns \in Seq(BOOLEAN)
    BY DEF Init
  <2>2. locals \in Seq(Addrs) /\ arr \in Seq(Addrs)
    BY DEF Init
  <2>3. refs \in [Addrs -> Nat]
    BY DEF Init
  <2>4. called \in BOOLEAN /\ stock \in BOOLEAN
    BY DEF Init
  <2> QED
    BY <2>1, <2>2, <2>3, <2>4 DEF Init, TypeOK, Untried
<1>3. RefsBalanced
  BY <1>1 DEF Init, RefsBalanced
<1> QED
  BY <1>2, <1>3 DEF Init, IInv, OneWayIn, PlaceInv, InLoop, Untried, Ok

-----------------------------------------------------------------------------
\* Steps outside the hook, and those inside it that leave the references, the
\* hosts and the join alone.
LEMMA QuietStep ==
  ASSUME IInv, UNCHANGED <<game, pc, hook, seen>>, conns' \in Seq(BOOLEAN), locals' \in Seq(Addrs)
  PROVE  IInv'
<1>1. TypeOK'
  BY DEF IInv, TypeOK, game, hook, seen
<1>2. RefsBalanced'
  BY DEF IInv, RefsBalanced, Copies, game, hook
<1> QED
  BY <1>1, <1>2 DEF IInv, OneWayIn, PlaceInv, InLoop, game, hook, seen

\* What happens around the call keeps the invariant.
LEMMA EnvStep ==
  ASSUME IInv, InitConnection \/ CloseServer \/ AddressesChange
  PROVE  IInv'
<1>0. conns \in Seq(BOOLEAN) /\ locals \in Seq(Addrs)
  BY DEF IInv, TypeOK
<1>1. conns' \in Seq(BOOLEAN)
  <2>1. CASE InitConnection
    <3>1. PICK server \in BOOLEAN : conns' = <<server>> \o conns
      BY <2>1 DEF InitConnection
    <3>2. <<server>> \in Seq(BOOLEAN)
      OBVIOUS
    <3> QED
      BY <1>0, <3>1, <3>2
  <2>2. CASE CloseServer
    <3>1. PICK n \in DOMAIN conns : conns' = [conns EXCEPT ![n] = FALSE]
      BY <2>2 DEF CloseServer
    <3> QED
      BY <1>0, <3>1
  <2>3. CASE AddressesChange
    BY <1>0, <2>3 DEF AddressesChange, seen
  <2> QED
    BY <2>1, <2>2, <2>3
<1>2. locals' \in Seq(Addrs)
  <2>1. CASE AddressesChange
    <3>1. PICK n \in 0 .. MaxLocals : locals' \in [1 .. n -> Addrs]
      BY <2>1 DEF AddressesChange
    <3>2. n \in Nat
      BY BoundsAssumption
    <3> QED
      BY <3>1, <3>2
  <2>2. CASE InitConnection \/ CloseServer
    BY <1>0, <2>2 DEF InitConnection, CloseServer
  <2> QED
    BY <2>1, <2>2
<1>3. UNCHANGED <<game, pc, hook, seen>>
  BY DEF InitConnection, CloseServer, AddressesChange
<1> QED
  BY <1>1, <1>2, <1>3, QuietStep DEF hook, seen

\* The steps up to the array of addresses, and the choice after it.
LEMMA OuterStep ==
  ASSUME IInv,
         Call \/ FindServerInterface \/ CountAddresses \/ GetFails \/ Decide
  PROVE  IInv'
<1> USE DEF Call, FindServerInterface, CountAddresses, GetFails, Decide, Goes,
        HasJoined, Untried, Ok, env, game, hook, seen
<1>1. UNCHANGED <<conns, locals, hosts, found, refs, arr, i>>
  OBVIOUS
<1>2. cnt' \in Nat
  BY DEF IInv, TypeOK
<1>3. TypeOK'
  BY <1>1, <1>2 DEF IInv, TypeOK, Failed
<1>4. RefsBalanced'
  BY <1>1 DEF IInv, RefsBalanced, Copies
<1>5. OneWayIn'
  BY <1>1 DEF IInv, OneWayIn, PlaceInv, InLoop
<1>6. PlaceInv'
  BY <1>1 DEF IInv, PlaceInv, InLoop
<1> QED
  BY <1>3, <1>4, <1>5, <1>6 DEF IInv

\* Each address of the array brings its reference.
LEMMA GetStep == ASSUME IInv, GetAddresses PROVE IInv'
<1> USE DEF GetAddresses, Goes, env, hook, seen
<1>1. arr = <<>>
  BY DEF IInv, PlaceInv, InLoop
<1>2. locals \in Seq(Addrs)
  BY DEF IInv, TypeOK
<1>3. \A a \in Addrs : Copies(locals, a) \in Nat /\ Copies(arr, a) = 0
  BY <1>1, <1>2, CopiesType, CopiesEmpty
<1>4. RefsBalanced'
  <2> SUFFICES ASSUME NEW a \in Addrs
               PROVE  refs'[a] = Copies(arr', a) + (IF a \in hosts' THEN 1 ELSE 0)
    BY DEF RefsBalanced, Copies
  <2>1. refs'[a] = refs[a] + Copies(locals, a)
    OBVIOUS
  <2>2. refs[a] = IF a \in hosts THEN 1 ELSE 0
    BY <1>3 DEF IInv, RefsBalanced
  <2> QED
    BY <2>1, <2>2, <1>3
<1>5. refs' \in [Addrs -> Nat]
  <2>1. \A a \in Addrs : refs[a] + Copies(locals, a) \in Nat
    BY <1>3 DEF IInv, TypeOK
  <2> QED
    BY <2>1
<1>6. cnt' \in Nat
  BY <1>2
<1>7. TypeOK'
  BY <1>2, <1>5, <1>6 DEF IInv, TypeOK
<1>8. OneWayIn' /\ PlaceInv'
  BY DEF IInv, OneWayIn, PlaceInv, InLoop
<1> QED
  BY <1>4, <1>7, <1>8 DEF IInv

\* A new entry takes one reference, a refreshed one keeps its own.
LEMMA InjectStep == ASSUME IInv, InjectHost PROVE IInv'
<1> USE DEF InjectHost, Goes, TriesMore, env, hook, seen
<1>1. arr \in Seq(Addrs) /\ cnt = Len(arr) /\ i \in 1 .. cnt
  BY DEF IInv, PlaceInv, InLoop, TypeOK
<1>2. arr[i] \in Addrs
  BY <1>1
<1>3. \A a \in Addrs : Copies(arr, a) \in Nat
  BY <1>1, CopiesType
<1>4. RefsBalanced'
  <2> SUFFICES ASSUME NEW a \in Addrs
               PROVE  refs'[a] = Copies(arr, a) + (IF a \in hosts' THEN 1 ELSE 0)
    BY DEF RefsBalanced, Copies
  <2>1. refs[a] = Copies(arr, a) + (IF a \in hosts THEN 1 ELSE 0)
    BY DEF IInv, RefsBalanced
  <2>2. CASE a = arr[i] /\ a \notin hosts
    <3>1. refs'[a] = refs[a] + 1 /\ a \in hosts'
      BY <2>2 DEF IInv, TypeOK
    <3> QED
      BY <2>1, <2>2, <3>1, <1>3
  <2>3. CASE ~(a = arr[i] /\ a \notin hosts)
    <3>1. refs'[a] = refs[a] /\ (a \in hosts' <=> a \in hosts)
      BY <2>3 DEF IInv, TypeOK
    <3> QED
      BY <2>1, <3>1
  <2> QED
    BY <2>2, <2>3
<1>5. refs' \in [Addrs -> Nat]
  BY <1>2 DEF IInv, TypeOK
<1>6. joined = {}
  BY DEF IInv, PlaceInv
<1>7. TypeOK'
  BY <1>2, <1>5 DEF IInv, TypeOK
<1>8. OneWayIn' /\ PlaceInv'
  BY <1>1, <1>6 DEF IInv, OneWayIn, PlaceInv, InLoop
<1> QED
  BY <1>4, <1>7, <1>8 DEF IInv

\* An attempt, successful or not, touches no reference.
LEMMA AttemptStep == ASSUME IInv, InjectFails \/ JoinGame PROVE IInv'
<1> USE DEF InjectFails, JoinGame, Goes, TriesMore, NextIndex, RefsAfterJoin,
        env, game, seen
<1>1. UNCHANGED <<conns, locals, hosts, found, refs, cnt, arr, stock>> /\ pc' = "try"
  OBVIOUS
<1>2. i' \in Nat \ {0}
  BY DEF IInv, TypeOK
<1>3. result' \in {Untried, Ok, Failed} /\ joined' \subseteq Addrs
  BY DEF IInv, TypeOK
<1>4. (joined' # {} <=> result' = Ok) /\ (joined' # {} => found = joined')
  <2>1. result # Ok /\ joined = {}
    BY DEF IInv, PlaceInv
  <2>2. CASE InjectFails
    BY <2>1, <2>2
  <2>3. CASE JoinGame
    <3>1. found = {arr[i]} /\ found # {}
      BY <2>3 DEF IInv, PlaceInv
    <3> QED
      BY <2>1, <2>3, <3>1 DEF Ok, Untried, Failed
  <2> QED
    BY <2>2, <2>3
<1>5. \A a, b \in joined' : a = b
  BY DEF IInv, PlaceInv, OneWayIn
<1>6. TypeOK'
  BY <1>1, <1>2, <1>3 DEF IInv, TypeOK
<1>7. RefsBalanced'
  BY <1>1 DEF IInv, RefsBalanced, Copies
<1>8. pc # "idle" /\ InLoop
  BY DEF InLoop
<1>9. OneWayIn' /\ PlaceInv'
  BY <1>1, <1>4, <1>5, <1>8 DEF IInv, OneWayIn, PlaceInv, InLoop
<1> QED
  BY <1>6, <1>7, <1>9 DEF IInv

\* The references of the array are dropped, each once.
LEMMA ReleaseStep == ASSUME IInv, ReleaseAddresses PROVE IInv'
<1> USE DEF ReleaseAddresses, Goes, env, seen
<1>1. arr \in Seq(Addrs) /\ cnt = Len(arr)
  BY DEF IInv, PlaceInv, InLoop, TypeOK
<1>2. Released = DOMAIN arr
  BY <1>1 DEF Released
<1>3. \A a \in Addrs : refs'[a] = refs[a] - Copies(arr, a)
  BY <1>2 DEF Copies
<1>4. \A a \in Addrs : refs'[a] = IF a \in hosts THEN 1 ELSE 0
  <2> TAKE a \in Addrs
  <2>1. Copies(arr, a) \in Nat
    BY <1>1, CopiesType
  <2>2. refs[a] = Copies(arr, a) + (IF a \in hosts THEN 1 ELSE 0)
    BY DEF IInv, RefsBalanced
  <2> QED
    BY <1>3, <2>1, <2>2
<1>5. RefsBalanced'
  <2>1. arr' = <<>>
    OBVIOUS
  <2>2. \A a \in Addrs : Copies(arr', a) = 0
    BY <2>1, CopiesEmpty DEF Copies
  <2>3. \A a \in Addrs : refs'[a] = Copies(arr', a) + (IF a \in hosts' THEN 1 ELSE 0)
    BY <1>4, <2>2
  <2> QED
    BY <2>3 DEF RefsBalanced, Copies
<1>6. refs' \in [Addrs -> Nat]
  <2> DEFINE R == [a \in Addrs |-> refs[a] - Cardinality({ n \in Released : arr[n] = a })]
  <2>1. refs' = R
    OBVIOUS
  <2>2. \A a \in Addrs : R[a] \in Nat
    BY <1>4, <2>1
  <2> HIDE DEF R
  <2>3. R \in [Addrs -> Nat]
    <3>1. R = [a \in Addrs |-> R[a]]
      BY DEF R
    <3> QED
      BY <2>2, <3>1
  <2> QED
    BY <2>1, <2>3
<1>7. TypeOK'
  BY <1>6 DEF IInv, TypeOK
<1>8. OneWayIn' /\ PlaceInv'
  BY DEF IInv, OneWayIn, PlaceInv, InLoop
<1> QED
  BY <1>5, <1>7, <1>8 DEF IInv

\* The stock enumeration runs only when nothing was joined.
LEMMA StockStep == ASSUME IInv, StockEnum PROVE IInv'
<1> USE DEF StockEnum, Goes, env, hook
<1>1. joined = {} /\ joined' = {}
  BY DEF IInv, PlaceInv
<1>2. found' \subseteq hosts
  OBVIOUS
<1>3. TypeOK'
  BY <1>2 DEF IInv, TypeOK
<1>4. RefsBalanced'
  BY DEF IInv, RefsBalanced, Copies
<1>5. OneWayIn' /\ PlaceInv'
  BY <1>1, <1>2 DEF IInv, OneWayIn, PlaceInv, InLoop
<1> QED
  BY <1>3, <1>4, <1>5 DEF IInv

-----------------------------------------------------------------------------
\* The invariant holds of every behaviour of selfjoin_hook.cpp.
THEOREM Invariance == Spec => []IInv
<1>1. Init => IInv
  BY InitInv
<1>2. IInv /\ [Next]_vars => IInv'
  <2> SUFFICES ASSUME IInv, [Next]_vars PROVE IInv'
    OBVIOUS
  <2>1. CASE UNCHANGED vars
    <3>1. conns' \in Seq(BOOLEAN) /\ locals' \in Seq(Addrs)
      BY <2>1 DEF IInv, TypeOK, vars, env
    <3> QED
      BY <2>1, <3>1, QuietStep DEF vars, env, game, hook, seen
  <2>2. CASE InitConnection \/ CloseServer \/ AddressesChange
    BY <2>2, EnvStep
  <2>3. CASE Call \/ FindServerInterface \/ CountAddresses \/ GetFails \/ Decide
    BY <2>3, OuterStep
  <2>4. CASE GetAddresses
    BY <2>4, GetStep
  <2>5. CASE InjectHost
    BY <2>5, InjectStep
  <2>6. CASE InjectFails \/ JoinGame
    BY <2>6, AttemptStep
  <2>7. CASE ReleaseAddresses
    BY <2>7, ReleaseStep
  <2>8. CASE StockEnum
    BY <2>8, StockStep
  <2> QED
    BY <2>1, <2>2, <2>3, <2>4, <2>5, <2>6, <2>7, <2>8 DEF Next, HookStep
<1> QED
  BY <1>1, <1>2, PTL DEF Spec

\* No address object is released more often than it was referenced, and every
\* variable has its type.
THEOREM TypeCorrect == Spec => []TypeOK
<1>1. IInv => TypeOK
  BY DEF IInv
<1> QED
  BY <1>1, Invariance, PTL

\* The references of hook_C430 and of the discovered-host list balance, however
\* many addresses a server reports and whichever calls fail.
THEOREM NoReferenceLost == Spec => []RefsBalanced
<1>1. IInv => RefsBalanced
  BY DEF IInv
<1> QED
  BY <1>1, Invariance, PTL

\* A call that has returned joined at one address or, if at none, has run the
\* stock enumeration, never both; the found-host handle is that of the address it
\* joined.
THEOREM JoinsOneWay == Spec => []OneWayIn
<1>1. IInv => OneWayIn
  BY DEF IInv
<1> QED
  BY <1>1, Invariance, PTL
=============================================================================
