------------------------------ MODULE SelfJoin ------------------------------
(***************************************************************************)
(* src/selfjoin_hook.cpp: the hook on NET_internal_C430, by which the      *)
(* listen host joins its own session at an address its own server reports  *)
(* instead of waiting to be discovered.                                    *)
(*                                                                         *)
(* One game thread is in the hook at a time.  Around it the list of        *)
(* connections grows and the server's addresses change (an interface goes  *)
(* up or down).  logs.dll and DirectPlay are external: their calls may     *)
(* fail where the code looks at their results.                             *)
(***************************************************************************)
EXTENDS Integers, Sequences, FiniteSets

CONSTANTS
  Addrs,        \* the addresses a server may listen on (IDirectPlay8Address)
  GUARD,        \* nodes FindServerInterface looks at: 256
  MaxConns,     \* bound on the connection list
  MaxLocals     \* bound on the addresses of the server at one time

ASSUME BoundsAssumption ==
  /\ GUARD \in Nat /\ MaxConns \in Nat /\ MaxLocals \in Nat
  /\ IsFiniteSet(Addrs)

VARIABLES
  conns,        \* the list, newest first; TRUE: an open server connection
  locals,       \* what GetLocalHostAddresses reports
  hosts,        \* discovered-host entries; each holds one reference
  found,        \* found-host handle at a1 + 132: the entry's address, or none
  refs,         \* references to each address object not yet released
  pc,           \* place in hook_C430, TryServerAddressJoin, JoinHostAddress
  cnt, arr, i,  \* locals of TryServerAddressJoin
  result,       \* its result: -1, 0 (is_ok) or 1 (another error)
  called,       \* history: hook_C430 was called at all
  joined,       \* history: the address iJoin succeeded with in this call, or none
  stock         \* history: orig_C430 ran in this call

env  == <<conns, locals>>
game == <<hosts, found, refs>>
hook == <<cnt, arr, i, result>>
seen == <<called, joined, stock>>
vars == <<env, game, pc, hook, seen>>

Untried == -1
Ok      == 0
Failed  == 1

Goes(here, there) == pc = here /\ pc' = there

-----------------------------------------------------------------------------
(* The surroundings. *)

\* NET_DP8_InitConnection pushes a node at the head of the list.
InitConnection ==
  /\ Len(conns) < MaxConns
  /\ \E server \in BOOLEAN : conns' = <<server>> \o conns
  /\ UNCHANGED <<locals, game, pc, hook, seen>>

\* A server connection is closed: its interface pointer becomes NULL.
CloseServer ==
  /\ pc = "idle"
  /\ \E n \in DOMAIN conns : conns[n] /\ conns' = [conns EXCEPT ![n] = FALSE]
  /\ UNCHANGED <<locals, game, pc, hook, seen>>

AddressesChange ==
  /\ \E n \in 0 .. MaxLocals : locals' \in [1 .. n -> Addrs]
  /\ UNCHANGED <<conns, game, pc, hook, seen>>

-----------------------------------------------------------------------------
(* hook_C430. *)

\* Types 3 and 4 are the DirectPlay connections; the signatures may be missing.
Call ==
  /\ pc = "idle"
  /\ pc' \in {"find", "stock"}
  /\ result' = Untried
  /\ called' = TRUE /\ joined' = {} /\ stock' = FALSE
  /\ UNCHANGED <<env, game, cnt, arr, i>>

FindServerInterface ==
  /\ pc = "find"
  /\ pc' = IF \E n \in DOMAIN conns : n <= GUARD /\ conns[n] THEN "count" ELSE "decide"
  /\ UNCHANGED <<env, game, hook, seen>>

\* GetLocalHostAddresses(NULL, &cnt), which leaves 0 when it fails.
CountAddresses ==
  /\ pc = "count"
  /\ cnt' \in {0, Len(locals)}
  /\ pc' = IF cnt' = 0 THEN "decide" ELSE "get"
  /\ UNCHANGED <<env, game, arr, i, result, seen>>

\* How often address a is in the array.
Copies(array, a) == Cardinality({ n \in DOMAIN array : array[n] = a })

\* calloc or GetLocalHostAddresses(arr, &cnt) fails; the latter must, if there
\* are more addresses now than were counted.
GetFails ==
  /\ Goes("get", "decide")
  /\ UNCHANGED <<env, game, hook, seen>>

GetAddresses ==
  /\ Goes("get", "try")
  /\ Len(locals) <= cnt
  /\ cnt' = Len(locals) /\ arr' = locals /\ i' = 1
  /\ refs' = [a \in Addrs |-> refs[a] + Copies(locals, a)]
  /\ UNCHANGED <<env, hosts, found, result, seen>>

TriesAll  == i <= cnt                   \* WRONG: goes on after a join
TriesMore == i <= cnt /\ result # Ok

\* NET_internal_2E10 makes or refreshes the entry of the address.
InjectHost ==
  /\ Goes("try", "join") /\ TriesMore
  /\ hosts' = hosts \union {arr[i]}
  /\ refs' = IF arr[i] \in hosts THEN refs ELSE [refs EXCEPT ![arr[i]] = @ + 1]
  /\ found' = {arr[i]}
  /\ UNCHANGED <<env, hook, seen>>

StaysPut  == i                          \* WRONG: continue skips the ++i
NextIndex == i + 1

InjectFails ==
  /\ Goes("try", "try") /\ TriesMore
  /\ i' = NextIndex
  /\ UNCHANGED <<env, game, cnt, arr, result, seen>>

RefsLessOne    == [refs EXCEPT ![arr[i]] = @ - 1]   \* WRONG: Release here, too
RefsAfterJoin  == refs

\* NET_iJoinGame.  A result of -1 reads as "the entry could not be built" and
\* leaves the result of an earlier address.
JoinGame ==
  /\ Goes("join", "try")
  /\ \E r \in {Untried, Ok, Failed} :
       /\ result' = IF r = Untried THEN result ELSE r
       /\ joined' = IF r = Ok THEN joined \union found ELSE joined
  /\ i' = NextIndex
  /\ refs' = RefsAfterJoin
  /\ UNCHANGED <<env, hosts, found, cnt, arr, called, stock>>

ReleasedTried == 1 .. i - 1             \* WRONG: only those it tried
Released      == 1 .. cnt

ReleaseAddresses ==
  /\ Goes("try", "decide") /\ ~TriesMore
  /\ refs' = [a \in Addrs |-> refs[a] - Cardinality({ n \in Released : arr[n] = a })]
  /\ arr' = <<>>
  /\ UNCHANGED <<env, hosts, found, cnt, i, result, seen>>

IsAnswered == result # Untried          \* WRONG: any result but -1 is a join
HasJoined  == result = Ok

Decide ==
  /\ pc = "decide"
  /\ pc' = IF HasJoined THEN "idle" ELSE "stock"
  /\ UNCHANGED <<env, game, hook, seen>>

\* orig_C430: EnumHosts, 7 s of waiting, and perhaps a join of its own.
StockEnum ==
  /\ Goes("stock", "idle")
  /\ stock' = TRUE
  /\ found' \in SUBSET hosts /\ Cardinality(found') <= 1
  /\ UNCHANGED <<env, hosts, refs, hook, called, joined>>

-----------------------------------------------------------------------------
Init ==
  /\ conns = <<>> /\ locals = <<>>
  /\ hosts = {} /\ found = {} /\ refs = [a \in Addrs |-> 0]
  /\ pc = "idle" /\ cnt = 0 /\ arr = <<>> /\ i = 1 /\ result = Untried
  /\ called = FALSE /\ joined = {} /\ stock = FALSE

HookStep ==
  \/ FindServerInterface \/ CountAddresses
  \/ GetFails \/ GetAddresses
  \/ InjectHost \/ InjectFails \/ JoinGame
  \/ ReleaseAddresses \/ Decide \/ StockEnum

Next == InitConnection \/ CloseServer \/ AddressesChange \/ Call \/ HookStep

Spec == Init /\ [][Next]_vars

-----------------------------------------------------------------------------
(* Properties. *)

\* Every variable has its type; no address object is released too often.
TypeOK ==
  /\ conns \in Seq(BOOLEAN) /\ locals \in Seq(Addrs)
  /\ hosts \subseteq Addrs /\ found \subseteq Addrs /\ refs \in [Addrs -> Nat]
  /\ pc \in {"idle", "find", "count", "get", "try", "join", "decide", "stock"}
  /\ cnt \in Nat /\ arr \in Seq(Addrs) /\ i \in Nat \ {0}
  /\ result \in {Untried, Ok, Failed} /\ joined \subseteq Addrs
  /\ called \in BOOLEAN /\ stock \in BOOLEAN

\* Every address object has one reference for each place that still needs it:
\* the array of the running call and the discovered-host entry.  So none leaks
\* and none is freed under either, whichever calls fail, however many addresses
\* were tried and whatever the network does between the two queries.
RefsBalanced ==
  \A a \in Addrs : refs[a] = Copies(arr, a) + (IF a \in hosts THEN 1 ELSE 0)

\* A call joins the session one way only, and never none: at most one address was
\* joined, the found-host handle is still that of its entry when the hook returns,
\* and by then the stock enumeration ran exactly if no address could be joined.
OneWayIn ==
  /\ \A a, b \in joined : a = b
  /\ pc = "idle" /\ called => (stock <=> joined = {})
  /\ pc = "idle" /\ joined # {} => found = joined /\ found \subseteq hosts

\* Why they hold: what the place in the code says of the array and of the join.
InLoop == pc \in {"try", "join"}

PlaceInv ==
  /\ IF InLoop THEN cnt = Len(arr) ELSE arr = <<>>
  /\ pc = "join" => i <= cnt /\ found = {arr[i]} /\ found \subseteq hosts
  /\ pc = "join" => result # Ok
  /\ joined # {} <=> result = Ok
  /\ joined # {} => found = joined /\ found \subseteq hosts
  /\ pc = "stock" => joined = {}
  /\ pc # "idle" => called /\ ~stock

IInv == TypeOK /\ RefsBalanced /\ OneWayIn /\ PlaceInv

\* A call of the hook returns, if the calls it makes do, however often the
\* addresses change meanwhile.
FairSpec == Spec /\ WF_vars(HookStep)

CallReturns == pc # "idle" ~> pc = "idle"
=============================================================================
