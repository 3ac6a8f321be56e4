----------------------------- MODULE PortLeases -----------------------------
(***************************************************************************)
(* What upnp_ports.cpp promises about the router, with no thread, lock or  *)
(* queue in sight.  The shim keeps a book of port leases.  It takes a      *)
(* lease only for a (port, protocol) pair the book does not hold yet, and  *)
(* it gives leases back only in a sweep: once a sweep has begun nothing is *)
(* leased until the book is empty.                                         *)
(*                                                                         *)
(* UPnPPorts implements this module: see UPnPProperties!Promise.           *)
(***************************************************************************)

CONSTANT Lease          \* records with at least the fields port and tcp

VARIABLES
  book,                 \* the leases held
  sweeping              \* a sweep is under way

leaseVars == <<book, sweeping>>

SamePort(a, b) == a.port = b.port /\ a.tcp = b.tcp

Init ==
  /\ book = {}
  /\ sweeping = FALSE

Take(m) ==
  /\ ~sweeping
  /\ \A n \in book : ~SamePort(m, n)
  /\ book' = book \union {m}
  /\ UNCHANGED sweeping

BeginSweep ==
  /\ ~sweeping
  /\ sweeping' = TRUE
  /\ UNCHANGED book

GiveBack(m) ==
  /\ sweeping
  /\ m \in book
  /\ book' = book \ {m}
  /\ UNCHANGED sweeping

EndSweep ==
  /\ sweeping
  /\ book = {}
  /\ sweeping' = FALSE
  /\ UNCHANGED book

Next ==
  \/ \E m \in Lease : Take(m) \/ GiveBack(m)
  \/ BeginSweep
  \/ EndSweep

Spec == Init /\ [][Next]_leaseVars
=============================================================================
