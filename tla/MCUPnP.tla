------------------------------- MODULE MCUPnP -------------------------------
(***************************************************************************)
(* Small instances of UPnPProperties for TLC.                              *)
(***************************************************************************)
EXTENDS UPnPProperties, TLC

\* Safety only: threads, sockets, ports and handles are interchangeable.
Symmetry ==
  Permutations(Threads) \union Permutations(Sockets)
    \union Permutations(Ports) \union Permutations(Handles)
=============================================================================
