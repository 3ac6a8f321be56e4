----------------------------- MODULE MCAlgorithms -----------------------------
(* The two algorithms over bounded inputs: first every function's start is copied, *)
(* or not one instruction is and the texts grow.                               *)
EXTENDS Trampoline, Datagram

AlgInit == Init /\ Start

CopyStep == Next /\ pairs = <<>> /\ lead = <<>> /\ UNCHANGED textVars
TextStep == Grow /\ oldPos = 0 /\ status = "copying" /\ UNCHANGED vars

AlgSpec == AlgInit /\ [][CopyStep \/ TextStep]_<<vars, textVars>>
===============================================================================
