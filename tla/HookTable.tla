------------------------------ MODULE HookTable ------------------------------
(***************************************************************************)
(* What the hooking library promises to those that call it, one at a time: *)
(* a hook is made once, disabled, and has a slot for its trampoline that   *)
(* no other hook has and that stays the same until the hook is gone; it is *)
(* removed only when it is disabled.                                       *)
(***************************************************************************)
EXTENDS Functions

CONSTANTS Targets, Slots

VARIABLES
  trampoline,    \* the slot of each function that has a hook
  enabled        \* functions whose hook is enabled

vars == <<trampoline, enabled>>

Created == DOMAIN trampoline

Init == trampoline = [f \in {} |-> f] /\ enabled = {}

Create(f) ==
  /\ f \notin Created
  /\ \E s \in Slots \ Range(trampoline) :
       trampoline' = [g \in Created \union {f} |-> IF g = f THEN s ELSE trampoline[g]]
  /\ UNCHANGED enabled

Enable(f) ==
  /\ f \in Created \ enabled
  /\ enabled' = enabled \union {f}
  /\ UNCHANGED trampoline

Disable(f) ==
  /\ enabled' = enabled \ {f}
  /\ UNCHANGED trampoline

Remove(f) ==
  /\ f \in Created \ enabled
  /\ trampoline' = Restrict(trampoline, Created \ {f})
  /\ UNCHANGED enabled

RemoveAll ==
  /\ enabled = {}
  /\ trampoline' = [f \in {} |-> f]
  /\ UNCHANGED enabled

Next ==
  \/ \E f \in Targets : Create(f) \/ Enable(f) \/ Disable(f) \/ Remove(f)
  \/ RemoveAll

Spec == Init /\ [][Next]_vars
=============================================================================
