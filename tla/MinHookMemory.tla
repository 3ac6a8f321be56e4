---------------------------- MODULE MinHookMemory ----------------------------
(***************************************************************************)
(* hook.c and buffer.c together: where the trampolines of the hooks are.   *)
(***************************************************************************)
EXTENDS MinHook, HookBuffer, Functions

VARIABLES
  g_pMemoryBlocks,
  pTrampoline    \* the slot of each hook entry, by target

memoryVars == <<g_pMemoryBlocks, pTrampoline>>

\* AllocateBuffer comes before the steps of MH_CreateHook that may fail, and
\* FreeBuffer after them.
CreateHookIn(c) ==
  /\ CreateHook(c)
  /\ \E base \in Blocks \ Bases(g_pMemoryBlocks) :
       LET f   == op[c].target
           new == AllocateBuffer(g_pMemoryBlocks, base) IN
         \/ /\ f \in slots' \ slots
            /\ pTrampoline' = [g \in slots' |-> IF g = f THEN new.slot ELSE pTrampoline[g]]
            /\ g_pMemoryBlocks' = new.list
         \/ /\ slots' = slots /\ g_hHeap /\ f # All /\ IsNew(f)
            /\ g_pMemoryBlocks' = FreeBuffer(new.list, new.slot)
            /\ UNCHANGED pTrampoline
         \/ slots' = slots /\ UNCHANGED memoryVars

RemoveHookFrom(c) ==
  /\ RemoveHook(c)
  /\ LET f == op[c].target IN
       /\ g_pMemoryBlocks' = FreeBuffer(g_pMemoryBlocks, pTrampoline[f])
       /\ pTrampoline' = Restrict(pTrampoline, DOMAIN pTrampoline \ {f})

UninitializeBuffer(c) ==
  /\ Uninitialize(c)
  /\ g_pMemoryBlocks' = <<>> /\ pTrampoline' = [f \in {} |-> f]

-----------------------------------------------------------------------------
MemInit == Init /\ g_pMemoryBlocks = <<>> /\ pTrampoline = [f \in {} |-> f]

MemNext ==
  \/ \E c \in Callers : CreateHookIn(c) \/ RemoveHookFrom(c) \/ UninitializeBuffer(c)
  \/ Next /\ slots' = slots /\ UNCHANGED memoryVars

MemSpec == MemInit /\ [][MemNext]_<<vars, memoryVars>>

-----------------------------------------------------------------------------
(* Properties. *)

InUse(base) == { f \in DOMAIN pTrampoline : pTrampoline[f].block = base }

\* Whatever the order in which hooks are made, fail to be made and are removed:
\* each hook has a slot of a block of the list, a free list holds once each
\* slot of the block that no hook has, usedCount is the number of the others,
\* and a block without hooks is not kept.
MemoryConsistent ==
  /\ g_pMemoryBlocks \in Seq(Block) /\ pTrampoline \in [slots -> Slot]
  /\ \A i, j \in DOMAIN g_pMemoryBlocks :
       g_pMemoryBlocks[i].base = g_pMemoryBlocks[j].base => i = j
  /\ \A f \in DOMAIN pTrampoline : pTrampoline[f].block \in Bases(g_pMemoryBlocks)
  /\ \A i \in DOMAIN g_pMemoryBlocks :
       LET b == g_pMemoryBlocks[i] IN
         /\ b.usedCount = Cardinality(InUse(b.base)) /\ b.usedCount > 0
         /\ ToSet(b.pFree) = (1 .. LastSlot) \ { pTrampoline[f].at : f \in InUse(b.base) }
         /\ Len(b.pFree) = LastSlot - b.usedCount

\* hook.c over buffer.c does what HookTable says: no trampoline is written over
\* that of another hook or moved, and none is freed while the jump leads to it.
Table == INSTANCE HookTable WITH
  Slots <- Slot, trampoline <- pTrampoline, enabled <- code

ImplementsHookTable == Table!Spec
=============================================================================
