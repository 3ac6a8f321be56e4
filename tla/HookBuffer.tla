----------------------------- MODULE HookBuffer -----------------------------
(***************************************************************************)
(* minhook/src/buffer.c, x86: the memory that trampolines are written to.  *)
(*                                                                         *)
(* The list of blocks is a sequence, its head first, and the free list of  *)
(* a block a sequence of slot numbers.  Slot 0 holds the block's header.   *)
(* The operators take the list that g_pMemoryBlocks heads.                 *)
(***************************************************************************)
EXTENDS Integers, Sequences, SequencesExt

CONSTANTS
  Blocks,        \* addresses that VirtualAlloc may return
  LastSlot       \* a block has room for the slots 0 .. LastSlot

ASSUME SlotsAssumption == LastSlot \in Nat \ {0}

Slot  == [block : Blocks, at : 1 .. LastSlot]
Block == [base : Blocks, pFree : Seq(1 .. LastSlot), usedCount : 0 .. LastSlot]

Bases(list) == { list[i].base : i \in DOMAIN list }

\* A new block: the slots are pushed on the free list from the first to the last.
NewBlock(base) ==
  [base |-> base, pFree |-> Reverse([k \in 1 .. LastSlot |-> k]), usedCount |-> 0]

WithRoom(list) == { i \in DOMAIN list : list[i].pFree # <<>> }

\* The list, with a new block in front if there is no free slot in it.
GetMemoryBlock(list, base) ==
  IF WithRoom(list) = {} THEN <<NewBlock(base)>> \o list ELSE list

Chosen(list) == CHOOSE i \in WithRoom(list) : \A j \in WithRoom(list) : i <= j

KeepsSlot(pFree) == pFree               \* WRONG: the slot stays in the free list
NextFree(pFree)  == Tail(pFree)

\* The slot it returns, and the list after it.
AllocateBuffer(list, base) ==
  LET room == GetMemoryBlock(list, base)
      i    == Chosen(room) IN
    [slot |-> [block |-> room[i].base, at |-> Head(room[i].pFree)],
     list |-> [room EXCEPT ![i] =
       [base |-> @.base, pFree |-> NextFree(@.pFree), usedCount |-> @.usedCount + 1]]]

UnlinksHead(list, i) == RemoveAt(list, 1)  \* WRONG: pPrev is not looked at
Unlink(list, i)      == RemoveAt(list, i)

\* The slot goes back to its block, and the block to the system with its last.
FreeBuffer(list, slot) ==
  LET i     == CHOOSE j \in DOMAIN list : list[j].base = slot.block
      freed == [list EXCEPT ![i] =
        [base |-> @.base, pFree |-> <<slot.at>> \o @.pFree, usedCount |-> @.usedCount - 1]] IN
    IF freed[i].usedCount = 0 THEN Unlink(list, i) ELSE freed
=============================================================================
