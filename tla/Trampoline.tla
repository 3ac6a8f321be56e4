----------------------------- MODULE Trampoline -----------------------------
(***************************************************************************)
(* CreateTrampolineFunction of minhook/src/trampoline.c, x86: one step for *)
(* each instruction of a function until its first JMP_REL bytes are        *)
(* copied, then the choice of the place for the jump.                      *)
(*                                                                         *)
(* The function is unknown: each step decodes some instruction.  Addresses *)
(* are relative to pTarget; an instruction is what it does, its length and *)
(* where it may jump to.                                                   *)
(***************************************************************************)
EXTENDS Integers, Sequences

CONSTANTS
  Lens,          \* lengths of instructions that do not jump
  pTrampoline,   \* address of the slot
  Far            \* an address outside the function

JMP_REL             == 5    \* size of a long jump or call,
JMP_REL_SHORT       == 2    \* of a short jump,
JCC_REL             == 6    \* of a long conditional jump
TRAMPOLINE_MAX_SIZE == 32
MaxIPs              == 8    \* ARRAYSIZE(ct->oldIPs)

ASSUME LensAssumption == Lens \subseteq 1 .. 15    \* x86 has no longer ones
ASSUME AddressAssumption == Far \in Int \ (0 .. JMP_REL) /\ pTrampoline \in Int

VARIABLES
  oldPos, newPos, jmpDest,
  oldIPs, newIPs,
  insts, copies, \* the instruction at each oldIPs, and what is at newIPs for it
  patchAbove,
  padding,       \* bytes of padding behind the last instruction
  status

posVars == <<oldPos, newPos, jmpDest>>
ipVars  == <<oldIPs, newIPs, insts, copies>>
vars == <<posVars, ipVars, patchAbove, padding, status>>

Inst(op, len, dest) == [op |-> op, len |-> len, dest |-> dest]

IsInternal(dest) == 0 <= dest /\ dest < JMP_REL
Dests == 0 .. JMP_REL - 1 \union {Far}

-----------------------------------------------------------------------------
(* One round of the loop. *)

AltersAnyway(len, size, farthest) == FALSE  \* WRONG: jmpDest is not looked at
AltersBranch(len, size, farthest) == oldPos < farthest /\ size # len

IsTooLarge(size) == newPos + size > TRAMPOLINE_MAX_SIZE \/ Len(oldIPs) >= MaxIPs

Gives(result) == status' = result /\ UNCHANGED <<posVars, ipVars, patchAbove, padding>>

\* The end of a round: copy is written for inst, unless it cannot be.
Write(inst, copy, farthest, finished) ==
  \/ AltersBranch(inst.len, copy.len, farthest) /\ Gives("failed")
  \/ ~AltersBranch(inst.len, copy.len, farthest) /\ IsTooLarge(copy.len) /\ Gives("full")
  \/ /\ ~AltersBranch(inst.len, copy.len, farthest) /\ ~IsTooLarge(copy.len)
     /\ oldIPs' = Append(oldIPs, oldPos) /\ newIPs' = Append(newIPs, newPos)
     /\ insts' = Append(insts, inst) /\ copies' = Append(copies, copy)
     /\ oldPos' = oldPos + inst.len /\ newPos' = newPos + copy.len
     /\ jmpDest' = farthest
     /\ status' = IF finished THEN "copied" ELSE "copying"
     /\ UNCHANGED <<patchAbove, padding>>

WaitsForMore   == oldPos > JMP_REL      \* WRONG: one byte more than the jump needs
IsLongEnough   == oldPos >= JMP_REL

Copying  == status = "copying" /\ ~IsLongEnough
EndsHere == TRUE                        \* WRONG: a branch may lead on
OutOfBranch == oldPos >= jmpDest

Undecodable == status = "copying" /\ Gives("failed")

\* Whatever comes next stays where it is.
JumpToRest ==
  /\ status = "copying" /\ IsLongEnough
  /\ \E len \in Lens :
       Write(Inst("plain", len, Far), Inst("jmp", JMP_REL, oldPos), jmpDest, TRUE)

CopyPlain ==
  /\ Copying
  /\ \E len \in Lens :
       LET inst == Inst("plain", len, Far) IN Write(inst, inst, jmpDest, FALSE)

\* The call leads to the address it did, wherever the copy is.
RewriteCall ==
  /\ Copying
  /\ LET inst == Inst("call", JMP_REL, Far) IN Write(inst, inst, jmpDest, FALSE)

RewriteJmp ==
  /\ Copying
  /\ \E len \in {JMP_REL_SHORT, JMP_REL} :
       Write(Inst("jmp", len, Far), Inst("jmp", JMP_REL, Far), jmpDest, OutOfBranch)

RewriteJcc ==
  /\ Copying
  /\ \E len \in {JMP_REL_SHORT, JCC_REL} :
       Write(Inst("jcc", len, Far), Inst("jcc", JCC_REL, Far), jmpDest, FALSE)

\* LOOP and JECXZ have no long form.
RejectLoop == Copying /\ Gives("failed")

\* Copied as it is, the distance of the jump is what it was.
CopyInternal ==
  /\ Copying
  /\ \E op \in {"jmp", "jcc", "loop"}, dest \in Dests, len \in {JMP_REL_SHORT, JMP_REL, JCC_REL} :
       /\ IsInternal(dest)
       /\ len = JMP_REL => op = "jmp"
       /\ len = JCC_REL => op = "jcc"
       /\ Write(Inst(op, len, dest),
                Inst(op, len, pTrampoline + newPos + (dest - oldPos)),
                IF jmpDest < dest THEN dest ELSE jmpDest, FALSE)

CopyRet ==
  /\ Copying
  /\ \E len \in {1, 3} :
       LET inst == Inst("ret", len, Far) IN Write(inst, inst, jmpDest, OutOfBranch)

-----------------------------------------------------------------------------
(* Where the jump to the detour goes. *)

PadsFirst(bytes) == padding' > 0              \* WRONG: IsCodePadding looks at one byte
Room(bytes)      == oldPos + padding' >= bytes

PlaceJump ==
  /\ status = "copied"
  /\ padding' \in 0 .. JMP_REL
  /\ \E above \in BOOLEAN :        \* there is executable padding above
       /\ patchAbove' = ~Room(JMP_REL)
       /\ status' = IF Room(JMP_REL) \/ (Room(JMP_REL_SHORT) /\ above) THEN "done" ELSE "failed"
  /\ UNCHANGED <<posVars, ipVars>>

-----------------------------------------------------------------------------
Init ==
  /\ oldPos = 0 /\ newPos = 0 /\ jmpDest = 0
  /\ oldIPs = <<>> /\ newIPs = <<>> /\ insts = <<>> /\ copies = <<>>
  /\ patchAbove = FALSE /\ padding = 0 /\ status = "copying"

Next ==
  \/ Undecodable \/ JumpToRest \/ CopyPlain
  \/ RewriteCall \/ RewriteJmp \/ RewriteJcc \/ RejectLoop \/ CopyInternal \/ CopyRet
  \/ PlaceJump

Spec == Init /\ [][Next]_vars

-----------------------------------------------------------------------------
(* Properties. *)

Copied == DOMAIN insts

\* The function is code a compiler writes: no jump leads into an instruction.
WellFormed ==
  \A i, k \in Copied :
    ~(oldIPs[k] < insts[i].dest /\ insts[i].dest < oldIPs[k] + insts[k].len /\ oldIPs[k] < JMP_REL)

\* A jump back, over an instruction that is longer in its copy.
BackOverAltered ==
  \E i, k \in Copied :
    /\ IsInternal(insts[i].dest) /\ insts[i].dest <= oldIPs[k] /\ k < i
    /\ copies[k].len # insts[k].len

\* The copy of instruction i jumps to the copy of where i jumps to.
JumpsRight(i) ==
  \/ ~IsInternal(insts[i].dest) /\ copies[i].dest = insts[i].dest
  \/ \E j \in Copied : oldIPs[j] = insts[i].dest /\ copies[i].dest = pTrampoline + newIPs[j]

\* "Simply copy an internal jump" (trampoline.c:190): the trampoline does what the
\* function did.  Each copy jumps to the copy of where the original jumps to or
\* to the same place outside, is followed by the copy of the next instruction,
\* and the last leads on to the rest of the function or out of it.
Faithful ==
  (status = "done" /\ WellFormed) =>
    \A i \in Copied :
      \/ /\ oldIPs[i] >= JMP_REL
         /\ copies[i] = Inst("jmp", JMP_REL, oldIPs[i])
      \/ /\ oldIPs[i] < JMP_REL /\ copies[i].op = insts[i].op /\ JumpsRight(i)
         /\ \/ insts[i].op \in {"jmp", "ret"}
            \/ /\ i + 1 \in Copied
               /\ oldIPs[i + 1] = oldIPs[i] + insts[i].len
               /\ newIPs[i + 1] = newIPs[i] + copies[i].len

\* So it is, unless a jump leads back over an instruction that grew: the check of
\* lengths knows of jumps ahead only.
FaithfulForwards == BackOverAltered \/ Faithful

\* The jump to the detour is written over instructions that were copied, each of
\* whose boundaries Freeze can translate, and over padding.
PatchesOwnBytes ==
  status = "done" =>
    LET size == IF patchAbove THEN JMP_REL_SHORT ELSE JMP_REL
        last == Len(insts) IN
      /\ oldIPs[1] = 0
      /\ \A i \in 1 .. last - 1 : oldIPs[i] + insts[i].len = oldIPs[i + 1]
      /\ oldIPs[last] >= size \/ oldIPs[last] + insts[last].len + padding >= size

\* A slot and the arrays have room for the copy of any function: "Trampoline
\* function is too large" does not happen on x86.
SlotSuffices == status # "full"
=============================================================================
