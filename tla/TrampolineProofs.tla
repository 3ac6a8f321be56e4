-------------------------- MODULE TrampolineProofs --------------------------
(***************************************************************************)
(* Proofs about Trampoline, whatever the function and wherever the slot    *)
(* is: the copy of a function's start fits its slot and the arrays (IInv), *)
(* only the function's own bytes are patched, and the copy does what the   *)
(* function did (CopyInv).                                                 *)
(***************************************************************************)
EXTENDS Trampoline, TLAPS

Sizes == 1 .. 15
Ops   == {"plain", "call", "jmp", "jcc", "loop", "ret"}

\* What the sequences hold.
Shape ==
  /\ oldPos \in Nat /\ newPos \in Nat /\ jmpDest \in Nat
  /\ padding \in Nat /\ patchAbove \in BOOLEAN
  /\ status \in {"copying", "copied", "done", "failed", "full"}
  /\ oldIPs \in Seq(Nat)
  /\ insts \in Seq([op : Ops, len : Sizes, dest : Int])
  /\ Len(insts) = Len(oldIPs)

\* The copies have room: before the last one that is needed, an instruction of
\* the function takes at most three times its size in the slot, and the last
\* adds at most fifteen bytes; each instruction has a byte at least.
Fits ==
  /\ status # "full"
  /\ status = "copying" =>
       /\ oldPos < JMP_REL => newPos <= 3 * oldPos /\ Len(oldIPs) <= oldPos
       /\ newPos <= 27 /\ Len(oldIPs) <= JMP_REL

\* The instructions follow one another, from the first byte on.
Chained ==
  /\ Len(oldIPs) = 0 => oldPos = 0
  /\ Len(oldIPs) > 0 =>
       /\ oldIPs[1] = 0
       /\ oldPos = oldIPs[Len(oldIPs)] + insts[Len(insts)].len
  /\ \A i \in 1 .. Len(insts) - 1 : oldIPs[i] + insts[i].len = oldIPs[i + 1]
  /\ status \in {"copied", "done"} => Len(oldIPs) > 0

\* What PlaceJump decided.
Placed ==
  status = "done" =>
    IF patchAbove THEN oldPos + padding >= JMP_REL_SHORT ELSE oldPos + padding >= JMP_REL

IInv == Shape /\ Fits /\ Chained /\ Placed

-----------------------------------------------------------------------------
(* Every round of the loop is a Write of one instruction. *)

\* An instruction and its copy as a round may write them: at first the copy is no
\* longer than fifteen bytes or three times the instruction; then it is the jump.
MayWrite(inst, copy, finished) ==
  /\ inst \in [op : Ops, len : Sizes, dest : Int]
  /\ copy.len \in Sizes
  /\ \/ oldPos < JMP_REL /\ copy.len <= 3 * inst.len
     \/ oldPos >= JMP_REL /\ copy.len = JMP_REL /\ finished

\* A round keeps the invariant.
LEMMA WriteKeeps ==
  ASSUME IInv, status = "copying",
         NEW inst, NEW copy, NEW farthest \in Nat, NEW finished \in BOOLEAN,
         MayWrite(inst, copy, finished), Write(inst, copy, farthest, finished)
  PROVE  IInv'
<1>0. /\ oldIPs \in Seq(Nat) /\ insts \in Seq([op : Ops, len : Sizes, dest : Int])
      /\ oldPos \in Nat /\ newPos \in Nat /\ Len(oldIPs) \in Nat
      /\ newPos + copy.len <= 32 /\ Len(oldIPs) <= 5
      /\ finished \/ (/\ oldPos < 5 /\ newPos <= 3 * oldPos /\ Len(oldIPs) <= oldPos
                      /\ copy.len <= 3 * inst.len)
      /\ Len(insts) = Len(oldIPs)
      /\ inst.len \in Nat /\ copy.len \in Nat /\ 1 <= inst.len /\ copy.len <= 15
  <2>1. /\ inst.len \in Nat /\ copy.len \in Nat /\ 1 <= inst.len /\ copy.len <= 15
    BY DEF MayWrite, Sizes
  <2>2. /\ oldIPs \in Seq(Nat) /\ insts \in Seq([op : Ops, len : Sizes, dest : Int])
        /\ oldPos \in Nat /\ newPos \in Nat /\ Len(oldIPs) \in Nat /\ Len(insts) = Len(oldIPs)
    BY DEF IInv, Shape
  <2>3. /\ newPos <= 27 /\ Len(oldIPs) <= 5
        /\ oldPos < 5 => newPos <= 3 * oldPos /\ Len(oldIPs) <= oldPos
    BY DEF IInv, Fits, JMP_REL
  <2>4. CASE oldPos < JMP_REL /\ copy.len <= 3 * inst.len
    BY <2>1, <2>2, <2>3, <2>4 DEF JMP_REL
  <2>5. CASE oldPos >= JMP_REL /\ copy.len = JMP_REL /\ finished
    BY <2>1, <2>2, <2>3, <2>5 DEF JMP_REL
  <2> QED BY <2>4, <2>5 DEF MayWrite
<1>1. CASE AltersBranch(inst.len, copy.len, farthest) /\ Gives("failed")
  <2>1. Shape'
    BY <1>1 DEF IInv, Shape, Gives, posVars, ipVars
  <2>2. Fits' /\ Placed'
    BY <1>1 DEF Fits, Placed, Gives
  <2>3. Chained'
    BY <1>1 DEF IInv, Chained, Gives, posVars, ipVars
  <2> QED BY <2>1, <2>2, <2>3 DEF IInv
<1>2. ~IsTooLarge(copy.len)
  BY <1>0 DEF IsTooLarge, TRAMPOLINE_MAX_SIZE, MaxIPs
<1>3. CASE /\ oldIPs' = Append(oldIPs, oldPos) /\ newIPs' = Append(newIPs, newPos)
           /\ insts' = Append(insts, inst) /\ copies' = Append(copies, copy)
           /\ oldPos' = oldPos + inst.len /\ newPos' = newPos + copy.len
           /\ jmpDest' = farthest
           /\ status' = IF finished THEN "copied" ELSE "copying"
           /\ UNCHANGED <<patchAbove, padding>>
  <2>0. /\ Len(oldIPs') = Len(oldIPs) + 1 /\ Len(insts') = Len(insts) + 1
    BY <1>0, <1>3
  <2>a. /\ oldPos' = oldPos + inst.len /\ newPos' = newPos + copy.len
        /\ status' = IF finished THEN "copied" ELSE "copying"
    BY <1>3
  <2>b. oldPos' \in Nat /\ newPos' \in Nat
    BY <1>0, <2>a
  <2>1. Shape'
    <3>1. inst \in [op : Ops, len : Sizes, dest : Int]
      BY DEF MayWrite
    <3>2. oldIPs' \in Seq(Nat) /\ insts' \in Seq([op : Ops, len : Sizes, dest : Int])
      BY <1>0, <1>3, <3>1
    <3>4. status' \in {"copying", "copied", "done", "failed", "full"}
      BY <1>3
    <3> QED BY <1>0, <1>3, <2>0, <2>b, <3>2, <3>4 DEF IInv, Shape
  <2>2. Fits'
    <3>1. CASE finished
      BY <2>a, <3>1 DEF Fits
    <3>2. CASE ~finished
      <4>1. newPos' <= 27 /\ Len(oldIPs') <= 5
        BY <1>0, <2>0, <2>a, <3>2
      <4>2. oldPos' < 5 => newPos' <= 3 * oldPos' /\ Len(oldIPs') <= oldPos'
        <5>1. /\ newPos <= 3 * oldPos /\ Len(oldIPs) <= oldPos
              /\ copy.len <= 3 * inst.len
          BY <1>0, <3>2
        <5>2. newPos + copy.len <= 3 * (oldPos + inst.len)
          BY <1>0, <5>1
        <5> QED BY <1>0, <2>0, <2>a, <5>1, <5>2
      <4> QED BY <2>a, <3>2, <4>1, <4>2 DEF Fits, JMP_REL
    <3> QED BY <3>1, <3>2
  <2>3. Chained'
    <3> DEFINE n == Len(oldIPs)
    <3>1. n + 1 \in Nat /\ Len(oldIPs') = n + 1 /\ Len(insts') = n + 1
      BY <1>0, <2>0
    <3>2. oldIPs'[n + 1] = oldPos /\ insts'[n + 1] = inst
      BY <1>0, <1>3
    <3>3. \A i \in 1 .. n : oldIPs'[i] = oldIPs[i] /\ insts'[i] = insts[i]
      BY <1>0, <1>3
    <3>4. CASE n = 0
      BY <1>3, <3>1, <3>2, <3>4 DEF IInv, Chained
    <3>5. CASE n > 0
      <4>1. oldIPs'[1] = 0
        BY <3>1, <3>3, <3>5 DEF IInv, Chained
      <4>2. oldIPs'[n] + insts'[n].len = oldIPs'[n + 1]
        BY <1>0, <3>1, <3>2, <3>3, <3>5 DEF IInv, Chained
      <4>3. ASSUME NEW i \in 1 .. n  PROVE oldIPs'[i] + insts'[i].len = oldIPs'[i + 1]
        <5>1. CASE i = n
          BY <4>2, <5>1
        <5>2. CASE i < n
          <6>1. i \in 1 .. Len(insts) - 1 /\ i + 1 \in 1 .. n
            BY <1>0, <5>2
          <6> QED BY <3>3, <6>1 DEF IInv, Chained
        <5> QED BY <5>1, <5>2, <3>1
      <4>4. 1 .. Len(insts') - 1 = 1 .. n
        BY <1>0, <3>1
      <4>5. oldPos' = oldIPs'[n + 1] + insts'[n + 1].len
        BY <2>a, <3>2
      <4>6. Len(oldIPs') > 0
        BY <1>0, <3>1
      <4>7. \A i \in 1 .. Len(insts') - 1 : oldIPs'[i] + insts'[i].len = oldIPs'[i + 1]
        BY <4>3, <4>4
      <4>8. oldPos' = oldIPs'[Len(oldIPs')] + insts'[Len(insts')].len
        BY <3>1, <4>5
      <4>9. Len(oldIPs') # 0
        BY <4>6, <3>1
      <4> QED BY <4>1, <4>6, <4>7, <4>8, <4>9 DEF Chained
    <3> QED BY <1>0, <3>4, <3>5
  <2>4. Placed'
    BY <1>3 DEF Placed
  <2> QED BY <2>1, <2>2, <2>3, <2>4 DEF IInv
<1> QED BY <1>1, <1>2, <1>3 DEF Write
\* A copy that is short enough may be written while bytes are missing.
LEMMA ShortCopy ==
  ASSUME NEW op \in Ops, NEW len \in Sizes, NEW dest \in Int,
         NEW copyOp, NEW size \in Sizes, NEW copyDest, NEW finished,
         oldPos < JMP_REL, size <= 3 * len
  PROVE  MayWrite(Inst(op, len, dest), Inst(copyOp, size, copyDest), finished)
BY DEF MayWrite, Inst

-----------------------------------------------------------------------------
(* The invariant. *)

\* Before the first instruction nothing is copied.
LEMMA InitInv == Init => IInv
<1> SUFFICES ASSUME Init  PROVE IInv
  OBVIOUS
<1>1. Shape
  <2>1. oldIPs \in Seq(Nat) /\ insts \in Seq([op : Ops, len : Sizes, dest : Int])
    BY DEF Init
  <2> QED BY <2>1 DEF Init, Shape
<1>2. Len(oldIPs) = 0 /\ Len(insts) = 0
  BY DEF Init
<1>3. Fits /\ Placed
  BY <1>2 DEF Init, Fits, Placed, JMP_REL
<1>4. Chained
  BY <1>2 DEF Init, Chained
<1> QED BY <1>1, <1>3, <1>4 DEF IInv

\* Each kind of instruction writes what WriteKeeps asks for; PlaceJump only decides.
LEMMA StepInv == IInv /\ [Next]_vars => IInv'
<1> SUFFICES ASSUME IInv, [Next]_vars  PROVE IInv'
  OBVIOUS
<1> USE LensAssumption, AddressAssumption
<1>0. oldPos \in Nat /\ newPos \in Nat /\ jmpDest \in Nat
  BY DEF IInv, Shape
<1>a. Far \in Int /\ JMP_REL \in Sizes /\ JMP_REL_SHORT \in Sizes /\ JCC_REL \in Sizes
      /\ Lens \subseteq Sizes
      /\ {"plain", "call", "jmp", "jcc", "loop", "ret"} \subseteq Ops
  BY DEF Ops, Sizes, JMP_REL, JMP_REL_SHORT, JCC_REL
<1>b. Copying => status = "copying" /\ oldPos < JMP_REL
  BY <1>0 DEF Copying, IsLongEnough, JMP_REL
<1>c. OutOfBranch \in BOOLEAN
  BY DEF OutOfBranch
<1>1. CASE Undecodable \/ RejectLoop
  <2>1. Gives("failed")
    BY <1>1 DEF Undecodable, RejectLoop
  <2> QED BY <2>1 DEF IInv, Shape, Fits, Chained, Placed, Gives, posVars, ipVars
<1>2. CASE JumpToRest
  <2>1. PICK len \in Lens :
          Write(Inst("plain", len, Far), Inst("jmp", JMP_REL, oldPos), jmpDest, TRUE)
    BY <1>2 DEF JumpToRest
  <2>2. MayWrite(Inst("plain", len, Far), Inst("jmp", JMP_REL, oldPos), TRUE)
    <3>1. oldPos >= JMP_REL /\ "plain" \in Ops
      BY <1>2 DEF JumpToRest, IsLongEnough, Ops
    <3> QED BY <1>a, <3>1 DEF MayWrite, Inst
  <2> QED BY <1>0, <1>2, <2>1, <2>2, WriteKeeps DEF JumpToRest
<1>3. CASE CopyPlain
  <2>1. PICK len \in Lens :
          Write(Inst("plain", len, Far), Inst("plain", len, Far), jmpDest, FALSE)
    BY <1>3 DEF CopyPlain
  <2>2. MayWrite(Inst("plain", len, Far), Inst("plain", len, Far), FALSE)
    <3>1. len \in Sizes /\ len <= 3 * len
      BY <1>0, <1>a, <2>1 DEF Sizes, JMP_REL, JMP_REL_SHORT, JCC_REL
    <3> QED BY <1>a, <1>b, <1>3, <3>1, ShortCopy DEF CopyPlain
  <2> QED BY <1>0, <1>3, <2>1, <2>2, WriteKeeps DEF CopyPlain, Copying
<1>4. CASE RewriteCall
  <2>1. Write(Inst("call", JMP_REL, Far), Inst("call", JMP_REL, Far), jmpDest, FALSE)
    BY <1>4 DEF RewriteCall
  <2>2. MayWrite(Inst("call", JMP_REL, Far), Inst("call", JMP_REL, Far), FALSE)
    <3>1. JMP_REL <= 3 * JMP_REL
      BY <1>0, <1>a DEF Sizes, JMP_REL, JMP_REL_SHORT, JCC_REL
    <3> QED BY <1>a, <1>b, <1>4, <3>1, ShortCopy DEF RewriteCall
  <2> QED BY <1>0, <1>4, <2>1, <2>2, WriteKeeps DEF RewriteCall, Copying
<1>5. CASE RewriteJmp
  <2>1. PICK len \in {JMP_REL_SHORT, JMP_REL} :
          Write(Inst("jmp", len, Far), Inst("jmp", JMP_REL, Far), jmpDest, OutOfBranch)
    BY <1>5 DEF RewriteJmp
  <2>2. MayWrite(Inst("jmp", len, Far), Inst("jmp", JMP_REL, Far), OutOfBranch)
    <3>1. len \in Sizes /\ JMP_REL <= 3 * len
      BY <1>0, <1>a, <2>1 DEF Sizes, JMP_REL, JMP_REL_SHORT, JCC_REL
    <3> QED BY <1>a, <1>b, <1>5, <3>1, ShortCopy DEF RewriteJmp
  <2> QED BY <1>0, <1>5, <2>1, <2>2, <1>c, WriteKeeps DEF RewriteJmp, Copying
<1>6. CASE RewriteJcc
  <2>1. PICK len \in {JMP_REL_SHORT, JCC_REL} :
          Write(Inst("jcc", len, Far), Inst("jcc", JCC_REL, Far), jmpDest, FALSE)
    BY <1>6 DEF RewriteJcc
  <2>2. MayWrite(Inst("jcc", len, Far), Inst("jcc", JCC_REL, Far), FALSE)
    <3>1. len \in Sizes /\ JCC_REL <= 3 * len
      BY <1>0, <1>a, <2>1 DEF Sizes, JMP_REL, JMP_REL_SHORT, JCC_REL
    <3> QED BY <1>a, <1>b, <1>6, <3>1, ShortCopy DEF RewriteJcc
  <2> QED BY <1>0, <1>6, <2>1, <2>2, WriteKeeps DEF RewriteJcc, Copying
<1>7. CASE CopyInternal
  <2> DEFINE copy(op, len, dest) == Inst(op, len, pTrampoline + newPos + (dest - oldPos))
             far(dest) == IF jmpDest < dest THEN dest ELSE jmpDest
  <2>1. PICK op \in {"jmp", "jcc", "loop"}, dest \in Dests, len \in {JMP_REL_SHORT, JMP_REL, JCC_REL} :
          IsInternal(dest) /\ Write(Inst(op, len, dest), copy(op, len, dest), far(dest), FALSE)
    BY <1>7 DEF CopyInternal
  <2>2. dest \in Int /\ far(dest) \in Nat
    BY <1>0, <2>1 DEF IsInternal, Dests, JMP_REL
  <2>3. MayWrite(Inst(op, len, dest), copy(op, len, dest), FALSE)
    <3>1. len \in Sizes /\ len <= 3 * len
      BY <1>0, <1>a, <2>1 DEF Sizes, JMP_REL, JMP_REL_SHORT, JCC_REL
    <3> QED BY <1>a, <1>b, <1>7, <2>2, <3>1, ShortCopy DEF CopyInternal
  <2> QED BY <1>7, <2>1, <2>2, <2>3, WriteKeeps DEF CopyInternal, Copying
<1>8. CASE CopyRet
  <2>1. PICK len \in {1, 3} :
          Write(Inst("ret", len, Far), Inst("ret", len, Far), jmpDest, OutOfBranch)
    BY <1>8 DEF CopyRet
  <2>2. MayWrite(Inst("ret", len, Far), Inst("ret", len, Far), OutOfBranch)
    <3>1. len \in Sizes /\ len <= 3 * len
      BY <1>0, <1>a, <2>1 DEF Sizes, JMP_REL, JMP_REL_SHORT, JCC_REL
    <3> QED BY <1>a, <1>b, <1>8, <3>1, ShortCopy DEF CopyRet
  <2> QED BY <1>0, <1>8, <2>1, <2>2, <1>c, WriteKeeps DEF CopyRet, Copying
<1>9. CASE PlaceJump
  <2>0. /\ status = "copied" /\ status' \in {"done", "failed"}
        /\ padding' \in Nat /\ patchAbove' \in BOOLEAN
        /\ UNCHANGED <<posVars, ipVars>>
    BY <1>9 DEF PlaceJump, Room, JMP_REL
  <2>1. Shape' /\ Fits' /\ Chained'
    BY <2>0 DEF IInv, Shape, Fits, Chained, posVars, ipVars
  <2>2. Placed'
    BY <1>0, <1>9 DEF Placed, PlaceJump, Room, posVars, JMP_REL, JMP_REL_SHORT
  <2> QED BY <2>1, <2>2 DEF IInv
<1>10. CASE UNCHANGED vars
  BY <1>10 DEF vars, posVars, ipVars, IInv, Shape, Fits, Chained, Placed
<1> QED
  BY <1>1, <1>2, <1>3, <1>4, <1>5, <1>6, <1>7, <1>8, <1>9, <1>10 DEF Next

\* The copy of any function is bounded as Fits says and follows its instructions.
THEOREM Invariance == Spec => []IInv
BY InitInv, StepInv, PTL DEF Spec

\* CreateTrampolineFunction never finds the trampoline too large or with too many
\* instructions (trampoline.c:264, 268): 32 bytes and 8 entries are enough for
\* the first five bytes of any function.
THEOREM SlotIsEnough == Spec => []SlotSuffices
<1>1. IInv => SlotSuffices
  BY DEF IInv, Fits, SlotSuffices
<1> QED BY <1>1, Invariance, PTL

\* EnableHookLL overwrites nothing but the instructions that were copied, one
\* after the other, and padding.
THEOREM OnlyOwnBytes == Spec => []PatchesOwnBytes
<1>1. IInv => PatchesOwnBytes
  <2> SUFFICES ASSUME IInv, status = "done"
               PROVE  PatchesOwnBytes
    BY DEF PatchesOwnBytes
  <2> DEFINE last == Len(insts)
             size == IF patchAbove THEN JMP_REL_SHORT ELSE JMP_REL
  <2>1. /\ oldIPs[1] = 0 /\ oldPos = oldIPs[last] + insts[last].len
        /\ \A i \in 1 .. last - 1 : oldIPs[i] + insts[i].len = oldIPs[i + 1]
    BY DEF IInv, Shape, Chained
  <2>2. oldPos + padding >= size
    BY DEF IInv, Shape, Placed, JMP_REL, JMP_REL_SHORT
  <2> QED BY <2>1, <2>2 DEF PatchesOwnBytes
<1> QED BY <1>1, Invariance, PTL

-----------------------------------------------------------------------------
(* The copy does what the function did. *)

\* What the sequences of the copy hold.
CopyShape ==
  /\ newIPs \in Seq(Nat)
  /\ copies \in Seq([op : Ops, len : Sizes, dest : Int])
  /\ Len(newIPs) = Len(insts) /\ Len(copies) = Len(insts)

\* Each instruction starts behind those before it and ends before the next.
Ordered ==
  \A i \in Copied : oldIPs[i] < oldPos /\ \A k \in 1 .. i - 1 : oldIPs[k] < oldIPs[i]

\* Every byte before oldPos belongs to an instruction.
Covered ==
  \A byte \in Nat : byte < oldPos =>
    \E k \in Copied : oldIPs[k] <= byte /\ byte < oldIPs[k] + insts[k].len

\* The copies follow one another.
CopyChained ==
  /\ Len(insts) > 0 => newPos = newIPs[Len(insts)] + copies[Len(insts)].len
  /\ \A i \in 1 .. Len(insts) - 1 : newIPs[i + 1] = newIPs[i] + copies[i].len

\* The instructions from first to last have the lengths they had.
Kept(first, last) == \A k \in first .. last : copies[k].len = insts[k].len

\* Where nothing grew, the copies are as far apart as the instructions are.
Aligned ==
  \A i \in Copied :
    /\ \A k \in i .. Len(insts) : Kept(i, k - 1) => newIPs[k] - newIPs[i] = oldIPs[k] - oldIPs[i]
    /\ Kept(i, Len(insts)) => newPos - newIPs[i] = oldPos - oldIPs[i]

\* The loop knows of every jump ahead, and nothing under it grew.
AheadKept ==
  \A i \in Copied : IsInternal(insts[i].dest) =>
    /\ insts[i].dest <= jmpDest
    /\ \A k \in i .. Len(insts) : oldIPs[k] < insts[i].dest => copies[k].len = insts[k].len

\* The copy of an instruction at oldIP, written at newIP.
IsCopy(copy, inst, oldIP, newIP) ==
  \/ oldIP >= JMP_REL /\ copy = Inst("jmp", JMP_REL, oldIP)
  \/ /\ oldIP < JMP_REL /\ copy.op = inst.op
     /\ IF IsInternal(inst.dest) THEN copy.dest = pTrampoline + newIP + (inst.dest - oldIP)
                                 ELSE copy.dest = inst.dest

\* The loop ends with the jump to the rest, or with an instruction that does not
\* lead on and that no jump leads over.
MayEnd(inst, oldIP, farthest) ==
  oldIP >= JMP_REL \/ (inst.op \in {"jmp", "ret"} /\ farthest <= oldIP)

CopyInv ==
  /\ CopyShape /\ Ordered /\ Covered /\ CopyChained /\ Aligned /\ AheadKept
  /\ \A i \in Copied : IsCopy(copies[i], insts[i], oldIPs[i], newIPs[i])
  /\ status \in {"copied", "done"} => MayEnd(insts[Len(insts)], oldIPs[Len(insts)], jmpDest)
  /\ jmpDest < JMP_REL

\* What a round that writes an instruction does, entry by entry.
Written(inst, copy, farthest, finished) ==
  LET n == Len(insts) IN
    /\ Len(insts') = n + 1 /\ Copied' = 1 .. n + 1
    /\ \A i \in 1 .. n :
         /\ oldIPs'[i] = oldIPs[i] /\ newIPs'[i] = newIPs[i]
         /\ insts'[i] = insts[i] /\ copies'[i] = copies[i]
    /\ oldIPs'[n + 1] = oldPos /\ newIPs'[n + 1] = newPos
    /\ insts'[n + 1] = inst /\ copies'[n + 1] = copy
    /\ oldPos' = oldPos + inst.len /\ newPos' = newPos + copy.len
    /\ jmpDest' = farthest
    /\ status' = IF finished THEN "copied" ELSE "copying"

\* An instruction and its copy, as the loop pairs them.
Pairs(inst, copy, farthest, finished) ==
  /\ inst \in [op : Ops, len : Sizes, dest : Int] /\ copy \in [op : Ops, len : Sizes, dest : Int]
  /\ farthest \in Nat /\ farthest < JMP_REL /\ jmpDest <= farthest
  /\ IsInternal(inst.dest) => inst.dest <= farthest
  /\ IsCopy(copy, inst, oldPos, newPos)
  /\ finished => MayEnd(inst, oldPos, farthest)

\* The appends, entry by entry.
LEMMA AppendsEach ==
  ASSUME IInv, CopyShape, NEW inst, NEW copy, NEW farthest, NEW finished,
         inst \in [op : Ops, len : Sizes, dest : Int], copy \in [op : Ops, len : Sizes, dest : Int],
         Write(inst, copy, farthest, finished), ~Gives("failed"), ~Gives("full")
  PROVE  /\ Written(inst, copy, farthest, finished) /\ CopyShape'
         /\ ~AltersBranch(inst.len, copy.len, farthest)
<1>1. /\ oldIPs' = Append(oldIPs, oldPos) /\ newIPs' = Append(newIPs, newPos)
      /\ insts' = Append(insts, inst) /\ copies' = Append(copies, copy)
      /\ oldPos' = oldPos + inst.len /\ newPos' = newPos + copy.len
      /\ jmpDest' = farthest
      /\ status' = IF finished THEN "copied" ELSE "copying"
      /\ ~AltersBranch(inst.len, copy.len, farthest)
  <2>1. CASE AltersBranch(inst.len, copy.len, farthest) /\ Gives("failed")
    BY <2>1
  <2>2. CASE ~AltersBranch(inst.len, copy.len, farthest) /\ IsTooLarge(copy.len) /\ Gives("full")
    BY <2>2
  <2> QED BY <2>1, <2>2 DEF Write
<1>2. /\ oldIPs \in Seq(Nat) /\ insts \in Seq([op : Ops, len : Sizes, dest : Int])
      /\ newIPs \in Seq(Nat) /\ copies \in Seq([op : Ops, len : Sizes, dest : Int])
      /\ oldPos \in Nat /\ newPos \in Nat
      /\ Len(oldIPs) = Len(insts) /\ Len(newIPs) = Len(insts) /\ Len(copies) = Len(insts)
  BY DEF IInv, Shape, CopyShape
<1>3. /\ Len(insts') = Len(insts) + 1 /\ Len(newIPs') = Len(insts) + 1
      /\ Len(copies') = Len(insts) + 1
  BY <1>1, <1>2
<1>4. \A i \in 1 .. Len(insts) : oldIPs'[i] = oldIPs[i] /\ newIPs'[i] = newIPs[i]
  <2>1. \A i \in 1 .. Len(oldIPs) : oldIPs'[i] = oldIPs[i]
    BY <1>1, <1>2
  <2>2. \A i \in 1 .. Len(newIPs) : newIPs'[i] = newIPs[i]
    BY <1>1, <1>2
  <2> QED BY <1>2, <2>1, <2>2
<1>5. \A i \in 1 .. Len(insts) : insts'[i] = insts[i] /\ copies'[i] = copies[i]
  BY <1>1, <1>2
<1>6. oldIPs'[Len(insts) + 1] = oldPos /\ newIPs'[Len(insts) + 1] = newPos
  BY <1>1, <1>2
<1>7. insts'[Len(insts) + 1] = inst /\ copies'[Len(insts) + 1] = copy
  BY <1>1, <1>2
<1>8. newIPs' \in Seq(Nat) /\ copies' \in Seq([op : Ops, len : Sizes, dest : Int])
  BY <1>1, <1>2
<1>9. CopyShape'
  BY <1>3, <1>8 DEF CopyShape
<1>10. Copied' = 1 .. Len(insts) + 1
  BY <1>1, <1>2 DEF Copied
<1>11. Written(inst, copy, farthest, finished)
  BY <1>1, <1>3, <1>4, <1>5, <1>6, <1>7, <1>10 DEF Written
<1> QED BY <1>1, <1>9, <1>11

\* The numbers an entry is made of.
LEMMA EntryTypes ==
  ASSUME IInv, CopyShape
  PROVE  /\ oldPos \in Nat /\ newPos \in Nat /\ jmpDest \in Nat /\ Len(insts) \in Nat
         /\ Copied = 1 .. Len(insts)
         /\ \A i \in 1 .. Len(insts) :
              /\ oldIPs[i] \in Nat /\ newIPs[i] \in Nat
              /\ insts[i] \in [op : Ops, len : Sizes, dest : Int]
              /\ copies[i] \in [op : Ops, len : Sizes, dest : Int]
              /\ insts[i].len \in Nat /\ insts[i].len > 0 /\ copies[i].len \in Nat
              /\ insts[i].dest \in Int /\ copies[i].dest \in Int
<1>0. ASSUME NEW S, NEW s \in Seq(S), NEW i \in 1 .. Len(s)  PROVE s[i] \in S
  OBVIOUS
<1>1. /\ oldIPs \in Seq(Nat) /\ insts \in Seq([op : Ops, len : Sizes, dest : Int])
      /\ newIPs \in Seq(Nat) /\ copies \in Seq([op : Ops, len : Sizes, dest : Int])
      /\ oldPos \in Nat /\ newPos \in Nat /\ jmpDest \in Nat
      /\ Len(oldIPs) = Len(insts) /\ Len(newIPs) = Len(insts) /\ Len(copies) = Len(insts)
  BY DEF IInv, Shape, CopyShape
<1>2. Len(insts) \in Nat /\ Copied = 1 .. Len(insts)
  BY <1>1 DEF Copied
<1>3. ASSUME NEW i \in 1 .. Len(insts)
      PROVE  /\ oldIPs[i] \in Nat /\ newIPs[i] \in Nat
             /\ insts[i] \in [op : Ops, len : Sizes, dest : Int]
             /\ copies[i] \in [op : Ops, len : Sizes, dest : Int]
  <2>1. oldIPs[i] \in Nat /\ newIPs[i] \in Nat
    BY <1>1
  <2>2. insts[i] \in [op : Ops, len : Sizes, dest : Int]
    BY <1>0, <1>1
  <2>3. copies[i] \in [op : Ops, len : Sizes, dest : Int]
    BY <1>0, <1>1
  <2> QED BY <2>1, <2>2, <2>3
<1>4. \A inst \in [op : Ops, len : Sizes, dest : Int] :
        inst.len \in Nat /\ inst.len > 0 /\ inst.dest \in Int
  BY DEF Sizes
<1> QED BY <1>1, <1>2, <1>3, <1>4

\* A finished copy does what the function did, unless a jump leads back over an
\* instruction that grew.
LEMMA CopyInvSuffices == IInv /\ CopyInv => FaithfulForwards
<1> SUFFICES ASSUME IInv, CopyInv, status = "done", WellFormed, ~BackOverAltered,
                    NEW i \in Copied
             PROVE  \/ /\ oldIPs[i] >= JMP_REL
                       /\ copies[i] = Inst("jmp", JMP_REL, oldIPs[i])
                    \/ /\ oldIPs[i] < JMP_REL /\ copies[i].op = insts[i].op /\ JumpsRight(i)
                       /\ \/ insts[i].op \in {"jmp", "ret"}
                          \/ /\ i + 1 \in Copied
                             /\ oldIPs[i + 1] = oldIPs[i] + insts[i].len
                             /\ newIPs[i + 1] = newIPs[i] + copies[i].len
  BY DEF FaithfulForwards, Faithful
<1> DEFINE n == Len(insts)
<1>0. CopyShape /\ IsCopy(copies[i], insts[i], oldIPs[i], newIPs[i])
  BY DEF CopyInv
<1>t. /\ oldPos \in Nat /\ newPos \in Nat /\ jmpDest \in Nat /\ n \in Nat
      /\ Copied = 1 .. n
      /\ \A k \in 1 .. n :
           /\ oldIPs[k] \in Nat /\ newIPs[k] \in Nat
           /\ insts[k].len \in Nat /\ insts[k].dest \in Int /\ copies[k].len \in Nat
  BY <1>0, EntryTypes
<1>1. CASE oldIPs[i] >= JMP_REL
  BY <1>0, <1>1, <1>t DEF IsCopy, JMP_REL
<1>2. CASE oldIPs[i] < JMP_REL
  <2>1. /\ copies[i].op = insts[i].op
        /\ IF IsInternal(insts[i].dest)
             THEN copies[i].dest = pTrampoline + newIPs[i] + (insts[i].dest - oldIPs[i])
             ELSE copies[i].dest = insts[i].dest
    BY <1>0, <1>2, <1>t DEF IsCopy, JMP_REL
  <2>2. MayEnd(insts[n], oldIPs[n], jmpDest) /\ n > 0
    BY <1>t DEF CopyInv
  <2>3. insts[i].op \in {"jmp", "ret"} \/
          (i + 1 \in Copied /\ oldIPs[i + 1] = oldIPs[i] + insts[i].len
                            /\ newIPs[i + 1] = newIPs[i] + copies[i].len)
    <3>1. CASE i = n
      BY <1>2, <1>t, <2>2, <3>1 DEF MayEnd, JMP_REL
    <3>2. CASE i < n
      <4>1. i \in 1 .. n - 1 /\ i + 1 \in Copied
        BY <1>t, <3>2
      <4>2. oldIPs[i] + insts[i].len = oldIPs[i + 1]
        BY <4>1 DEF IInv, Chained
      <4>3. newIPs[i + 1] = newIPs[i] + copies[i].len
        BY <4>1 DEF CopyInv, CopyChained
      <4> QED BY <4>1, <4>2, <4>3
    <3> QED BY <1>t, <3>1, <3>2
  <2>4. JumpsRight(i)
    <3>1. CASE ~IsInternal(insts[i].dest)
      BY <2>1, <3>1 DEF JumpsRight
    <3>2. CASE IsInternal(insts[i].dest)
      <4> DEFINE d == insts[i].dest
      <4>1. d \in Nat /\ d < JMP_REL /\ d <= jmpDest
        <5>1. d \in Int /\ 0 <= d /\ d < JMP_REL
          BY <1>t, <3>2 DEF IsInternal
        <5>2. d <= jmpDest
          BY <3>2 DEF CopyInv, AheadKept
        <5> QED BY <5>1, <5>2
      <4>2. d <= oldIPs[n] /\ oldIPs[n] < oldPos
        <5>1. n \in Copied
          BY <1>t, <2>2
        <5>2. oldIPs[n] < oldPos
          BY <5>1 DEF CopyInv, Ordered
        <5>3. oldIPs[n] >= JMP_REL \/ jmpDest <= oldIPs[n]
          BY <2>2 DEF MayEnd
        <5> QED BY <1>t, <4>1, <5>1, <5>2, <5>3 DEF JMP_REL
      <4>3. PICK k \in Copied : oldIPs[k] <= d /\ d < oldIPs[k] + insts[k].len
        <5>1. d < oldPos
          BY <1>t, <2>2, <4>1, <4>2
        <5> QED BY <4>1, <5>1 DEF CopyInv, Covered
      <4>0. /\ oldIPs[k] \in Nat /\ newIPs[k] \in Nat /\ insts[k].len \in Nat
            /\ oldIPs[i] \in Nat /\ newIPs[i] \in Nat
        BY <1>t
      <4>4. oldIPs[k] = d
        <5>1. oldIPs[k] < JMP_REL
          BY <4>0, <4>1, <4>3 DEF JMP_REL
        <5>2. ~(oldIPs[k] < d)
          BY <4>3, <5>1 DEF WellFormed
        <5> QED BY <4>0, <4>1, <4>3, <5>2
      <4>5. newIPs[k] - newIPs[i] = d - oldIPs[i]
        <5>1. CASE i <= k
          <6>1. Kept(i, k - 1)
            <7> SUFFICES ASSUME NEW m \in i .. k - 1  PROVE copies[m].len = insts[m].len
              BY DEF Kept
            <7>1. m \in i .. n /\ m \in 1 .. k - 1
              BY <1>t
            <7>2. oldIPs[m] < d
              BY <4>4, <7>1 DEF CopyInv, Ordered
            <7> QED BY <3>2, <7>1, <7>2 DEF CopyInv, AheadKept
          <6>2. k \in i .. n
            BY <1>t, <5>1
          <6>3. newIPs[k] - newIPs[i] = oldIPs[k] - oldIPs[i]
            BY <6>1, <6>2 DEF CopyInv, Aligned
          <6> QED BY <4>4, <6>3
        <5>2. CASE k < i
          <6>1. Kept(k, i - 1)
            <7> SUFFICES ASSUME NEW m \in k .. i - 1  PROVE copies[m].len = insts[m].len
              BY DEF Kept
            <7>1. m \in Copied /\ m < i /\ (m = k \/ k \in 1 .. m - 1)
              BY <1>t
            <7>2. d <= oldIPs[m]
              <8>1. CASE m = k
                BY <1>t, <4>1, <4>4, <8>1
              <8>2. CASE k \in 1 .. m - 1
                <9>1. oldIPs[k] < oldIPs[m]
                  BY <7>1, <8>2 DEF CopyInv, Ordered
                <9> QED BY <1>t, <4>1, <4>4, <7>1, <9>1
              <8> QED BY <7>1, <8>1, <8>2
            <7> QED BY <3>2, <7>1, <7>2 DEF BackOverAltered
          <6>2. i \in k .. n
            BY <1>t, <5>2
          <6>3. newIPs[i] - newIPs[k] = oldIPs[i] - oldIPs[k]
            BY <6>1, <6>2 DEF CopyInv, Aligned
          <6> QED BY <4>0, <4>1, <4>4, <6>3
        <5>3. i <= k \/ k < i
          BY <1>t
        <5> QED BY <5>1, <5>2, <5>3
      <4>6. copies[i].dest = pTrampoline + newIPs[k]
        <5>1. copies[i].dest = pTrampoline + newIPs[i] + (d - oldIPs[i])
          BY <2>1, <3>2
        <5> QED BY <1>t, <4>1, <4>5, <5>1, AddressAssumption
      <4> QED BY <4>4, <4>6 DEF JumpsRight
    <3> QED BY <3>1, <3>2
  <2> QED BY <1>2, <2>1, <2>3, <2>4
<1> QED BY <1>1, <1>2, <1>t DEF JMP_REL

\* A round keeps the pairs in step.
LEMMA WriteCopies ==
  ASSUME IInv, CopyInv, status = "copying",
         NEW inst, NEW copy, NEW farthest, NEW finished \in BOOLEAN,
         Pairs(inst, copy, farthest, finished), Write(inst, copy, farthest, finished)
  PROVE  CopyInv'
<1>0. CopyShape /\ jmpDest < JMP_REL
  BY DEF CopyInv
<1>n. PICK n \in Nat : n = Len(insts)
  BY <1>0, EntryTypes
<1>1. CASE Gives("failed") \/ Gives("full")
  <2>1. /\ UNCHANGED <<posVars, ipVars>> /\ status' \notin {"copied", "done"}
    BY <1>1 DEF Gives
  <2> QED
    BY <2>1 DEF CopyInv, CopyShape, Ordered, Covered, CopyChained, Aligned, Kept, AheadKept,
                Copied, posVars, ipVars
<1>2. CASE ~Gives("failed") /\ ~Gives("full")
  <2>1. /\ Written(inst, copy, farthest, finished) /\ CopyShape'
        /\ ~AltersBranch(inst.len, copy.len, farthest)
    BY <1>0, <1>2, AppendsEach DEF Pairs
  <2>n. n \in Nat /\ Copied = 1 .. n /\ oldPos \in Nat /\ newPos \in Nat /\ jmpDest \in Nat
    BY <1>0, <1>n, EntryTypes
  <2>e. \A i \in 1 .. n :
          /\ oldIPs[i] \in Nat /\ newIPs[i] \in Nat
          /\ insts[i].len \in Nat /\ insts[i].len > 0 /\ copies[i].len \in Nat
          /\ insts[i].dest \in Int
    BY <1>0, <1>n, EntryTypes
  <2>i. /\ inst.len \in Nat /\ inst.len > 0 /\ copy.len \in Nat /\ inst.dest \in Int
        /\ farthest \in Nat /\ farthest < JMP_REL /\ jmpDest <= farthest
    BY DEF Pairs, Sizes
  <2>c. Copied' = 1 .. n + 1 /\ Len(insts') = n + 1
    BY <1>n, <2>1 DEF Written
  <2>s. 1 .. n + 1 = (1 .. n) \union {n + 1}
    BY <2>n
  <2>o. \A i \in 1 .. n : /\ oldIPs'[i] = oldIPs[i] /\ newIPs'[i] = newIPs[i]
                          /\ insts'[i] = insts[i] /\ copies'[i] = copies[i]
    BY <1>n, <2>1 DEF Written
  <2>w. /\ oldIPs'[n + 1] = oldPos /\ newIPs'[n + 1] = newPos
        /\ insts'[n + 1] = inst /\ copies'[n + 1] = copy
        /\ oldPos' = oldPos + inst.len /\ newPos' = newPos + copy.len
        /\ jmpDest' = farthest /\ status' = IF finished THEN "copied" ELSE "copying"
    BY <1>n, <2>1 DEF Written
  <2>2. Ordered'
    <3>1. ASSUME NEW i \in 1 .. n
          PROVE  oldIPs[i] < oldPos /\ \A k \in 1 .. i - 1 : oldIPs[k] < oldIPs[i]
      BY <2>n DEF CopyInv, Ordered
    <3>2. ASSUME NEW i \in 1 .. n
          PROVE  oldIPs'[i] < oldPos' /\ \A k \in 1 .. i - 1 : oldIPs'[k] < oldIPs'[i]
      <4>1. oldIPs'[i] < oldPos'
        BY <2>n, <2>e, <2>i, <2>o, <2>w, <3>1
      <4>2. ASSUME NEW k \in 1 .. i - 1  PROVE oldIPs'[k] < oldIPs'[i]
        <5>1. k \in 1 .. n
          BY <2>n
        <5> QED BY <2>o, <3>1, <5>1
      <4> QED BY <4>1, <4>2
    <3>3. oldIPs'[n + 1] < oldPos' /\ \A k \in 1 .. (n + 1) - 1 : oldIPs'[k] < oldIPs'[n + 1]
      <4>1. oldIPs'[n + 1] < oldPos'
        BY <2>n, <2>i, <2>w
      <4>2. (n + 1) - 1 = n
        BY <2>n
      <4> QED BY <2>o, <2>w, <3>1, <4>1, <4>2
    <3> QED BY <2>c, <2>s, <3>2, <3>3 DEF Ordered
  <2>3. Covered'
    <3> SUFFICES ASSUME NEW byte \in Nat, byte < oldPos'
                 PROVE  \E k \in 1 .. n + 1 : oldIPs'[k] <= byte /\ byte < oldIPs'[k] + insts'[k].len
      BY <2>c DEF Covered
    <3>1. CASE byte < oldPos
      <4>1. PICK k \in 1 .. n : oldIPs[k] <= byte /\ byte < oldIPs[k] + insts[k].len
        BY <2>n, <3>1 DEF CopyInv, Covered
      <4> QED BY <2>o, <2>s, <4>1
    <3>2. CASE byte >= oldPos
      <4>1. n + 1 \in 1 .. n + 1
        BY <2>n
      <4>2. oldIPs'[n + 1] <= byte /\ byte < oldIPs'[n + 1] + insts'[n + 1].len
        BY <2>w, <3>2
      <4> QED BY <4>1, <4>2
    <3> QED BY <2>n, <3>1, <3>2
  <2>4. CopyChained'
    <3>1. newPos' = newIPs'[n + 1] + copies'[n + 1].len
      BY <2>w
    <3>2. ASSUME NEW i \in 1 .. n  PROVE newIPs'[i + 1] = newIPs'[i] + copies'[i].len
      <4>1. CASE i = n
        <5>1. newPos = newIPs[n] + copies[n].len
          BY <1>n, <2>n, <4>1 DEF CopyInv, CopyChained
        <5> QED BY <2>o, <2>w, <4>1, <5>1
      <4>2. CASE i < n
        <5>1. i \in 1 .. n - 1 /\ i + 1 \in 1 .. n
          BY <2>n, <4>2
        <5>2. newIPs[i + 1] = newIPs[i] + copies[i].len
          BY <1>n, <5>1 DEF CopyInv, CopyChained
        <5> QED BY <2>o, <5>1, <5>2
      <4> QED BY <2>n, <4>1, <4>2
    <3>3. (n + 1) - 1 = n
      BY <2>n
    <3> QED BY <2>c, <3>1, <3>2, <3>3 DEF CopyChained
  <2>5. Aligned'
    <3>k. ASSUME NEW first \in 1 .. n + 1, NEW last \in 0 .. n, Kept(first, last)'
          PROVE  Kept(first, last)
      <4> SUFFICES ASSUME NEW k \in first .. last  PROVE copies[k].len = insts[k].len
        BY DEF Kept
      <4>1. k \in 1 .. n
        BY <2>n
      <4>2. copies'[k].len = insts'[k].len
        BY <3>k DEF Kept
      <4> QED BY <2>o, <4>1, <4>2
    <3>o. ASSUME NEW i \in 1 .. n
          PROVE  /\ \A k \in i .. n : Kept(i, k - 1) => newIPs[k] - newIPs[i] = oldIPs[k] - oldIPs[i]
                 /\ Kept(i, n) => newPos - newIPs[i] = oldPos - oldIPs[i]
      BY <1>n, <2>n DEF CopyInv, Aligned
    <3>1. ASSUME NEW i \in 1 .. n, NEW k \in i .. n, Kept(i, k - 1)'
          PROVE  newIPs'[k] - newIPs'[i] = oldIPs'[k] - oldIPs'[i]
      <4>1. k \in 1 .. n /\ k - 1 \in 0 .. n /\ i \in 1 .. n + 1
        BY <2>n
      <4>2. Kept(i, k - 1)
        BY <3>1, <3>k, <4>1
      <4> QED BY <2>o, <3>o, <4>1, <4>2
    <3>2. ASSUME NEW i \in 1 .. n, Kept(i, n)'
          PROVE  newIPs'[n + 1] - newIPs'[i] = oldIPs'[n + 1] - oldIPs'[i]
      <4>1. n \in 0 .. n /\ i \in 1 .. n + 1
        BY <2>n
      <4>2. Kept(i, n)
        BY <3>2, <3>k, <4>1
      <4> QED BY <2>o, <2>w, <3>o, <4>2
    <3>3. newIPs'[n + 1] - newIPs'[n + 1] = oldIPs'[n + 1] - oldIPs'[n + 1]
      BY <2>n, <2>w
    <3>4. ASSUME NEW i \in 1 .. n + 1, Kept(i, n + 1)'
          PROVE  newPos' - newIPs'[i] = oldPos' - oldIPs'[i]
      <4>1. copy.len = inst.len
        <5>1. n + 1 \in i .. n + 1
          BY <2>n
        <5> QED BY <2>w, <3>4, <5>1 DEF Kept
      <4>2. newPos - newIPs'[i] = oldPos - oldIPs'[i]
        <5>1. CASE i \in 1 .. n
          <6>1. Kept(i, n)'
            <7>1. \A k \in i .. n : k \in i .. n + 1
              BY <2>n
            <7> QED BY <3>4, <7>1 DEF Kept
          <6> QED BY <2>w, <3>2, <5>1, <6>1
        <5>2. CASE i = n + 1
          BY <2>n, <2>w, <5>2
        <5> QED BY <2>s, <5>1, <5>2
      <4>3. newIPs'[i] \in Int /\ oldIPs'[i] \in Int
        <5>1. CASE i \in 1 .. n
          BY <2>e, <2>o, <5>1
        <5>2. CASE i = n + 1
          BY <2>n, <2>w, <5>2
        <5> QED BY <2>s, <5>1, <5>2
      <4>4. newPos' = newPos + inst.len /\ oldPos' = oldPos + inst.len
        BY <2>w, <4>1
      <4>5. oldPos \in Int /\ newPos \in Int /\ inst.len \in Int
        BY <2>n, <2>i
      <4>6. PICK new \in Int, old \in Int : new = newIPs'[i] /\ old = oldIPs'[i]
        BY <4>3
      <4>7. newPos - new = oldPos - old
        BY <4>2, <4>6
      <4>8. (newPos + inst.len) - new = (oldPos + inst.len) - old
        BY <4>5, <4>7
      <4> QED BY <4>4, <4>6, <4>8
    <3>5. ASSUME NEW i \in 1 .. n + 1, NEW k \in i .. n + 1, Kept(i, k - 1)'
          PROVE  newIPs'[k] - newIPs'[i] = oldIPs'[k] - oldIPs'[i]
      <4>1. CASE k \in 1 .. n
        <5>1. i \in 1 .. n /\ k \in i .. n
          BY <2>n, <4>1
        <5> QED BY <3>1, <3>5, <5>1
      <4>2. CASE k = n + 1 /\ i \in 1 .. n
        <5>1. k - 1 = n
          BY <2>n, <4>2
        <5> QED BY <3>2, <3>5, <4>2, <5>1
      <4>3. CASE k = n + 1 /\ i = n + 1
        BY <3>3, <4>3
      <4>4. k \in 1 .. n + 1
        BY <2>n
      <4> QED BY <2>s, <4>1, <4>2, <4>3, <4>4
    <3> QED BY <2>c, <3>4, <3>5 DEF Aligned
  <2>6. AheadKept'
    <3>1. ASSUME NEW i \in 1 .. n, IsInternal(insts'[i].dest)
          PROVE  /\ insts[i].dest <= jmpDest
                 /\ \A k \in i .. n : oldIPs[k] < insts[i].dest => copies[k].len = insts[k].len
      BY <1>n, <2>n, <2>o, <3>1 DEF CopyInv, AheadKept
    <3>2. ASSUME NEW i \in 1 .. n + 1, IsInternal(insts'[i].dest)
          PROVE  insts'[i].dest <= jmpDest' /\ insts'[i].dest \in Int
      <4>1. CASE i \in 1 .. n
        <5>1. insts[i].dest <= jmpDest /\ insts[i].dest \in Int
          BY <2>e, <3>1, <3>2, <4>1
        <5>2. insts'[i].dest = insts[i].dest
          BY <2>o, <4>1
        <5> QED BY <2>n, <2>i, <2>w, <5>1, <5>2
      <4>2. CASE i = n + 1
        BY <2>i, <2>w, <3>2, <4>2 DEF Pairs
      <4> QED BY <2>s, <4>1, <4>2
    <3>3. ASSUME NEW i \in 1 .. n + 1, IsInternal(insts'[i].dest), NEW k \in i .. n + 1,
                 oldIPs'[k] < insts'[i].dest
          PROVE  copies'[k].len = insts'[k].len
      <4>1. CASE k \in 1 .. n
        <5>1. i \in 1 .. n /\ k \in i .. n
          BY <2>n, <4>1
        <5> QED BY <2>o, <3>1, <3>3, <4>1, <5>1
      <4>2. CASE k = n + 1
        <5>1. insts'[i].dest <= farthest /\ insts'[i].dest \in Int
          BY <2>w, <3>2, <3>3
        <5>2. oldPos < farthest
          BY <2>n, <2>i, <2>w, <3>3, <4>2, <5>1
        <5> QED BY <2>1, <2>w, <4>2, <5>2 DEF AltersBranch
      <4>3. k \in 1 .. n + 1
        BY <2>n
      <4> QED BY <2>s, <4>1, <4>2, <4>3
    <3> QED BY <2>c, <3>2, <3>3 DEF AheadKept
  <2>7. ASSUME NEW i \in 1 .. n + 1
        PROVE  IsCopy(copies'[i], insts'[i], oldIPs'[i], newIPs'[i])
    <3>1. CASE i \in 1 .. n
      BY <2>n, <2>o, <3>1 DEF CopyInv
    <3>2. CASE i = n + 1
      BY <2>w, <3>2 DEF Pairs
    <3> QED BY <2>s, <3>1, <3>2
  <2>8. status' \in {"copied", "done"} => MayEnd(insts'[n + 1], oldIPs'[n + 1], jmpDest')
    BY <2>w DEF Pairs
  <2> QED
    BY <2>1, <2>2, <2>3, <2>4, <2>5, <2>6, <2>7, <2>8, <2>c, <2>w, <2>i DEF CopyInv
<1> QED BY <1>1, <1>2

\* An empty copy is in step.
LEMMA InitCopyInv == Init => CopyInv
<1> SUFFICES ASSUME Init  PROVE CopyInv
  OBVIOUS
<1>1. /\ Len(insts) = 0 /\ Len(newIPs) = 0 /\ Len(copies) = 0 /\ Copied = {}
      /\ newIPs \in Seq(Nat) /\ copies \in Seq([op : Ops, len : Sizes, dest : Int])
  BY DEF Init, Copied
<1>2. oldPos = 0 /\ jmpDest = 0 /\ status = "copying"
  BY DEF Init
<1>3. CopyShape /\ Ordered /\ Aligned /\ AheadKept
  BY <1>1 DEF CopyShape, Ordered, Aligned, AheadKept
<1>4. Covered
  BY <1>2 DEF Covered
<1>5. CopyChained
  BY <1>1 DEF CopyChained
<1> QED BY <1>1, <1>2, <1>3, <1>4, <1>5 DEF CopyInv, JMP_REL

\* A copy outside the function's first bytes jumps where the instruction did.
LEMMA OutsidePair ==
  ASSUME IInv, CopyInv, NEW op \in Ops, NEW len \in Sizes, NEW size \in Sizes,
         NEW finished, oldPos < JMP_REL,
         finished => op \in {"jmp", "ret"} /\ OutOfBranch
  PROVE  Pairs(Inst(op, len, Far), Inst(op, size, Far), jmpDest, finished)
<1>1. jmpDest \in Nat /\ jmpDest < JMP_REL /\ oldPos \in Nat
  BY DEF IInv, Shape, CopyInv
<1>2. Far \in Int /\ ~IsInternal(Far)
  BY AddressAssumption DEF IsInternal, JMP_REL
<1>3. IsCopy(Inst(op, size, Far), Inst(op, len, Far), oldPos, newPos)
  BY <1>2 DEF IsCopy, Inst
<1>4. finished => MayEnd(Inst(op, len, Far), oldPos, jmpDest)
  BY <1>1 DEF MayEnd, OutOfBranch, Inst
<1> QED BY <1>1, <1>2, <1>3, <1>4 DEF Pairs, Inst

\* Each kind of instruction writes a pair; PlaceJump changes none.
LEMMA StepCopyInv == IInv /\ CopyInv /\ [Next]_vars => CopyInv'
<1> SUFFICES ASSUME IInv, CopyInv, [Next]_vars  PROVE CopyInv'
  OBVIOUS
<1> USE LensAssumption, AddressAssumption
<1>0. oldPos \in Nat /\ newPos \in Nat /\ jmpDest \in Nat /\ jmpDest < JMP_REL
  BY DEF IInv, Shape, CopyInv
<1>a. Far \in Int /\ JMP_REL \in Sizes /\ JMP_REL_SHORT \in Sizes /\ JCC_REL \in Sizes
      /\ Lens \subseteq Sizes
      /\ {"plain", "call", "jmp", "jcc", "loop", "ret"} \subseteq Ops
  BY DEF Ops, Sizes, JMP_REL, JMP_REL_SHORT, JCC_REL
<1>b. Copying => status = "copying" /\ oldPos < JMP_REL
  BY <1>0 DEF Copying, IsLongEnough, JMP_REL
<1>c. OutOfBranch \in BOOLEAN
  BY DEF OutOfBranch
<1>u. ASSUME UNCHANGED <<posVars, ipVars>>, status' \notin {"copied", "done"} \/ status = "copied"
             \/ UNCHANGED status
      PROVE  CopyInv'
  BY <1>u DEF CopyInv, CopyShape, Ordered, Covered, CopyChained, Aligned, Kept, AheadKept,
              Copied, posVars, ipVars
<1>1. CASE Undecodable \/ RejectLoop
  BY <1>1, <1>u DEF Undecodable, RejectLoop, Gives
<1>2. CASE JumpToRest
  <2>1. PICK len \in Lens :
          Write(Inst("plain", len, Far), Inst("jmp", JMP_REL, oldPos), jmpDest, TRUE)
    BY <1>2 DEF JumpToRest
  <2>2. Pairs(Inst("plain", len, Far), Inst("jmp", JMP_REL, oldPos), jmpDest, TRUE)
    <3>1. oldPos >= JMP_REL /\ ~IsInternal(Far)
      BY <1>2 DEF JumpToRest, IsLongEnough, IsInternal, JMP_REL
    <3> QED BY <1>0, <1>a, <3>1 DEF Pairs, IsCopy, MayEnd, Inst
  <2> QED BY <1>2, <2>1, <2>2, WriteCopies DEF JumpToRest
<1>3. CASE CopyPlain
  <2>1. PICK len \in Lens :
          Write(Inst("plain", len, Far), Inst("plain", len, Far), jmpDest, FALSE)
    BY <1>3 DEF CopyPlain
  <2>2. Pairs(Inst("plain", len, Far), Inst("plain", len, Far), jmpDest, FALSE)
    BY <1>a, <1>b, <1>3, OutsidePair DEF CopyPlain
  <2> QED BY <1>b, <1>3, <2>1, <2>2, WriteCopies DEF CopyPlain
<1>4. CASE RewriteCall
  <2>1. Write(Inst("call", JMP_REL, Far), Inst("call", JMP_REL, Far), jmpDest, FALSE)
    BY <1>4 DEF RewriteCall
  <2>2. Pairs(Inst("call", JMP_REL, Far), Inst("call", JMP_REL, Far), jmpDest, FALSE)
    BY <1>a, <1>b, <1>4, OutsidePair DEF RewriteCall
  <2> QED BY <1>b, <1>4, <2>1, <2>2, WriteCopies DEF RewriteCall
<1>5. CASE RewriteJmp
  <2>1. PICK len \in {JMP_REL_SHORT, JMP_REL} :
          Write(Inst("jmp", len, Far), Inst("jmp", JMP_REL, Far), jmpDest, OutOfBranch)
    BY <1>5 DEF RewriteJmp
  <2>2. Pairs(Inst("jmp", len, Far), Inst("jmp", JMP_REL, Far), jmpDest, OutOfBranch)
    BY <1>a, <1>b, <1>5, OutsidePair DEF RewriteJmp
  <2> QED BY <1>b, <1>c, <1>5, <2>1, <2>2, WriteCopies DEF RewriteJmp
<1>6. CASE RewriteJcc
  <2>1. PICK len \in {JMP_REL_SHORT, JCC_REL} :
          Write(Inst("jcc", len, Far), Inst("jcc", JCC_REL, Far), jmpDest, FALSE)
    BY <1>6 DEF RewriteJcc
  <2>2. Pairs(Inst("jcc", len, Far), Inst("jcc", JCC_REL, Far), jmpDest, FALSE)
    BY <1>a, <1>b, <1>6, OutsidePair DEF RewriteJcc
  <2> QED BY <1>b, <1>6, <2>1, <2>2, WriteCopies DEF RewriteJcc
<1>7. CASE CopyInternal
  <2> DEFINE copy(op, len, dest) == Inst(op, len, pTrampoline + newPos + (dest - oldPos))
             far(dest) == IF jmpDest < dest THEN dest ELSE jmpDest
  <2>1. PICK op \in {"jmp", "jcc", "loop"}, dest \in Dests, len \in {JMP_REL_SHORT, JMP_REL, JCC_REL} :
          IsInternal(dest) /\ Write(Inst(op, len, dest), copy(op, len, dest), far(dest), FALSE)
    BY <1>7 DEF CopyInternal
  <2>2. /\ dest \in Int /\ pTrampoline + newPos + (dest - oldPos) \in Int
        /\ far(dest) \in Nat /\ far(dest) < JMP_REL /\ jmpDest <= far(dest) /\ dest <= far(dest)
    BY <1>0, <2>1 DEF IsInternal, Dests, JMP_REL
  <2>3. IsCopy(copy(op, len, dest), Inst(op, len, dest), oldPos, newPos)
    BY <1>b, <1>7, <2>1 DEF IsCopy, Inst, CopyInternal
  <2>4. Pairs(Inst(op, len, dest), copy(op, len, dest), far(dest), FALSE)
    BY <1>a, <2>1, <2>2, <2>3 DEF Pairs, Inst
  <2> QED BY <1>b, <1>7, <2>1, <2>4, WriteCopies DEF CopyInternal
<1>8. CASE CopyRet
  <2>1. PICK len \in {1, 3} :
          Write(Inst("ret", len, Far), Inst("ret", len, Far), jmpDest, OutOfBranch)
    BY <1>8 DEF CopyRet
  <2>2. Pairs(Inst("ret", len, Far), Inst("ret", len, Far), jmpDest, OutOfBranch)
    <3>1. len \in Sizes
      BY <2>1 DEF Sizes
    <3> QED BY <1>a, <1>b, <1>8, <3>1, OutsidePair DEF CopyRet
  <2> QED BY <1>b, <1>c, <1>8, <2>1, <2>2, WriteCopies DEF CopyRet
<1>9. CASE PlaceJump
  BY <1>9, <1>u DEF PlaceJump
<1>10. CASE UNCHANGED vars
  BY <1>10, <1>u DEF vars
<1> QED
  BY <1>1, <1>2, <1>3, <1>4, <1>5, <1>6, <1>7, <1>8, <1>9, <1>10 DEF Next

\* The trampoline does what the function did (trampoline.c:190): every jump in it
\* leads to the copy of where it led or to the same place outside, and its last
\* instruction leads on to the rest, for every function whose jumps do not lead
\* back over an instruction that is longer in its copy.
THEOREM CopyIsFaithful == Spec => []FaithfulForwards
<1>1. Init => IInv /\ CopyInv
  BY InitInv, InitCopyInv
<1>2. IInv /\ CopyInv /\ [Next]_vars => (IInv /\ CopyInv)'
  BY StepInv, StepCopyInv
<1> QED BY <1>1, <1>2, CopyInvSuffices, PTL DEF Spec
=============================================================================
