------------------------- MODULE MinHookMemoryProofs -------------------------
(***************************************************************************)
(* The slots of the trampolines: whatever hook.c asks for, buffer.c gives  *)
(* each slot once, and both together do what HookTable says.               *)
(***************************************************************************)
EXTENDS MinHookMemory, MinHookProofs, SequenceTheorems

-----------------------------------------------------------------------------
(* A list of blocks for the hooks whose slots are p. *)

Users(p, base) == { f \in DOMAIN p : p[f].block = base }
Taken(p, base) == { p[f].at : f \in Users(p, base) }

\* What MemoryConsistent says of a block, and that a slot is free only once.
BlockRight(b, p) ==
  /\ b \in Block
  /\ b.usedCount = Cardinality(Users(p, b.base))
  /\ ToSet(b.pFree) = (1 .. LastSlot) \ Taken(p, b.base)
  /\ Len(b.pFree) = LastSlot - b.usedCount
  /\ \A j, k \in DOMAIN b.pFree : b.pFree[j] = b.pFree[k] => j = k

SlotsRight(p) ==
  /\ IsFiniteSet(DOMAIN p) /\ p \in [DOMAIN p -> Slot]
  /\ \A f, g \in DOMAIN p : p[f] = p[g] => f = g

ListRight(list, p) ==
  /\ list \in Seq(Block)
  /\ \A i, j \in DOMAIN list : list[i].base = list[j].base => i = j
  /\ \A f \in DOMAIN p : \E i \in DOMAIN list : p[f].block = list[i].base
  /\ \A i \in DOMAIN list : BlockRight(list[i], p)

\* q gives slot to f, which had none, and leaves the others theirs.
Extends(q, p, f, slot) ==
  /\ DOMAIN q = DOMAIN p \union {f} /\ q[f] = slot /\ \A g \in DOMAIN p : q[g] = p[g]
  /\ q = [g \in DOMAIN q |-> q[g]]

\* q takes its slot from f, and leaves the others theirs.
Shrinks(q, p, f) ==
  /\ DOMAIN q = DOMAIN p \ {f} /\ \A g \in DOMAIN q : q[g] = p[g]
  /\ q = [g \in DOMAIN q |-> q[g]]

\* p and q differ only in slots of one block.
OnlyTouches(q, p, base) ==
  \A other : other # base => Users(q, other) = Users(p, other) /\ \A f \in Users(p, other) : q[f] = p[f]

\* A block is right whatever the hooks that have no slot of it do.
LEMMA OtherBlock ==
  ASSUME NEW b, NEW p, NEW q, BlockRight(b, p), Users(q, b.base) = Users(p, b.base),
         \A f \in Users(p, b.base) : q[f] = p[f]
  PROVE  BlockRight(b, q)
<1>1. Taken(q, b.base) = Taken(p, b.base)
  BY DEF Taken
<1> QED BY <1>1 DEF BlockRight

\* A block is made with all its slots free.
LEMMA NewBlockRight ==
  ASSUME NEW base \in Blocks, NEW p, Users(p, base) = {}
  PROVE  BlockRight(NewBlock(base), p) /\ NewBlock(base).base = base /\ NewBlock(base).pFree # <<>>
<1> DEFINE s == [k \in 1 .. LastSlot |-> k]
           r == Reverse(s)
<1>1. LastSlot \in Nat /\ LastSlot >= 1
  BY SlotsAssumption
<1>2. s \in [1 .. LastSlot -> 1 .. LastSlot] /\ Len(s) = LastSlot
  BY <1>1
<1>3. r = [i \in 1 .. LastSlot |-> LastSlot - i + 1]
  BY <1>1, <1>2 DEF Reverse
<1> HIDE DEF r, s
<1>4. r \in [1 .. LastSlot -> 1 .. LastSlot]
  BY <1>1, <1>3
<1>5. r \in Seq(1 .. LastSlot) /\ Len(r) = LastSlot /\ DOMAIN r = 1 .. LastSlot
  BY <1>1, <1>4
<1>6. ToSet(r) = 1 .. LastSlot
  <2>1. \A x \in 1 .. LastSlot : LastSlot - x + 1 \in 1 .. LastSlot /\ r[LastSlot - x + 1] = x
    BY <1>1, <1>3
  <2>2. \A x \in 1 .. LastSlot : x \in ToSet(r)
    BY <1>5, <2>1 DEF ToSet
  <2>3. \A x \in ToSet(r) : x \in 1 .. LastSlot
    BY <1>4, <1>5 DEF ToSet
  <2> QED BY <2>2, <2>3
<1>7. \A j, k \in DOMAIN r : r[j] = r[k] => j = k
  BY <1>1, <1>3, <1>5
<1>8. NewBlock(base) = [base |-> base, pFree |-> r, usedCount |-> 0]
  BY DEF NewBlock, r, s
<1>9. Cardinality(Users(p, base)) = 0 /\ Taken(p, base) = {}
  BY FS_EmptySet DEF Taken
<1>10. NewBlock(base) \in Block
  BY <1>1, <1>5, <1>8 DEF Block
<1>11. r # <<>>
  BY <1>1, <1>5
<1>12. LastSlot = LastSlot - 0 /\ (1 .. LastSlot) = (1 .. LastSlot) \ {}
  BY <1>1
<1> DEFINE b == [base |-> base, pFree |-> r, usedCount |-> 0]
<1>13. b.base = base /\ b.pFree = r /\ b.usedCount = 0
  OBVIOUS
<1>14. NewBlock(base) = b
  BY <1>8
<1> HIDE DEF b
<1>15. BlockRight(b, p)
  BY <1>5, <1>6, <1>7, <1>9, <1>10, <1>12, <1>13, <1>14 DEF BlockRight
<1> QED BY <1>11, <1>13, <1>14, <1>15

\* The first free slot of a block becomes that of a new hook.
LEMMA TakeRight ==
  ASSUME NEW b, NEW p, SlotsRight(p), BlockRight(b, p), b.pFree # <<>>, NEW f, f \notin DOMAIN p,
         NEW slot, slot = [block |-> b.base, at |-> Head(b.pFree)],
         NEW q, Extends(q, p, f, slot)
  PROVE  /\ slot \in Slot /\ slot \notin Range(p)
         /\ SlotsRight(q) /\ b.usedCount + 1 > 0
         /\ BlockRight([base |-> b.base, pFree |-> NextFree(b.pFree), usedCount |-> b.usedCount + 1], q)
<1> DEFINE s == b.pFree
           n == Len(s)
<1>1. s \in Seq(1 .. LastSlot) /\ b.base \in Blocks /\ b.usedCount \in 0 .. LastSlot /\ n \in Nat
      /\ DOMAIN s = 1 .. n /\ n > 0
  BY DEF BlockRight, Block
<1>2. Head(s) = s[1] /\ Head(s) \in 1 .. LastSlot /\ Head(s) \in ToSet(s)
  <2>1. s # <<>> /\ 1 \in DOMAIN s /\ Head(s) = s[1]
    BY <1>1, HeadTailProperties
  <2>2. Head(s) \in 1 .. LastSlot
    BY <1>1, <2>1, HeadTailProperties
  <2>3. s[1] \in ToSet(s)
    BY <2>1 DEF ToSet
  <2> QED BY <2>1, <2>2, <2>3
<1>3. Tail(s) \in Seq(1 .. LastSlot) /\ Len(Tail(s)) = n - 1 /\ DOMAIN Tail(s) = 1 .. n - 1
      /\ \A j \in 1 .. n - 1 : Tail(s)[j] = s[j + 1]
  <2>1. s # <<>> /\ s \in Seq(1 .. LastSlot)
    BY <1>1
  <2>2. /\ Tail(s) \in Seq(1 .. LastSlot) /\ Len(Tail(s)) = n - 1
        /\ \A j \in 1 .. Len(Tail(s)) : Tail(s)[j] = s[j + 1]
    BY <2>1, HeadTailProperties
  <2>3. DOMAIN Tail(s) = 1 .. n - 1
    BY <2>2
  <2> QED BY <2>2, <2>3
<1>4. slot \in Slot
  BY <1>1, <1>2 DEF Slot
<1>5. \A j, k \in 1 .. n : s[j] = s[k] => j = k
  BY <1>1 DEF BlockRight
<1> HIDE DEF s, n
<1>6. ToSet(Tail(s)) = ToSet(s) \ {Head(s)}
  <2>1. ASSUME NEW x \in ToSet(Tail(s)) PROVE x \in ToSet(s) \ {Head(s)}
    <3>1. PICK j \in 1 .. n - 1 : x = s[j + 1]
      BY <1>3, <2>1 DEF ToSet
    <3>2. j + 1 \in 1 .. n /\ j + 1 # 1 /\ 1 \in 1 .. n
      BY <1>1, <3>1
    <3> QED BY <1>1, <1>2, <1>5, <3>1, <3>2 DEF ToSet
  <2>2. ASSUME NEW x \in ToSet(s) \ {Head(s)} PROVE x \in ToSet(Tail(s))
    <3>1. PICK j \in 1 .. n : x = s[j]
      BY <1>1, <2>2 DEF ToSet
    <3>2. j # 1
      BY <1>2, <2>2, <3>1
    <3>3. j - 1 \in 1 .. n - 1 /\ Tail(s)[j - 1] = s[j]
      BY <1>1, <1>3, <3>1, <3>2
    <3> QED BY <1>3, <3>1, <3>3 DEF ToSet
  <2> QED BY <2>1, <2>2
<1>7. DOMAIN q = DOMAIN p \union {f} /\ q[f] = slot /\ \A g \in DOMAIN p : q[g] = p[g]
  BY DEF Extends
<1>8. Users(q, b.base) = Users(p, b.base) \union {f} /\ f \notin Users(p, b.base)
  BY <1>7 DEF Users
<1>9. Taken(q, b.base) = Taken(p, b.base) \union {Head(s)}
  <2>1. \A g \in Users(p, b.base) : q[g] = p[g]
    BY <1>7 DEF Users
  <2>2. q[f].at = Head(s)
    BY <1>7 DEF s
  <2>3. Taken(q, b.base) = { q[g].at : g \in Users(p, b.base) \union {f} }
    BY <1>8 DEF Taken
  <2>4. { q[g].at : g \in Users(p, b.base) \union {f} } = { p[g].at : g \in Users(p, b.base) } \union {q[f].at}
    BY <2>1
  <2> QED BY <2>2, <2>3, <2>4 DEF Taken
<1>10. Head(s) \notin Taken(p, b.base)
  BY <1>2 DEF BlockRight, s
<1>11. slot \notin Range(p)
  <2>1. ASSUME NEW g \in DOMAIN p, p[g] = slot PROVE FALSE
    <3>1. g \in Users(p, b.base) /\ p[g].at = Head(s)
      BY <2>1 DEF Users, s
    <3> QED BY <1>10, <3>1 DEF Taken
  <2> QED BY <2>1 DEF Range
<1>12. SlotsRight(q)
  <2>1. IsFiniteSet(DOMAIN q)
    BY <1>7, FS_AddElement DEF SlotsRight
  <2>2. \A g \in DOMAIN q : q[g] \in Slot
    BY <1>4, <1>7 DEF SlotsRight
  <2>3. q \in [DOMAIN q -> Slot]
    <3>1. q = [g \in DOMAIN q |-> q[g]]
      BY DEF Extends
    <3> QED BY <2>2, <3>1
  <2>4. \A g, h \in DOMAIN q : q[g] = q[h] => g = h
    <3>1. \A g \in DOMAIN p : q[g] # slot
      BY <1>7, <1>11 DEF Range
    <3> QED BY <1>7, <3>1 DEF SlotsRight
  <2> QED BY <2>1, <2>3, <2>4 DEF SlotsRight
<1>13. Cardinality(Users(q, b.base)) = b.usedCount + 1
  <2>1. IsFiniteSet(Users(p, b.base))
    BY FS_Subset DEF SlotsRight, Users
  <2> QED BY <1>8, <2>1, FS_AddElement DEF BlockRight
<1>14. n = LastSlot - b.usedCount
  BY DEF BlockRight, n, s
<1> DEFINE taken == [base |-> b.base, pFree |-> NextFree(b.pFree), usedCount |-> b.usedCount + 1]
<1>15. taken \in Block /\ taken.base = b.base /\ taken.pFree = Tail(s) /\ taken.usedCount = b.usedCount + 1
  BY <1>1, <1>3, <1>14, SlotsAssumption DEF Block, NextFree, s
<1> HIDE DEF taken
<1>16. \A j, k \in 1 .. n - 1 : Tail(s)[j] = Tail(s)[k] => j = k
  BY <1>1, <1>3, <1>5
<1>17. BlockRight(taken, q)
  <2>2. ToSet(Tail(s)) = (1 .. LastSlot) \ Taken(q, b.base)
    BY <1>6, <1>9 DEF BlockRight, s
  <2>3. Len(Tail(s)) = LastSlot - (b.usedCount + 1)
    BY <1>1, <1>3, <1>14, SlotsAssumption
  <2>4. taken.usedCount = Cardinality(Users(q, taken.base))
    BY <1>13, <1>15
  <2>5. ToSet(taken.pFree) = (1 .. LastSlot) \ Taken(q, taken.base)
        /\ Len(taken.pFree) = LastSlot - taken.usedCount
    BY <1>15, <2>2, <2>3
  <2>6. \A j, k \in DOMAIN taken.pFree : taken.pFree[j] = taken.pFree[k] => j = k
    <3>1. DOMAIN taken.pFree = 1 .. n - 1
      BY <1>3, <1>15
    <3> QED BY <1>15, <1>16, <3>1
  <2> QED BY <1>15, <2>4, <2>5, <2>6 DEF BlockRight
<1>18. b.usedCount + 1 > 0
  BY <1>1, SlotsAssumption
<1> QED BY <1>4, <1>11, <1>12, <1>17, <1>18 DEF taken

\* The slot of a hook that goes is free again.
LEMMA GiveRight ==
  ASSUME NEW b, NEW p, SlotsRight(p), BlockRight(b, p), NEW f \in Users(p, b.base),
         NEW q, Shrinks(q, p, f)
  PROVE  /\ SlotsRight(q)
         /\ BlockRight([base |-> b.base, pFree |-> <<p[f].at>> \o b.pFree, usedCount |-> b.usedCount - 1], q)
<1> DEFINE s == b.pFree
           n == Len(s)
           x == p[f].at
           t == <<x>> \o s
<1>1. s \in Seq(1 .. LastSlot) /\ b.base \in Blocks /\ b.usedCount \in 0 .. LastSlot /\ n \in Nat
      /\ DOMAIN s = 1 .. n
  BY DEF BlockRight, Block
<1>2. f \in DOMAIN p /\ p[f] \in Slot /\ p[f] = [block |-> b.base, at |-> x] /\ x \in 1 .. LastSlot
  BY DEF Users, SlotsRight, Slot
<1>3. DOMAIN q = DOMAIN p \ {f} /\ \A g \in DOMAIN q : q[g] = p[g]
  BY DEF Shrinks
<1>4. Users(q, b.base) = Users(p, b.base) \ {f}
  BY <1>3 DEF Users
<1>5. Taken(q, b.base) = Taken(p, b.base) \ {x}
  <2>1. ASSUME NEW y \in Taken(q, b.base) PROVE y \in Taken(p, b.base) \ {x}
    <3>1. PICK g \in Users(p, b.base) \ {f} : y = q[g].at
      BY <1>4, <2>1 DEF Taken
    <3>2. y = p[g].at /\ g \in DOMAIN p /\ p[g] = [block |-> b.base, at |-> p[g].at]
      BY <1>3, <3>1 DEF Users, SlotsRight, Slot
    <3>3. y # x
      BY <1>2, <3>1, <3>2 DEF SlotsRight
    <3> QED BY <3>1, <3>2, <3>3 DEF Taken
  <2>2. ASSUME NEW y \in Taken(p, b.base) \ {x} PROVE y \in Taken(q, b.base)
    <3>1. PICK g \in Users(p, b.base) : y = p[g].at
      BY <2>2 DEF Taken
    <3>2. g # f
      BY <2>2, <3>1
    <3>3. g \in Users(q, b.base) /\ q[g] = p[g]
      BY <1>3, <1>4, <3>1, <3>2 DEF Users
    <3> QED BY <3>1, <3>3 DEF Taken
  <2> QED BY <2>1, <2>2
<1>6. SlotsRight(q)
  <2>1. IsFiniteSet(DOMAIN q)
    BY <1>3, FS_RemoveElement DEF SlotsRight
  <2>2. q \in [DOMAIN q -> Slot]
    BY <1>3 DEF SlotsRight, Shrinks
  <2> QED BY <1>3, <2>1, <2>2 DEF SlotsRight
<1>7. x \in Taken(p, b.base)
  BY DEF Taken
<1>8. Cardinality(Users(q, b.base)) = b.usedCount - 1 /\ b.usedCount >= 1
  <2>1. IsFiniteSet(Users(p, b.base))
    BY FS_Subset DEF SlotsRight, Users
  <2>2. Cardinality(Users(q, b.base)) = b.usedCount - 1
    BY <1>4, <2>1, FS_RemoveElement DEF BlockRight
  <2>3. b.usedCount # 0
    BY <2>1, FS_EmptySet DEF BlockRight
  <2> QED BY <1>1, <2>2, <2>3, SlotsAssumption
<1>9. n = LastSlot - b.usedCount
  BY DEF BlockRight
<1>10. \A j, k \in 1 .. n : s[j] = s[k] => j = k
  BY <1>1 DEF BlockRight
<1>11. ToSet(s) = (1 .. LastSlot) \ Taken(p, b.base)
  BY DEF BlockRight
<1> HIDE DEF s, n
<1>12. t \in Seq(1 .. LastSlot) /\ Len(t) = n + 1 /\ DOMAIN t = 1 .. n + 1
       /\ t[1] = x /\ \A j \in 2 .. n + 1 : t[j] = s[j - 1]
  <2>1. <<x>> \in Seq(1 .. LastSlot) /\ Len(<<x>>) = 1
    BY <1>2
  <2>2. /\ t \in Seq(1 .. LastSlot) /\ Len(t) = 1 + n
        /\ \A j \in 1 .. 1 + n : t[j] = IF j <= 1 THEN <<x>>[j] ELSE s[j - 1]
    <3>1. n = Len(s)
      BY DEF n
    <3> QED BY <1>1, <2>1, <3>1, ConcatProperties
  <2> HIDE DEF t
  <2>3. DOMAIN t = 1 .. n + 1
    BY <1>1, <2>2
  <2> QED BY <1>1, <2>2, <2>3
<1> HIDE DEF t
<1>13. ToSet(t) = ToSet(s) \union {x}
  <2>1. ASSUME NEW y \in ToSet(t) PROVE y \in ToSet(s) \union {x}
    <3>1. PICK j \in 1 .. n + 1 : y = t[j]
      BY <1>12, <2>1 DEF ToSet
    <3>2. CASE j = 1
      BY <1>12, <3>1, <3>2
    <3>3. CASE j # 1
      <4>1. j \in 2 .. n + 1 /\ j - 1 \in 1 .. n
        BY <1>1, <3>1, <3>3
      <4> QED BY <1>1, <1>12, <3>1, <4>1 DEF ToSet
    <3> QED BY <3>2, <3>3
  <2>2. x \in ToSet(t)
    BY <1>1, <1>12 DEF ToSet
  <2>3. ASSUME NEW y \in ToSet(s) PROVE y \in ToSet(t)
    <3>1. PICK j \in 1 .. n : y = s[j]
      BY <1>1, <2>3 DEF ToSet
    <3>2. j + 1 \in 2 .. n + 1 /\ j + 1 \in 1 .. n + 1 /\ (j + 1) - 1 = j
      BY <1>1, <3>1
    <3>3. t[j + 1] = y
      BY <1>12, <3>1, <3>2
    <3> QED BY <1>12, <3>2, <3>3 DEF ToSet
  <2> QED BY <2>1, <2>2, <2>3
<1>14. x \notin ToSet(s)
  BY <1>7, <1>11
<1>15. \A j, k \in 1 .. n + 1 : t[j] = t[k] => j = k
  <2>1. \A j \in 2 .. n + 1 : j - 1 \in 1 .. n /\ t[j] = s[j - 1] /\ t[j] # x
    <3>1. \A j \in 2 .. n + 1 : j - 1 \in 1 .. n /\ t[j] = s[j - 1]
      BY <1>1, <1>12
    <3>2. \A j \in 1 .. n : s[j] \in ToSet(s)
      BY <1>1 DEF ToSet
    <3> QED BY <1>14, <3>1, <3>2
  <2>2. \A j \in 1 .. n + 1 : j = 1 \/ j \in 2 .. n + 1
    BY <1>1
  <2>3. ASSUME NEW j \in 2 .. n + 1, NEW k \in 2 .. n + 1, t[j] = t[k] PROVE j = k
    <3>1. j - 1 = k - 1
      BY <1>10, <2>1, <2>3
    <3> QED BY <1>1, <3>1
  <2> QED BY <1>12, <2>1, <2>2, <2>3
<1> DEFINE freed == [base |-> b.base, pFree |-> <<p[f].at>> \o b.pFree, usedCount |-> b.usedCount - 1]
<1>16. freed.base = b.base /\ freed.pFree = t /\ freed.usedCount = b.usedCount - 1
  BY DEF t, s, x
<1>17. freed \in Block
  BY <1>1, <1>8, <1>12, SlotsAssumption DEF Block, t, s, x
<1> HIDE DEF freed
<1>18. BlockRight(freed, q)
  <2>2. freed.usedCount = Cardinality(Users(q, freed.base))
    BY <1>8, <1>16
  <2>3. ToSet(freed.pFree) = (1 .. LastSlot) \ Taken(q, freed.base)
    BY <1>2, <1>5, <1>11, <1>13, <1>16
  <2>4. Len(freed.pFree) = LastSlot - freed.usedCount
    BY <1>1, <1>9, <1>12, <1>16, SlotsAssumption
  <2>5. \A j, k \in DOMAIN freed.pFree : freed.pFree[j] = freed.pFree[k] => j = k
    <3>1. DOMAIN freed.pFree = 1 .. n + 1
      BY <1>12, <1>16
    <3> QED BY <1>15, <1>16, <3>1
  <2> QED BY <1>17, <2>2, <2>3, <2>4, <2>5 DEF BlockRight
<1> QED BY <1>6, <1>18 DEF freed

-----------------------------------------------------------------------------
(* AllocateBuffer and FreeBuffer on the whole list. *)

AllUsed(list) == \A i \in DOMAIN list : list[i].usedCount > 0

\* list with b in the place of its block i.
Replaces(new, list, i, b) ==
  /\ DOMAIN new = DOMAIN list /\ new \in Seq(Block)
  /\ \A j \in DOMAIN list : new[j] = IF j = i THEN b ELSE list[j]

\* The other blocks of the list stay when one is replaced.
LEMMA Replaced ==
  ASSUME NEW list \in Seq(Block), NEW i \in DOMAIN list, NEW b \in Block
  PROVE  Replaces([list EXCEPT ![i] = b], list, i, b)
  BY DEF Replaces

\* One block of the list changes with the hooks that have slots of it.
LEMMA ReplacedRight ==
  ASSUME NEW list, NEW p, ListRight(list, p), NEW i \in DOMAIN list,
         NEW b, NEW q, BlockRight(b, q), b.base = list[i].base, NEW new, Replaces(new, list, i, b),
         OnlyTouches(q, p, b.base)
  PROVE  ListRight(new, q)
<1>2. new \in Seq(Block) /\ DOMAIN new = DOMAIN list /\ \A j \in DOMAIN list : new[j] = IF j = i THEN b ELSE list[j]
  BY DEF Replaces
<1>3. \A j \in DOMAIN list : new[j].base = list[j].base
  BY <1>2
<1>4. ASSUME NEW f \in DOMAIN q PROVE \E j \in DOMAIN new : q[f].block = new[j].base
  <2>1. CASE q[f].block = b.base
    BY <1>2, <1>3, <2>1
  <2>2. CASE q[f].block # b.base
    <3>1. f \in Users(q, q[f].block)
      BY DEF Users
    <3>2. f \in DOMAIN p /\ p[f].block = q[f].block
      BY <2>2, <3>1 DEF Users, OnlyTouches
    <3> QED BY <1>2, <1>3, <3>2 DEF ListRight
  <2> QED BY <2>1, <2>2
<1>5. ASSUME NEW j \in DOMAIN list PROVE BlockRight(new[j], q)
  <2>1. CASE j = i
    BY <1>2, <2>1
  <2>2. CASE j # i
    <3>1. list[j].base # b.base /\ BlockRight(list[j], p) /\ new[j] = list[j]
      BY <1>2, <2>2 DEF ListRight
    <3>2. Users(q, list[j].base) = Users(p, list[j].base) /\ \A f \in Users(p, list[j].base) : q[f] = p[f]
      BY <3>1 DEF OnlyTouches
    <3> QED BY <3>1, <3>2, OtherBlock
  <2> QED BY <2>1, <2>2
<1>6. \A j, k \in DOMAIN new : new[j].base = new[k].base => j = k
  BY <1>2, <1>3 DEF ListRight
<1> QED BY <1>2, <1>4, <1>5, <1>6 DEF ListRight

\* The block that a slot is taken of has a free one, and if it is new it is the
\* only one without hooks.
LEMMA RoomRight ==
  ASSUME NEW list, NEW p, ListRight(list, p), AllUsed(list), NEW base \in Blocks \ Bases(list),
         NEW room, room = GetMemoryBlock(list, base)
  PROVE  /\ ListRight(room, p)
         /\ Chosen(room) \in DOMAIN room /\ room[Chosen(room)].pFree # <<>>
         /\ \A j \in DOMAIN room : j # Chosen(room) => room[j].usedCount > 0
<1> DEFINE n == Len(list)
<1>1. list \in Seq(Block) /\ n \in Nat /\ DOMAIN list = 1 .. n
  BY DEF ListRight
<1>2. ASSUME room \in Seq(Block), WithRoom(room) # {}
      PROVE  Chosen(room) \in DOMAIN room /\ room[Chosen(room)].pFree # <<>>
  <2>1. WithRoom(room) \in SUBSET Nat
    BY <1>2 DEF WithRoom
  <2>2. \E i \in WithRoom(room) : \A j \in WithRoom(room) : i <= j
    BY <1>2, <2>1, HasLeast
  <2>3. Chosen(room) \in WithRoom(room)
    BY <2>2 DEF Chosen
  <2> QED BY <2>3 DEF WithRoom
<1>3. CASE WithRoom(list) # {}
  <2>1. room = list
    BY <1>3 DEF GetMemoryBlock
  <2> QED BY <1>1, <1>2, <1>3, <2>1 DEF AllUsed
<1>4. CASE WithRoom(list) = {}
  <2> DEFINE b == NewBlock(base)
  <2>1. \A f \in DOMAIN p : p[f].block # base
    BY DEF ListRight, Bases
  <2>2. BlockRight(b, p) /\ b.base = base /\ b.pFree # <<>>
    <3>1. Users(p, base) = {}
      BY <2>1 DEF Users
    <3> QED BY <3>1, NewBlockRight
  <2>3. room = <<b>> \o list
    BY <1>4 DEF GetMemoryBlock
  <2> HIDE DEF b
  <2>4. b \in Block
    BY <2>2 DEF BlockRight
  <2>5. room \in Seq(Block) /\ DOMAIN room = 1 .. n + 1 /\ room[1] = b
        /\ \A j \in 2 .. n + 1 : room[j] = list[j - 1] /\ j - 1 \in DOMAIN list
    <3>1. <<b>> \in Seq(Block) /\ Len(<<b>>) = 1 /\ <<b>>[1] = b
      BY <2>4
    <3>2. /\ room \in Seq(Block) /\ Len(room) = 1 + n
          /\ \A j \in 1 .. 1 + n : room[j] = IF j <= 1 THEN <<b>>[j] ELSE list[j - 1]
      BY <1>1, <2>3, <3>1, ConcatProperties
    <3>3. DOMAIN room = 1 .. n + 1
      BY <1>1, <3>2
    <3> QED BY <1>1, <3>1, <3>2, <3>3
  <2>6. 1 \in DOMAIN room /\ \A j \in DOMAIN room : j # 1 => j \in 2 .. n + 1
    BY <1>1, <2>5
  <2>7. \A j \in DOMAIN room : j # 1 => room[j].base # base
    BY <2>5, <2>6 DEF Bases
  <2>8. ListRight(room, p)
    <3>1. ASSUME NEW j \in DOMAIN room PROVE BlockRight(room[j], p)
      BY <2>2, <2>5, <2>6 DEF ListRight
    <3>2. ASSUME NEW j \in DOMAIN room, NEW k \in DOMAIN room, room[j].base = room[k].base PROVE j = k
      <4>1. CASE j = 1 \/ k = 1
        BY <2>2, <2>5, <2>7, <3>2, <4>1
      <4>2. CASE j # 1 /\ k # 1
        <5>1. j \in 2 .. n + 1 /\ k \in 2 .. n + 1
          BY <2>6, <4>2
        <5>2. j - 1 = k - 1
          BY <2>5, <3>2, <5>1 DEF ListRight
        <5> QED BY <1>1, <5>1, <5>2
      <4> QED BY <4>1, <4>2
    <3>3. ASSUME NEW f \in DOMAIN p PROVE \E j \in DOMAIN room : p[f].block = room[j].base
      <4>1. PICK k \in DOMAIN list : p[f].block = list[k].base
        BY DEF ListRight
      <4>2. k + 1 \in 2 .. n + 1 /\ (k + 1) - 1 = k /\ k + 1 \in DOMAIN room
        BY <1>1, <2>5
      <4> QED BY <2>5, <4>1, <4>2
    <3> QED BY <2>5, <3>1, <3>2, <3>3 DEF ListRight
  <2>9. 1 \in WithRoom(room)
    BY <2>2, <2>5, <2>6 DEF WithRoom
  <2>10. Chosen(room) \in DOMAIN room /\ room[Chosen(room)].pFree # <<>>
    BY <1>2, <2>5, <2>9
  <2>11. Chosen(room) = 1
    <3> SUFFICES ASSUME Chosen(room) # 1 PROVE FALSE
      OBVIOUS
    <3>1. Chosen(room) - 1 \in DOMAIN list /\ list[Chosen(room) - 1].pFree # <<>>
      BY <2>5, <2>6, <2>10
    <3> QED BY <1>4, <3>1 DEF WithRoom
  <2>12. \A j \in DOMAIN room : j # 1 => room[j].usedCount > 0
    BY <2>5, <2>6 DEF AllUsed
  <2> QED BY <2>8, <2>10, <2>11, <2>12
<1> QED BY <1>3, <1>4

\* AllocateBuffer gives a slot that no hook has.
LEMMA AllocateRight ==
  ASSUME NEW list, NEW p, SlotsRight(p), ListRight(list, p), AllUsed(list), NEW base \in Blocks \ Bases(list),
         NEW f, f \notin DOMAIN p, NEW new, new = AllocateBuffer(list, base),
         NEW q, q = [g \in DOMAIN p \union {f} |-> IF g = f THEN new.slot ELSE p[g]]
  PROVE  /\ new.slot \in Slot /\ new.slot \notin Range(p)
         /\ SlotsRight(q) /\ ListRight(new.list, q) /\ AllUsed(new.list)
<1> DEFINE room == GetMemoryBlock(list, base)
           i    == Chosen(room)
           b    == room[i]
           slot == [block |-> b.base, at |-> Head(b.pFree)]
           taken == [base |-> b.base, pFree |-> NextFree(b.pFree), usedCount |-> b.usedCount + 1]
<1>1. ListRight(room, p) /\ i \in DOMAIN room /\ b.pFree # <<>> /\ \A j \in DOMAIN room : j # i => room[j].usedCount > 0
  BY RoomRight
<1>2. room \in Seq(Block) /\ BlockRight(b, p)
  BY <1>1 DEF ListRight
<1>3. new.slot = slot
  BY DEF AllocateBuffer
<1>5. new.list = [room EXCEPT ![i] = taken]
  BY DEF AllocateBuffer
<1>6. Extends(q, p, f, slot)
  BY <1>3 DEF Extends
<1>7. slot \in Slot /\ slot \notin Range(p) /\ SlotsRight(q) /\ BlockRight(taken, q) /\ b.usedCount + 1 > 0
  <2>1. slot = [block |-> b.base, at |-> Head(b.pFree)]
    OBVIOUS
  <2> HIDE DEF slot, b, room, i
  <2> QED BY <1>1, <1>2, <1>6, <2>1, TakeRight
<1>8. OnlyTouches(q, p, taken.base)
  BY <1>6 DEF Users, Extends, OnlyTouches
<1>9. ListRight(new.list, q) /\ Replaces(new.list, room, i, taken)
  <2>1. taken \in Block
    BY <1>7 DEF BlockRight
  <2>2. taken.base = b.base /\ b.base = room[i].base
    OBVIOUS
  <2> HIDE DEF taken, b, room, i
  <2>3. Replaces(new.list, room, i, taken)
    BY <1>1, <1>2, <1>5, <2>1, Replaced
  <2> QED BY <1>1, <1>7, <1>8, <2>2, <2>3, ReplacedRight
<1>10. AllUsed(new.list)
  BY <1>1, <1>7, <1>9 DEF AllUsed, Replaces
<1> QED BY <1>3, <1>7, <1>9, <1>10

\* Unlink leaves the other blocks, each once.
LEMMA Unlinked ==
  ASSUME NEW list \in Seq(Block), NEW i \in DOMAIN list
  PROVE  /\ RemoveAt(list, i) \in Seq(Block)
         /\ DOMAIN RemoveAt(list, i) = 1 .. Len(list) - 1
         /\ \A j \in 1 .. Len(list) - 1 : RemoveAt(list, i)[j] = IF j < i THEN list[j] ELSE list[j + 1]
<1> DEFINE n == Len(list)
           s == SubSeq(list, 1, i - 1)
           t == SubSeq(list, i + 1, n)
<1>1. n \in Nat /\ DOMAIN list = 1 .. n /\ i \in 1 .. n /\ i \in Int
  OBVIOUS
<1> HIDE DEF n
<1>2. \A j \in 1 .. n : list[j] \in Block
  BY <1>1
<1>3. s \in Seq(Block) /\ Len(s) = i - 1 /\ \A j \in 1 .. i - 1 : s[j] = list[j]
  <2>1. \A j \in 1 .. i - 1 : list[j] \in Block
    BY <1>1, <1>2
  <2>2. /\ s \in Seq(Block) /\ Len(s) = IF 1 <= i - 1 THEN i - 1 - 1 + 1 ELSE 0
        /\ \A j \in 1 .. i - 1 - 1 + 1 : s[j] = list[1 + j - 1]
    BY <1>1, <2>1, SubSeqProperties
  <2> HIDE DEF s
  <2>3. \A j \in 1 .. i - 1 : j \in 1 .. i - 1 - 1 + 1 /\ 1 + j - 1 = j
    BY <1>1
  <2> QED BY <1>1, <2>2, <2>3
<1>4. t \in Seq(Block) /\ Len(t) = n - i /\ \A j \in 1 .. n - i : t[j] = list[i + j]
  <2>1. \A j \in i + 1 .. n : list[j] \in Block
    BY <1>1, <1>2
  <2>2. /\ t \in Seq(Block) /\ Len(t) = IF i + 1 <= n THEN n - (i + 1) + 1 ELSE 0
        /\ \A j \in 1 .. n - (i + 1) + 1 : t[j] = list[i + 1 + j - 1]
    BY <1>1, <2>1, SubSeqProperties
  <2> HIDE DEF t
  <2>3. \A j \in 1 .. n - i : j \in 1 .. n - (i + 1) + 1 /\ i + 1 + j - 1 = i + j
    BY <1>1
  <2> QED BY <1>1, <2>2, <2>3
<1>5. RemoveAt(list, i) = s \o t
  BY DEF RemoveAt, n
<1> HIDE DEF s, t
<1>6. /\ s \o t \in Seq(Block) /\ Len(s \o t) = Len(s) + Len(t)
      /\ \A j \in 1 .. Len(s) + Len(t) : (s \o t)[j] = IF j <= Len(s) THEN s[j] ELSE t[j - Len(s)]
  BY <1>3, <1>4, ConcatProperties
<1>7. Len(s) + Len(t) = n - 1
  BY <1>1, <1>3, <1>4
<1>8. DOMAIN (s \o t) = 1 .. n - 1
  BY <1>6, <1>7
<1>9. ASSUME NEW j \in 1 .. n - 1 PROVE (s \o t)[j] = IF j < i THEN list[j] ELSE list[j + 1]
  <2>1. CASE j < i
    <3>1. j \in 1 .. i - 1 /\ j <= Len(s)
      BY <1>1, <1>3, <1>9, <2>1
    <3> QED BY <1>3, <1>6, <1>7, <1>9, <2>1, <3>1
  <2>2. CASE ~(j < i)
    <3>1. ~(j <= Len(s)) /\ j - Len(s) \in 1 .. n - i /\ i + (j - Len(s)) = j + 1
      BY <1>1, <1>3, <1>9, <2>2
    <3>2. (s \o t)[j] = t[j - Len(s)]
      BY <1>6, <1>7, <1>9, <3>1
    <3> QED BY <1>4, <2>2, <3>1, <3>2
  <2> QED BY <2>1, <2>2
<1> QED BY <1>5, <1>6, <1>8, <1>9 DEF n

\* FreeBuffer takes the slot of a hook back, and keeps no block without hooks.
LEMMA FreeRight ==
  ASSUME NEW list, NEW p, SlotsRight(p), ListRight(list, p), AllUsed(list),
         NEW f \in DOMAIN p, NEW q, Shrinks(q, p, f),
         NEW new, new = FreeBuffer(list, p[f])
  PROVE  SlotsRight(q) /\ ListRight(new, q) /\ AllUsed(new)
<1> DEFINE i == CHOOSE j \in DOMAIN list : list[j].base = p[f].block
           b == list[i]
           given == [base |-> b.base, pFree |-> <<p[f].at>> \o b.pFree, usedCount |-> b.usedCount - 1]
           freed == [list EXCEPT ![i] = given]
           n == Len(list)
<1>1. i \in DOMAIN list /\ b.base = p[f].block
  <2>1. \E j \in DOMAIN list : list[j].base = p[f].block
    BY DEF ListRight
  <2> QED BY <2>1
<1>2. list \in Seq(Block) /\ BlockRight(b, p) /\ f \in Users(p, b.base)
  BY <1>1 DEF ListRight, Users
<1>3. new = IF freed[i].usedCount = 0 THEN RemoveAt(list, i) ELSE freed
  BY DEF FreeBuffer, Unlink
<1> HIDE DEF i
<1>4. SlotsRight(q) /\ BlockRight(given, q)
  <2> HIDE DEF b
  <2> QED BY <1>2, GiveRight
<1>5. given \in Block /\ given.base = b.base /\ given.base = list[i].base /\ given.usedCount = b.usedCount - 1
  BY <1>4 DEF BlockRight
<1> HIDE DEF given, b
<1>6. OnlyTouches(q, p, given.base)
  BY <1>2, <1>5 DEF OnlyTouches, Users, Shrinks
<1>7. Replaces(freed, list, i, given)
  BY <1>1, <1>2, <1>5, Replaced
<1> HIDE DEF freed
<1>8. ListRight(freed, q)
  BY <1>1, <1>4, <1>5, <1>6, <1>7, ReplacedRight
<1>9. DOMAIN freed = DOMAIN list /\ freed[i] = given /\ \A j \in DOMAIN list : j # i => freed[j] = list[j]
  BY <1>1, <1>7 DEF Replaces
<1>10. given.usedCount \in Nat
  <2>1. given.usedCount \in 0 .. LastSlot
    BY <1>5 DEF Block
  <2> QED BY <2>1, SlotsAssumption
<1>11. CASE given.usedCount # 0
  <2>1. new = freed
    BY <1>3, <1>9, <1>11
  <2>2. AllUsed(freed)
    <3>1. given.usedCount > 0
      BY <1>10, <1>11
    <3> QED BY <1>9, <3>1 DEF AllUsed
  <2> QED BY <1>4, <1>8, <2>1, <2>2
<1>12. CASE given.usedCount = 0
  <2>1. new = RemoveAt(list, i)
    BY <1>3, <1>9, <1>12
  <2>2. n \in Nat /\ DOMAIN list = 1 .. n /\ i \in 1 .. n
    BY <1>1, <1>2
  <2>3. /\ new \in Seq(Block) /\ DOMAIN new = 1 .. n - 1
        /\ \A j \in 1 .. n - 1 : new[j] = IF j < i THEN list[j] ELSE list[j + 1]
    BY <1>1, <1>2, <2>1, Unlinked
  <2> DEFINE from(j) == IF j < i THEN j ELSE j + 1
  <2> HIDE DEF n
  <2>4. \A j \in DOMAIN new : from(j) \in DOMAIN list /\ from(j) # i /\ new[j] = list[from(j)]
    BY <2>2, <2>3
  <2>5. \A j, k \in DOMAIN new : from(j) = from(k) => j = k
    BY <2>2, <2>3
  <2>6. ASSUME NEW k \in DOMAIN list, k # i PROVE \E j \in DOMAIN new : from(j) = k
    <3>1. CASE k < i
      BY <2>2, <2>3, <2>6, <3>1
    <3>2. CASE ~(k < i)
      <4>1. k - 1 \in DOMAIN new /\ from(k - 1) = k
        BY <2>2, <2>3, <2>6, <3>2
      <4> QED BY <4>1
    <3> QED BY <3>1, <3>2
  <2> HIDE DEF from
  <2>7. \A j \in DOMAIN new : new[j] = freed[from(j)]
    BY <1>9, <2>4
  <2>8. ASSUME NEW g \in DOMAIN q PROVE \E j \in DOMAIN new : q[g].block = new[j].base
    <3>1. PICK k \in DOMAIN list : q[g].block = freed[k].base
      BY <1>8, <1>9 DEF ListRight
    <3>2. k # i
      <4> SUFFICES ASSUME k = i PROVE FALSE
        OBVIOUS
      <4>1. g \in Users(q, given.base)
        BY <1>9, <3>1 DEF Users
      <4>2. IsFiniteSet(Users(q, given.base))
        BY <1>4, FS_Subset DEF SlotsRight, Users
      <4>3. Cardinality(Users(q, given.base)) = 0
        BY <1>4, <1>12 DEF BlockRight
      <4> QED BY <4>1, <4>2, <4>3, FS_EmptySet
    <3> QED BY <2>6, <2>7, <3>1, <3>2
  <2>9. \A j, k \in DOMAIN new : new[j].base = new[k].base => j = k
    BY <2>4, <2>5 DEF ListRight
  <2>10. \A j \in DOMAIN new : BlockRight(new[j], q)
    BY <1>8, <1>9, <2>4, <2>7 DEF ListRight
  <2>11. ListRight(new, q)
    BY <2>3, <2>8, <2>9, <2>10 DEF ListRight
  <2>12. AllUsed(new)
    BY <2>4 DEF AllUsed
  <2> QED BY <1>4, <2>11, <2>12
<1> QED BY <1>11, <1>12

-----------------------------------------------------------------------------
(* hook.c over buffer.c. *)

\* The invariant: a slot belongs to one hook, and is free only once.
MemoryInv ==
  /\ BookInv /\ DOMAIN pTrampoline = slots
  /\ SlotsRight(pTrampoline) /\ ListRight(g_pMemoryBlocks, pTrampoline) /\ AllUsed(g_pMemoryBlocks)

\* MemoryConsistent is a part of it.
LEMMA MemoryInvConsistent == MemoryInv => MemoryConsistent
<1> SUFFICES ASSUME MemoryInv PROVE MemoryConsistent
  OBVIOUS
<1>1. pTrampoline \in [slots -> Slot]
  BY DEF MemoryInv, SlotsRight
<1>2. \A f \in DOMAIN pTrampoline : pTrampoline[f].block \in Bases(g_pMemoryBlocks)
  BY DEF MemoryInv, ListRight, Bases
<1>3. ASSUME NEW i \in DOMAIN g_pMemoryBlocks
      PROVE  LET b == g_pMemoryBlocks[i] IN
               /\ b.usedCount = Cardinality(InUse(b.base)) /\ b.usedCount > 0
               /\ ToSet(b.pFree) = (1 .. LastSlot) \ { pTrampoline[f].at : f \in InUse(b.base) }
               /\ Len(b.pFree) = LastSlot - b.usedCount
  <2> DEFINE b == g_pMemoryBlocks[i]
  <2>1. BlockRight(b, pTrampoline) /\ b.usedCount > 0
    BY DEF MemoryInv, ListRight, AllUsed
  <2>2. InUse(b.base) = Users(pTrampoline, b.base)
    BY DEF InUse, Users
  <2> HIDE DEF b
  <2>3. { pTrampoline[f].at : f \in InUse(b.base) } = Taken(pTrampoline, b.base)
    BY <2>2 DEF Taken
  <2>4. /\ b.usedCount = Cardinality(InUse(b.base)) /\ b.usedCount > 0
        /\ ToSet(b.pFree) = (1 .. LastSlot) \ { pTrampoline[f].at : f \in InUse(b.base) }
        /\ Len(b.pFree) = LastSlot - b.usedCount
    BY <2>1, <2>2, <2>3 DEF BlockRight
  <2> QED BY <2>4 DEF b
<1> QED BY <1>1, <1>2, <1>3 DEF MemoryConsistent, MemoryInv, ListRight

\* No block before the first hook.
LEMMA MemInitInv == MemInit => MemoryInv
<1> SUFFICES ASSUME MemInit PROVE MemoryInv
  OBVIOUS
<1>1. BookInv /\ slots = {}
  BY InitInv DEF MemInit, Init, IInv
<1>2. DOMAIN pTrampoline = {} /\ pTrampoline \in [DOMAIN pTrampoline -> Slot]
  BY DEF MemInit
<1>3. SlotsRight(pTrampoline)
  BY <1>2, FS_EmptySet DEF SlotsRight
<1>4. g_pMemoryBlocks \in Seq(Block) /\ DOMAIN g_pMemoryBlocks = {}
  <2>1. g_pMemoryBlocks = <<>> /\ 1 .. 0 = {} /\ Len(g_pMemoryBlocks) = 0
    BY DEF MemInit
  <2> QED BY <2>1
<1>5. ListRight(g_pMemoryBlocks, pTrampoline) /\ AllUsed(g_pMemoryBlocks)
  BY <1>2, <1>4 DEF ListRight, AllUsed
<1> QED BY <1>1, <1>2, <1>3, <1>5 DEF MemoryInv

\* What happens to the slots is a step of hook.c.
LEMMA MemoryStepIsStep == MemNext => Next
  BY DEF MemNext, CreateHookIn, RemoveHookFrom, UninitializeBuffer, Next, LibraryStep

\* Where the slot of a new hook comes from, and where it goes if the hook is not made.
LEMMA CreateKeeps ==
  ASSUME MemoryInv, NEW c \in Callers, CreateHookIn(c), BookInv'
  PROVE  /\ MemoryInv'
         /\ \/ \E f \in Targets, slot \in Slot \ Range(pTrampoline) :
                 /\ f \notin DOMAIN pTrampoline
                 /\ pTrampoline' = [g \in DOMAIN pTrampoline \union {f} |-> IF g = f THEN slot ELSE pTrampoline[g]]
            \/ UNCHANGED pTrampoline
         /\ UNCHANGED code
<1> DEFINE f == op[c].target
<1>0. UNCHANGED code
  BY DEF CreateHookIn, CreateHook
<1>1. PICK base \in Blocks \ Bases(g_pMemoryBlocks) :
        LET new == AllocateBuffer(g_pMemoryBlocks, base) IN
          \/ /\ f \in slots' \ slots
             /\ pTrampoline' = [g \in slots' |-> IF g = f THEN new.slot ELSE pTrampoline[g]]
             /\ g_pMemoryBlocks' = new.list
          \/ /\ slots' = slots /\ g_hHeap /\ f # All /\ IsNew(f)
             /\ g_pMemoryBlocks' = FreeBuffer(new.list, new.slot)
             /\ UNCHANGED pTrampoline
          \/ slots' = slots /\ UNCHANGED memoryVars
  BY DEF CreateHookIn
<1> DEFINE new == AllocateBuffer(g_pMemoryBlocks, base)
           p == pTrampoline
           q == [g \in DOMAIN p \union {f} |-> IF g = f THEN new.slot ELSE p[g]]
<1>2. BookTypes /\ BookTypes' /\ OneEntryEach /\ DOMAIN p = slots
  BY BookMeansEach DEF MemoryInv, BookInv, TypeOK
<1>3. ASSUME f \notin slots
      PROVE  /\ new.slot \in Slot /\ new.slot \notin Range(p)
             /\ SlotsRight(q) /\ ListRight(new.list, q) /\ AllUsed(new.list)
  <2>1. f \notin DOMAIN p
    BY <1>2, <1>3
  <2> HIDE DEF f
  <2> QED BY <2>1, AllocateRight DEF MemoryInv
<1>4. CASE /\ f \in slots' \ slots
           /\ pTrampoline' = [g \in slots' |-> IF g = f THEN new.slot ELSE pTrampoline[g]]
           /\ g_pMemoryBlocks' = new.list
  <2>1. slots' = slots \union {f} /\ f \in Targets
    BY <1>2, <1>4 DEF CreateHookIn, CreateHook, BookTypes
  <2>2. pTrampoline' = q /\ DOMAIN q = slots'
    BY <1>2, <1>4, <2>1
  <2>3. MemoryInv'
    BY <1>3, <1>4, <2>2 DEF MemoryInv
  <2> QED BY <1>0, <1>2, <1>3, <1>4, <2>1, <2>2, <2>3
<1>5. CASE /\ slots' = slots /\ f # All /\ IsNew(f)
           /\ g_pMemoryBlocks' = FreeBuffer(new.list, new.slot)
           /\ UNCHANGED pTrampoline
  <2>1. f \notin slots
    BY <1>2, <1>5 DEF IsNew, FindHookEntry, OneEntryEach, BookTypes
  <2>2. f \in DOMAIN q /\ q[f] = new.slot /\ Shrinks(p, q, f)
    <3>1. p = [g \in DOMAIN p |-> p[g]]
      BY DEF MemoryInv, SlotsRight
    <3> QED BY <1>2, <2>1, <3>1 DEF Shrinks
  <2>3. SlotsRight(q) /\ ListRight(new.list, q) /\ AllUsed(new.list) /\ g_pMemoryBlocks' = FreeBuffer(new.list, q[f])
    BY <1>3, <1>5, <2>1, <2>2
  <2> HIDE DEF new, q, f, p
  <2>4. SlotsRight(p) /\ ListRight(g_pMemoryBlocks', p) /\ AllUsed(g_pMemoryBlocks')
    BY <2>2, <2>3, FreeRight
  <2>5. MemoryInv'
    BY <1>2, <1>5, <2>4 DEF MemoryInv, p
  <2> QED BY <1>0, <1>5, <2>5
<1>6. CASE slots' = slots /\ UNCHANGED memoryVars
  <2>1. MemoryInv'
    BY <1>2, <1>6 DEF MemoryInv, memoryVars
  <2> QED BY <1>0, <1>6, <2>1 DEF memoryVars
<1> QED BY <1>1, <1>4, <1>5, <1>6

\* The slot of a hook that is removed is given back.
LEMMA RemoveKeeps ==
  ASSUME MemoryInv, NEW c \in Callers, RemoveHookFrom(c), BookInv'
  PROVE  /\ MemoryInv'
         /\ \E f \in Targets : /\ f \in DOMAIN pTrampoline \ code
                               /\ pTrampoline' = Restrict(pTrampoline, DOMAIN pTrampoline \ {f})
         /\ UNCHANGED code
<1> DEFINE f == op[c].target
           p == pTrampoline
           q == Restrict(p, DOMAIN p \ {f})
<1>0. BookTypes /\ OneEntryEach /\ DOMAIN p = slots
  BY BookMeansEach DEF MemoryInv, BookInv, TypeOK
<1>1. /\ g_pMemoryBlocks' = FreeBuffer(g_pMemoryBlocks, p[f]) /\ pTrampoline' = q
      /\ UNCHANGED code /\ Frees(c, "RemoveHook") /\ op[c].name = "RemoveHook"
  BY DEF RemoveHookFrom, RemoveHook, Frees
<1>2. PICK i \in Subject(c) : slots' = slots \ {g_hooks[i].target}
  BY DEF RemoveHookFrom, RemoveHook
<1>3. i \in Positions /\ g_hooks[i].target = f
  BY <1>1, <1>2 DEF Subject, FindHookEntry
<1>4. g_hooks[i].isEnabled = FALSE
  BY <1>1, <1>2, FreedIsDisabled DEF MemoryInv
<1>5. f \in Targets /\ f \in slots
  BY <1>0, <1>3, Entries DEF OneEntryEach
<1>6. f \notin code
  BY <1>0, <1>3, <1>4, <1>5 DEF OneEntryEach
<1>7. Shrinks(q, p, f) /\ DOMAIN q = slots'
  BY <1>0, <1>2, <1>3 DEF Shrinks, Restrict
<1>8. SlotsRight(q) /\ ListRight(g_pMemoryBlocks', q) /\ AllUsed(g_pMemoryBlocks')
  <2>1. SlotsRight(p) /\ ListRight(g_pMemoryBlocks, p) /\ AllUsed(g_pMemoryBlocks)
    BY DEF MemoryInv
  <2> HIDE DEF p, q, f
  <2> QED BY <1>0, <1>1, <1>5, <1>7, <2>1, FreeRight
<1>9. MemoryInv'
  BY <1>1, <1>7, <1>8 DEF MemoryInv
<1> QED BY <1>0, <1>1, <1>5, <1>6, <1>9

\* With the last hook the last block goes.
LEMMA UninitializeKeeps ==
  ASSUME MemoryInv, NEW c \in Callers, UninitializeBuffer(c), BookInv'
  PROVE  MemoryInv' /\ code = {} /\ UNCHANGED code /\ pTrampoline' = [f \in {} |-> f]
<1>0. /\ g_pMemoryBlocks' = <<>> /\ pTrampoline' = [f \in {} |-> f] /\ slots' = {} /\ g_hooks' = <<>>
      /\ UNCHANGED code
  BY DEF UninitializeBuffer, Uninitialize
<1>1. DOMAIN pTrampoline' = {} /\ pTrampoline' \in [DOMAIN pTrampoline' -> Slot]
  BY <1>0
<1>2. SlotsRight(pTrampoline')
  BY <1>1, FS_EmptySet DEF SlotsRight
<1>3. g_pMemoryBlocks' \in Seq(Block) /\ DOMAIN g_pMemoryBlocks' = {}
  <2>1. 1 .. 0 = {} /\ Len(g_pMemoryBlocks') = 0
    BY <1>0
  <2> QED BY <1>0, <2>1
<1>4. ListRight(g_pMemoryBlocks', pTrampoline') /\ AllUsed(g_pMemoryBlocks')
  BY <1>1, <1>3 DEF ListRight, AllUsed
<1>5. MemoryInv'
  BY <1>0, <1>1, <1>2, <1>4 DEF MemoryInv
<1>6. code' = {}
  <2>1. 1 .. 0 = {} /\ Len(g_hooks') = 0
    BY <1>0
  <2>2. Positions' = {}
    BY <2>1 DEF Positions
  <2> QED BY <2>2 DEF BookInv, BookMatchesCode
<1> QED BY <1>0, <1>5, <1>6

\* The steps that leave the slots alone switch one hook, or none.
LEMMA OthersKeep ==
  ASSUME MemoryInv, Next, slots' = slots, UNCHANGED memoryVars, BookInv'
  PROVE  /\ MemoryInv' /\ UNCHANGED pTrampoline
         /\ \/ \E f \in Targets : f \in DOMAIN pTrampoline \ code /\ code' = code \union {f}
            \/ \E f \in Targets : code' = code \ {f}
            \/ UNCHANGED code
<1>1. MemoryInv' /\ UNCHANGED pTrampoline
  BY DEF MemoryInv, memoryVars
<1>2. ASSUME NEW c \in Callers, EnableHookLL(c)
      PROVE  \/ \E f \in Targets : f \in DOMAIN pTrampoline \ code /\ code' = code \union {f}
             \/ \E f \in Targets : code' = code \ {f}
  <2>0. BookTypes /\ OneEntryEach /\ DOMAIN pTrampoline = slots
    BY BookMeansEach DEF MemoryInv, BookInv, TypeOK
  <2>1. PICK i \in Pending(c), enable \in BOOLEAN :
          /\ i \in Positions /\ enable = Wanted(c, i)
          /\ code' = IF enable THEN code \union {g_hooks[i].target} ELSE code \ {g_hooks[i].target}
    BY <1>2, <2>0, OneSwitched
  <2>2. g_hooks[i].target \in Targets /\ g_hooks[i].isEnabled \in BOOLEAN
    BY <2>0, <2>1, Entries
  <2>3. g_hooks[i].isEnabled # enable
    BY <2>1 DEF Pending
  <2>4. CASE enable = TRUE
    <3>1. g_hooks[i].target \in slots
      BY <2>0, <2>1, <2>2 DEF OneEntryEach
    <3>2. g_hooks[i].isEnabled = FALSE
      BY <2>2, <2>3, <2>4
    <3>3. g_hooks[i].target \notin code
      BY <2>0, <2>1, <2>2, <3>2 DEF OneEntryEach
    <3> QED BY <2>0, <2>1, <2>2, <2>4, <3>1, <3>3
  <2>5. CASE enable = FALSE
    BY <2>1, <2>2, <2>5
  <2> QED BY <2>4, <2>5
<1>3. ASSUME NEW t \in Runners, RunStep(t) PROVE UNCHANGED code
  BY <1>3 DEF RunStep
<1>4. ASSUME NEW c \in Callers, Begin(c) \/ LibraryStep(c), ~EnableHookLL(c) PROVE UNCHANGED code
  BY <1>4 DEF Begin, LibraryStep, EnterSpinLock, Initialize, CreateHook, QueueHook, NothingToWrite, EnumerateThreads,
              FreezeThread, ThawThread, AllFrozen, ProtectFails, AllWritten, AllThawed, RemoveHook, Uninitialize,
              FreesNothing, LeaveSpinLock
<1> QED BY <1>1, <1>2, <1>3, <1>4 DEF Next

\* Every call keeps it.
LEMMA MemoryInvStep ==
  ASSUME MemoryInv, [MemNext]_<<vars, memoryVars>>
  PROVE  MemoryInv' /\ [Table!Next]_(Table!vars)
<1>1. CASE UNCHANGED <<vars, memoryVars>>
  <2>1. BookInv'
    BY <1>1, BookStep DEF MemoryInv
  <2> QED BY <1>1, <2>1 DEF MemoryInv, vars, memoryVars, bookVars, Table!vars
<1>2. CASE MemNext
  <2>0. BookInv'
    BY <1>2, MemoryStepIsStep, BookStep DEF MemoryInv
  <2> USE DEF Table!Next, Table!vars, Table!Created
  <2>1. ASSUME NEW c \in Callers, CreateHookIn(c) PROVE MemoryInv' /\ [Table!Next]_(Table!vars)
    <3>1. MemoryInv' /\ UNCHANGED code
      BY <2>0, <2>1, CreateKeeps
    <3>2. CASE UNCHANGED pTrampoline
      BY <3>1, <3>2
    <3>3. ASSUME NEW f \in Targets, NEW slot \in Slot \ Range(pTrampoline), f \notin DOMAIN pTrampoline,
                 pTrampoline' = [g \in DOMAIN pTrampoline \union {f} |-> IF g = f THEN slot ELSE pTrampoline[g]]
          PROVE  MemoryInv' /\ [Table!Next]_(Table!vars)
      <4>1. Table!Create(f)
        BY <3>1, <3>3 DEF Table!Create, Table!Range, Range
      <4> QED BY <3>1, <4>1
    <3> QED BY <2>0, <2>1, <3>2, <3>3, CreateKeeps
  <2>2. ASSUME NEW c \in Callers, RemoveHookFrom(c) PROVE MemoryInv' /\ [Table!Next]_(Table!vars)
    <3>1. MemoryInv' /\ UNCHANGED code
      BY <2>0, <2>2, RemoveKeeps
    <3>2. PICK f \in Targets : /\ f \in DOMAIN pTrampoline \ code
                               /\ pTrampoline' = Restrict(pTrampoline, DOMAIN pTrampoline \ {f})
      BY <2>0, <2>2, RemoveKeeps
    <3>3. Table!Remove(f)
      BY <3>1, <3>2 DEF Table!Remove, Table!Restrict, Restrict
    <3> QED BY <3>1, <3>3
  <2>3. ASSUME NEW c \in Callers, UninitializeBuffer(c) PROVE MemoryInv' /\ [Table!Next]_(Table!vars)
    BY <2>0, <2>3, UninitializeKeeps DEF Table!RemoveAll
  <2>4. CASE Next /\ slots' = slots /\ UNCHANGED memoryVars
    BY <2>0, <2>4, OthersKeep DEF Table!Enable, Table!Disable
  <2> QED BY <1>2, <2>1, <2>2, <2>3, <2>4 DEF MemNext
<1> QED BY <1>1, <1>2

\* Each slot is free once or has one hook, at every step.
LEMMA MemoryInvariance == MemSpec => []MemoryInv
<1>1. MemoryInv /\ [MemNext]_<<vars, memoryVars>> => MemoryInv'
  BY MemoryInvStep
<1> QED BY <1>1, MemInitInv, PTL DEF MemSpec

\* However many hooks are made, fail to be made and are removed, in whichever
\* order, AllocateBuffer and FreeBuffer neither lose a slot nor give it twice.
THEOREM SlotsConsistent == MemSpec => []MemoryConsistent
  BY MemoryInvariance, MemoryInvConsistent, PTL

\* Each step of hook.c and buffer.c is one of the table of hooks, or none: a
\* trampoline stays where it is, and none is freed while the jump leads to it.
THEOREM HookTableImplemented == MemSpec => ImplementsHookTable
<1>1. MemInit => Table!Init
  BY DEF MemInit, Init, Table!Init
<1>2. MemoryInv /\ [MemNext]_<<vars, memoryVars>> => [Table!Next]_(Table!vars)
  BY MemoryInvStep
<1> QED BY <1>1, <1>2, MemoryInvariance, PTL DEF MemSpec, ImplementsHookTable, Table!Spec
=============================================================================
