---------------------------- MODULE DatagramProofs ----------------------------
(***************************************************************************)
(* gs_field and hook_sendto read what the game wrote, for texts and        *)
(* numbers of any length.  The invariant, Laid, says where in the text     *)
(* each pair lies and that no other backslash is there; then what the      *)
(* search finds are the fields, the digits behind one are its value's, and *)
(* the int arithmetic of the loop is exact while the number fits.          *)
(***************************************************************************)
EXTENDS Datagram, TLAPS, WellFoundedInduction

Token == {Sep} \union { Word(n) : n \in Names } \union { Digit(d) : d \in Nat }
Pair  == [key : Names, value : Values]

\* The k-th pair starts at at[k]; the last of at is where the next would start.
LaidAt(at) ==
  /\ at \in [1 .. Len(pairs) + 1 -> Nat \ {0}]
  /\ at[1] = Len(lead) + 1
  /\ at[Len(pairs) + 1] = Len(text) + 1
  /\ \A k \in 1 .. Len(pairs) :
       /\ at[k + 1] = at[k] + 3 + Len(pairs[k].value)
       /\ text[at[k]] = Sep /\ text[at[k] + 1] = Word(pairs[k].key) /\ text[at[k] + 2] = Sep
       /\ \A j \in 1 .. Len(pairs[k].value) : text[at[k] + 2 + j] = pairs[k].value[j]
  /\ \A j, k \in 1 .. Len(pairs) + 1 : j < k => at[j] + 3 <= at[k]
  /\ \A i \in 1 .. Len(text) :
       text[i] = Sep => \E k \in 1 .. Len(pairs) : i = at[k] \/ i = at[k] + 2

Laid ==
  /\ text \in Seq(Token) /\ pairs \in Seq(Pair)
  /\ lead \in {<<>>, <<Word("other")>>}
  /\ \E at : LaidAt(at)

-----------------------------------------------------------------------------
(* Numbers. *)

\* A set of numbers that has 0 and, with each number, the next has all.
LEMMA SetInduction ==
  ASSUME NEW S, 0 \in S, \A n \in Nat : n \in S => n + 1 \in S
  PROVE  Nat \subseteq S
<1> DEFINE R == { p \in Nat \X Nat : p[1] < p[2] }
           Missing == Nat \ S
<1>1. IsWellFoundedOn(R, Nat)
  BY NatLessThanWellFounded, Zenon DEF OpToRel
<1>2. \A x, y \in Nat : <<x, y>> \in R <=> x < y
  OBVIOUS
<1>3. Missing \subseteq Nat
  OBVIOUS
<1> HIDE DEF R
<1> SUFFICES ASSUME Missing # {} PROVE FALSE
  OBVIOUS
<1>4. PICK x \in Missing : \A y \in Missing : ~(<<y, x>> \in R)
  <2> HIDE DEF Missing
  <2> QED BY <1>1, <1>3, WFMin, Zenon
<1>5. x \in Nat /\ x \notin S /\ x # 0
  OBVIOUS
<1>6. x - 1 \in Nat /\ x - 1 < x /\ (x - 1) + 1 = x
  BY <1>5
<1>7. x - 1 \notin S
  BY <1>5, <1>6
<1> QED BY <1>2, <1>4, <1>5, <1>6, <1>7

\* A set of numbers that is not empty has a first one.
LEMMA HasLeast ==
  ASSUME NEW S \in SUBSET Nat, S # {}
  PROVE  \E i \in S : \A j \in S : i <= j
<1> DEFINE R == { p \in Nat \X Nat : p[1] < p[2] }
<1>1. IsWellFoundedOn(R, Nat)
  BY NatLessThanWellFounded, Zenon DEF OpToRel
<1>2. \A x, y \in Nat : <<x, y>> \in R <=> x < y
  OBVIOUS
<1> HIDE DEF R
<1>3. PICK i \in S : \A j \in S : ~(<<j, i>> \in R)
  BY <1>1, WFMin, Zenon
<1>4. ASSUME NEW j \in S PROVE i <= j
  <2>1. i \in Nat /\ j \in Nat /\ ~(j < i)
    BY <1>2, <1>3
  <2> QED BY <2>1
<1> QED BY <1>4

\* One more digit does not make a number smaller.
LEMMA DigitAdds ==
  ASSUME NEW x \in Nat, NEW d \in Nat
  PROVE  x * Base + d \in Nat /\ x <= x * Base + d
<1>1. Base - 1 \in Nat
  BY WidthAssumption
<1>2. x * (Base - 1) \in Nat
  BY <1>1
<1>3. x * Base = x * (Base - 1) + x
  BY WidthAssumption
<1> QED BY <1>2, <1>3

\* An int holds what is smaller than IntRange as it is.
LEMMA WrapExact ==
  ASSUME NEW v \in Nat, v < IntRange
  PROVE  Wrap(v) = v
<1>1. IntRange \in Nat
  BY WidthAssumption
<1>2. v + IntRange \in Nat /\ 2 * IntRange \in Nat /\ v + IntRange < 2 * IntRange
  BY <1>1
<1>3. (v + IntRange) % (2 * IntRange) = v + IntRange
  <2>1. ASSUME NEW x \in Nat, NEW m \in Nat, x < m PROVE x % m = x
    BY <2>1
  <2> QED BY <1>2, <2>1
<1> QED BY <1>1, <1>3 DEF Wrap

\* What is too big comes out as another int.
LEMMA WrapInt ==
  ASSUME NEW v \in Int
  PROVE  Wrap(v) \in Int
<1>1. IntRange \in Nat /\ v + IntRange \in Int /\ 2 * IntRange \in Nat /\ 2 * IntRange > 0
  BY WidthAssumption
<1>2. (v + IntRange) % (2 * IntRange) \in Int
  <2>1. ASSUME NEW x \in Int, NEW m \in Nat, m > 0 PROVE x % m \in Int
    BY <2>1
  <2> QED BY <1>1, <2>1
<1> QED BY <1>1, <1>2 DEF Wrap

-----------------------------------------------------------------------------
(* The recursive functions of the loops are there, and what they give. *)

\* What Parsed and Number add up: digit tokens.
Digits(s) == s \in Seq({ Digit(d) : d \in Nat })

\* A digit token has a digit.
LEMMA DigitOf ==
  ASSUME NEW s, Digits(s), NEW n \in 1 .. Len(s)
  PROVE  s[n].digit \in Nat
<1>1. s[n] \in { Digit(d) : d \in Nat }
  <2>1. ASSUME NEW S, s \in Seq(S) PROVE s[n] \in S
    BY <2>1
  <2> QED BY <2>1 DEF Digits
<1>2. PICK d \in Nat : s[n] = Digit(d)
  BY <1>1
<1>3. Digit(d).digit = d
  BY DEF Digit
<1> QED BY <1>2, <1>3

\* A loop of N rounds over an integer, F giving the next one, that starts with 0.
Loop(N, F, v) == v = [n \in 0 .. N |-> IF n = 0 THEN 0 ELSE F[<<v[n - 1], n>>]]

\* There is such a loop, so CHOOSE finds one.
LEMMA LoopExists ==
  ASSUME NEW N \in Nat, NEW F
  PROVE  \E v : Loop(N, F, v)
<1> DEFINE S == { m \in Nat : \E v : Loop(m, F, v) }
<1>1. 0 \in S
  <2>1. Loop(0, F, [n \in 0 .. 0 |-> 0])
    BY DEF Loop
  <2> QED BY <2>1
<1>2. ASSUME NEW m \in Nat, m \in S PROVE m + 1 \in S
  <2>1. PICK v : Loop(m, F, v)
    BY <1>2
  <2> DEFINE w == [n \in 0 .. m + 1 |-> IF n = m + 1 THEN F[<<v[m], m + 1>>] ELSE v[n]]
  <2>2. /\ w = [n \in 0 .. m + 1 |-> w[n]]
        /\ w[m + 1] = F[<<v[m], m + 1>>]
        /\ \A n \in 0 .. m : w[n] = v[n]
    OBVIOUS
  <2> HIDE DEF w
  <2>3. ASSUME NEW n \in 0 .. m + 1
        PROVE  w[n] = IF n = 0 THEN 0 ELSE F[<<w[n - 1], n>>]
    <3>1. CASE n = m + 1
      <4>1. n # 0 /\ n - 1 = m /\ m \in 0 .. m
        BY <3>1
      <4>2. w[n - 1] = v[m]
        BY <2>2, <4>1
      <4> QED BY <2>2, <3>1, <4>1, <4>2
    <3>2. CASE n \in 0 .. m
      <4>1. w[n] = v[n] /\ (n # 0 => w[n - 1] = v[n - 1])
        <5>1. n # 0 => n - 1 \in 0 .. m
          BY <3>2
        <5> QED BY <2>2, <3>2, <5>1
      <4>2. v[n] = IF n = 0 THEN 0 ELSE F[<<v[n - 1], n>>]
        BY <2>1, <3>2 DEF Loop
      <4> QED BY <4>1, <4>2
    <3> QED BY <3>1, <3>2
  <2>4. Loop(m + 1, F, w)
    BY <2>2, <2>3 DEF Loop
  <2> QED BY <2>4
<1> HIDE DEF S
<1>3. N \in S
  BY <1>1, <1>2, SetInduction
<1> QED BY <1>3 DEF S

\* A loop whose steps give integers is a row of integers.
LEMMA LoopStays ==
  ASSUME NEW N \in Nat, NEW F \in [Int \X (1 .. N) -> Int], NEW v, Loop(N, F, v)
  PROVE  v \in [0 .. N -> Int] /\ v[0] = 0 /\ \A n \in 1 .. N : v[n] = F[<<v[n - 1], n>>]
<1> DEFINE S == { m \in Nat : m \in 0 .. N => v[m] \in Int }
<1>1. v[0] = 0 /\ v = [n \in 0 .. N |-> v[n]]
  BY DEF Loop
<1>2. ASSUME NEW n \in 1 .. N PROVE v[n] = F[<<v[n - 1], n>>]
  BY n # 0, n \in 0 .. N DEF Loop
<1>3. 0 \in S
  BY <1>1
<1>4. ASSUME NEW m \in Nat, m \in S PROVE m + 1 \in S
  <2> SUFFICES ASSUME m + 1 \in 0 .. N PROVE v[m + 1] \in Int
    OBVIOUS
  <2>1. m \in 0 .. N /\ m + 1 \in 1 .. N /\ (m + 1) - 1 = m
    OBVIOUS
  <2>2. v[m] \in Int
    BY <1>4, <2>1
  <2>3. v[m + 1] = F[<<v[m], m + 1>>]
    BY <1>2, <2>1
  <2>4. <<v[m], m + 1>> \in Int \X (1 .. N)
    BY <2>1, <2>2
  <2> QED BY <2>3, <2>4
<1> HIDE DEF S
<1>5. \A m \in 0 .. N : m \in S
  BY <1>3, <1>4, SetInduction
<1>6. \A m \in 0 .. N : v[m] \in Int
  BY <1>5 DEF S
<1> QED BY <1>1, <1>2, <1>6

\* Two loops that start alike and go on alike end alike.
LEMMA LoopsAgree ==
  ASSUME NEW N \in Nat, NEW v, NEW w, v[0] = w[0],
         \A n \in 1 .. N : v[n - 1] = w[n - 1] => v[n] = w[n]
  PROVE  v[N] = w[N]
<1> DEFINE S == { m \in Nat : m \in 0 .. N => v[m] = w[m] }
<1>1. 0 \in S
  OBVIOUS
<1>2. ASSUME NEW m \in Nat, m \in S PROVE m + 1 \in S
  <2>1. m + 1 \in 0 .. N => m \in 0 .. N /\ m + 1 \in 1 .. N /\ (m + 1) - 1 = m
    OBVIOUS
  <2> QED BY <1>2, <2>1
<1> HIDE DEF S
<1>3. N \in S
  BY <1>1, <1>2, SetInduction
<1> QED BY <1>3 DEF S

\* What Parsed gives is the end of its loop, which is a row of ints.
LEMMA ParsedLoop ==
  ASSUME NEW s, Digits(s)
  PROVE  \E v \in [0 .. Len(s) -> Int] :
           /\ v[0] = 0 /\ Parsed(s) = v[Len(s)]
           /\ \A n \in 1 .. Len(s) : v[n] = Wrap(v[n - 1] * Base + s[n].digit)
<1> DEFINE F == [p \in Int \X (1 .. Len(s)) |-> Wrap(p[1] * Base + s[p[2]].digit)]
<1>1. Len(s) \in Nat
  BY DEF Digits
<1>2. /\ F \in [Int \X (1 .. Len(s)) -> Int]
      /\ \A x \in Int, n \in 1 .. Len(s) : F[<<x, n>>] = Wrap(x * Base + s[n].digit)
  <2>1. ASSUME NEW x \in Int, NEW n \in 1 .. Len(s) PROVE Wrap(x * Base + s[n].digit) \in Int
    <3>1. s[n].digit \in Nat /\ Base \in Nat
      BY WidthAssumption, DigitOf
    <3>2. x * Base \in Int
      BY <3>1
    <3>3. x * Base + s[n].digit \in Int
      BY <3>1, <3>2
    <3> QED BY <3>3, WrapInt
  <2> QED BY <2>1
<1> HIDE DEF F
<1>3. PICK w : Loop(Len(s), F, w)
  BY <1>1, LoopExists
<1>4. w \in [0 .. Len(s) -> Int] /\ w[0] = 0 /\ \A n \in 1 .. Len(s) : w[n] = F[<<w[n - 1], n>>]
  BY <1>1, <1>2, <1>3, LoopStays
<1>5. ASSUME NEW n \in 1 .. Len(s) PROVE w[n] = Wrap(w[n - 1] * Base + s[n].digit)
  <2>1. n - 1 \in 0 .. Len(s)
    BY <1>1
  <2> QED BY <1>2, <1>4, <2>1
<1>6. w = [n \in 0 .. Len(s) |-> IF n = 0 THEN 0 ELSE Wrap(w[n - 1] * Base + s[n].digit)]
  <2>1. ASSUME NEW n \in 0 .. Len(s) PROVE w[n] = IF n = 0 THEN 0 ELSE Wrap(w[n - 1] * Base + s[n].digit)
    BY <1>1, <1>4, <1>5
  <2> QED BY <1>4, <2>1
<1>7. PICK v : /\ Parsed(s) = v[Len(s)]
               /\ v = [n \in 0 .. Len(s) |-> IF n = 0 THEN 0 ELSE Wrap(v[n - 1] * Base + s[n].digit)]
  BY <1>6 DEF Parsed
<1>8. ASSUME NEW n \in 1 .. Len(s) PROVE v[n - 1] = w[n - 1] => v[n] = w[n]
  <2>1. v[n] = Wrap(v[n - 1] * Base + s[n].digit)
    <3>1. n # 0 /\ n \in 0 .. Len(s)
      BY <1>1
    <3> QED BY <3>1, <1>7, Zenon
  <2> QED BY <1>5, <2>1
<1>9. v[0] = 0
  BY <1>1, <1>7
<1>10. v[Len(s)] = w[Len(s)]
  BY <1>1, <1>4, <1>8, <1>9, LoopsAgree
<1> QED BY <1>4, <1>5, <1>7, <1>10

\* The same of Number, without the width.
LEMMA NumberLoop ==
  ASSUME NEW s, Digits(s)
  PROVE  \E v \in [0 .. Len(s) -> Int] :
           /\ v[0] = 0 /\ Number(s) = v[Len(s)]
           /\ \A n \in 1 .. Len(s) : v[n] = v[n - 1] * Base + s[n].digit
<1> DEFINE F == [p \in Int \X (1 .. Len(s)) |-> p[1] * Base + s[p[2]].digit]
<1>1. Len(s) \in Nat
  BY DEF Digits
<1>2. /\ F \in [Int \X (1 .. Len(s)) -> Int]
      /\ \A x \in Int, n \in 1 .. Len(s) : F[<<x, n>>] = x * Base + s[n].digit
  <2>1. ASSUME NEW x \in Int, NEW n \in 1 .. Len(s) PROVE x * Base + s[n].digit \in Int
    <3>1. s[n].digit \in Nat /\ Base \in Nat
      BY WidthAssumption, DigitOf
    <3>2. x * Base \in Int
      BY <3>1
    <3>3. x * Base + s[n].digit \in Int
      BY <3>1, <3>2
    <3> QED BY <3>3
  <2> QED BY <2>1
<1> HIDE DEF F
<1>3. PICK w : Loop(Len(s), F, w)
  BY <1>1, LoopExists
<1>4. w \in [0 .. Len(s) -> Int] /\ w[0] = 0 /\ \A n \in 1 .. Len(s) : w[n] = F[<<w[n - 1], n>>]
  BY <1>1, <1>2, <1>3, LoopStays
<1>5. ASSUME NEW n \in 1 .. Len(s) PROVE w[n] = w[n - 1] * Base + s[n].digit
  <2>1. n - 1 \in 0 .. Len(s)
    BY <1>1
  <2> QED BY <1>2, <1>4, <2>1
<1>6. w = [n \in 0 .. Len(s) |-> IF n = 0 THEN 0 ELSE w[n - 1] * Base + s[n].digit]
  <2>1. ASSUME NEW n \in 0 .. Len(s) PROVE w[n] = IF n = 0 THEN 0 ELSE w[n - 1] * Base + s[n].digit
    BY <1>1, <1>4, <1>5
  <2> QED BY <1>4, <2>1
<1>7. PICK v : /\ Number(s) = v[Len(s)]
               /\ v = [n \in 0 .. Len(s) |-> IF n = 0 THEN 0 ELSE v[n - 1] * Base + s[n].digit]
  BY <1>6 DEF Number
<1>8. ASSUME NEW n \in 1 .. Len(s) PROVE v[n - 1] = w[n - 1] => v[n] = w[n]
  <2>1. v[n] = v[n - 1] * Base + s[n].digit
    <3>1. n # 0 /\ n \in 0 .. Len(s)
      BY <1>1
    <3> QED BY <3>1, <1>7, Zenon
  <2> QED BY <1>5, <2>1
<1>9. v[0] = 0
  BY <1>1, <1>7
<1>10. v[Len(s)] = w[Len(s)]
  BY <1>1, <1>4, <1>8, <1>9, LoopsAgree
<1> QED BY <1>4, <1>5, <1>7, <1>10

\* The same of Size.
LEMMA SizeLoop ==
  ASSUME text \in Seq(Token)
  PROVE  \E v \in [0 .. Len(text) -> Int] :
           /\ v[0] = 0 /\ Size = v[Len(text)]
           /\ \A n \in 1 .. Len(text) : v[n] = v[n - 1] + Bytes(text[n])
<1> DEFINE F == [p \in Int \X (1 .. Len(text)) |-> p[1] + Bytes(text[p[2]])]
<1>1. Len(text) \in Nat
  BY DEF Digits
<1>2. /\ F \in [Int \X (1 .. Len(text)) -> Int]
      /\ \A x \in Int, n \in 1 .. Len(text) : F[<<x, n>>] = x + Bytes(text[n])
  <2>1. ASSUME NEW x \in Int, NEW n \in 1 .. Len(text) PROVE x + Bytes(text[n]) \in Int
    BY DEF Bytes
  <2> QED BY <2>1
<1> HIDE DEF F
<1>3. PICK w : Loop(Len(text), F, w)
  BY <1>1, LoopExists
<1>4. w \in [0 .. Len(text) -> Int] /\ w[0] = 0 /\ \A n \in 1 .. Len(text) : w[n] = F[<<w[n - 1], n>>]
  BY <1>1, <1>2, <1>3, LoopStays
<1>5. ASSUME NEW n \in 1 .. Len(text) PROVE w[n] = w[n - 1] + Bytes(text[n])
  <2>1. n - 1 \in 0 .. Len(text)
    BY <1>1
  <2> QED BY <1>2, <1>4, <2>1
<1>6. w = [n \in 0 .. Len(text) |-> IF n = 0 THEN 0 ELSE w[n - 1] + Bytes(text[n])]
  <2>1. ASSUME NEW n \in 0 .. Len(text) PROVE w[n] = IF n = 0 THEN 0 ELSE w[n - 1] + Bytes(text[n])
    BY <1>1, <1>4, <1>5
  <2> QED BY <1>4, <2>1
<1>7. PICK v : /\ Size = v[Len(text)]
               /\ v = [n \in 0 .. Len(text) |-> IF n = 0 THEN 0 ELSE v[n - 1] + Bytes(text[n])]
  BY <1>6 DEF Size
<1>8. ASSUME NEW n \in 1 .. Len(text) PROVE v[n - 1] = w[n - 1] => v[n] = w[n]
  <2>1. v[n] = v[n - 1] + Bytes(text[n])
    <3>1. n # 0 /\ n \in 0 .. Len(text)
      BY <1>1
    <3> QED BY <3>1, <1>7, Zenon
  <2> QED BY <1>5, <2>1
<1>9. v[0] = 0
  BY <1>1, <1>7
<1>10. v[Len(text)] = w[Len(text)]
  BY <1>1, <1>4, <1>8, <1>9, LoopsAgree
<1> QED BY <1>4, <1>5, <1>7, <1>10

\* The int of the loop is the number, unless the number does not fit.
LEMMA ParsedExact ==
  ASSUME NEW s, Digits(s)
  PROVE  /\ Parsed(s) \in Int /\ Number(s) \in Nat
         /\ Number(s) < IntRange => Parsed(s) = Number(s)
<1>1. PICK N \in Nat : N = Len(s)
  BY DEF Digits
<1>2. PICK v \in [0 .. N -> Int] :
        /\ v[0] = 0 /\ Parsed(s) = v[N]
        /\ \A n \in 1 .. N : v[n] = Wrap(v[n - 1] * Base + s[n].digit)
  BY <1>1, ParsedLoop
<1>3. PICK w \in [0 .. N -> Int] :
        /\ w[0] = 0 /\ Number(s) = w[N]
        /\ \A n \in 1 .. N : w[n] = w[n - 1] * Base + s[n].digit
  BY <1>1, NumberLoop
<1> DEFINE S == { m \in Nat : m \in 0 .. N =>
                          w[m] \in Nat /\ (w[m] < IntRange => v[m] = w[m]) }
<1>4. 0 \in S
  BY <1>2, <1>3
<1>5. ASSUME NEW m \in Nat, m \in S PROVE m + 1 \in S
  <2> SUFFICES ASSUME m + 1 \in 0 .. N
               PROVE  w[m + 1] \in Nat /\ (w[m + 1] < IntRange => v[m + 1] = w[m + 1])
    OBVIOUS
  <2>1. m \in 0 .. N /\ m + 1 \in 1 .. N /\ (m + 1) - 1 = m
    OBVIOUS
  <2>2. w[m] \in Nat /\ (w[m] < IntRange => v[m] = w[m])
    BY <1>5, <2>1
  <2>3. PICK d \in Nat : d = s[m + 1].digit
    BY <1>1, <2>1, DigitOf
  <2>4. w[m + 1] = w[m] * Base + d /\ v[m + 1] = Wrap(v[m] * Base + d)
    BY <1>2, <1>3, <2>1, <2>3, Zenon
  <2>5. w[m] * Base + d \in Nat /\ w[m] <= w[m] * Base + d
    BY <2>2, DigitAdds
  <2>6. ASSUME w[m + 1] < IntRange PROVE v[m + 1] = w[m + 1]
    <3>1. w[m] < IntRange
      <4>1. \A x, y, z \in Int : x <= y /\ y < z => x < z
        OBVIOUS
      <4>2. IntRange \in Int /\ w[m] \in Int /\ w[m + 1] \in Int
        BY <2>1, WidthAssumption
      <4> QED BY <2>4, <2>5, <2>6, <4>1, <4>2, Zenon
    <3>2. v[m] = w[m]
      BY <2>2, <3>1
    <3>3. Wrap(w[m + 1]) = w[m + 1]
      BY <2>4, <2>5, <2>6, WrapExact, Zenon
    <3> QED BY <2>4, <3>2, <3>3, Zenon
  <2> QED BY <2>4, <2>5, <2>6, Zenon
<1> HIDE DEF S
<1>6. N \in S
  BY <1>4, <1>5, SetInduction
<1>7. N \in 0 .. N /\ v[N] \in Int
  OBVIOUS
<1> QED BY <1>2, <1>3, <1>6, <1>7 DEF S

-----------------------------------------------------------------------------
(* The texts. *)

\* Backslashes, words and digits are different tokens.
LEMMA TokensDiffer ==
  /\ ~IsDigit(Sep)
  /\ \A n : Word(n) # Sep /\ ~IsDigit(Word(n))
  /\ \A d : Digit(d) # Sep /\ IsDigit(Digit(d))
  /\ \A m, n : Word(m) = Word(n) => m = n
  /\ \A n, d : Word(n) # Digit(d)
<1>1. /\ DOMAIN Sep = {"sep"}
      /\ \A n : DOMAIN Word(n) = {"word"}
      /\ \A d : DOMAIN Digit(d) = {"digit"}
  BY DEF Sep, Word, Digit
<1>2. \A n : Word(n).word = n
  BY DEF Word
<1>3. "sep" # "word" /\ "sep" # "digit" /\ "word" # "digit"
  OBVIOUS
<1> QED BY <1>1, <1>2, <1>3 DEF IsDigit

\* No value has a backslash in it, and one that begins with a word is that word.
LEMMA ValueShape ==
  ASSUME NEW value \in Values
  PROVE  /\ value \in Seq(Token)
         /\ \A j \in 1 .. Len(value) : value[j] # Sep
         /\ \A n \in Names : Len(value) > 0 /\ value[1] = Word(n) => value = <<Word(n)>>
<1>1. CASE value \in Numbers
  <2>1. PICK n \in 0 .. MaxDigits : value \in [1 .. n -> { Digit(d) : d \in 0 .. Base - 1 }]
    BY <1>1 DEF Numbers
  <2>2. { Digit(d) : d \in 0 .. Base - 1 } \subseteq { Digit(d) : d \in Nat }
    OBVIOUS
  <2>3. n \in Nat /\ value \in [1 .. n -> { Digit(d) : d \in Nat }]
    BY <2>1, <2>2
  <2>4. value \in Seq({ Digit(d) : d \in Nat }) /\ Len(value) = n
    BY <2>3
  <2>5. \A j \in 1 .. Len(value) : \E d \in Nat : value[j] = Digit(d)
    BY <2>3, <2>4
  <2>6. value \in Seq(Token)
    BY <2>4, <2>5 DEF Token
  <2> QED BY <2>5, <2>6, TokensDiffer
<1>2. CASE \E n \in Names : value = <<Word(n)>>
  <2>1. PICK n \in Names : value = <<Word(n)>>
    BY <1>2
  <2>2. Word(n) \in Token
    BY DEF Token
  <2>3. Len(value) = 1 /\ value[1] = Word(n) /\ value \in Seq(Token)
    BY <2>1, <2>2
  <2> QED BY <2>1, <2>3, TokensDiffer
<1>3. CASE value = <<Digit(1), Word("other")>>
  <2>1. Digit(1) \in Token /\ Word("other") \in Token
    BY DEF Token, Names
  <2>2. Len(value) = 2 /\ value[1] = Digit(1) /\ value[2] = Word("other") /\ value \in Seq(Token)
    BY <1>3, <2>1
  <2> QED BY <2>2, TokensDiffer
<1> QED BY <1>1, <1>2, <1>3 DEF Values

\* What a sequence has after three more elements and another sequence.
LEMMA Joined ==
  ASSUME NEW S, NEW a \in Seq(S), NEW x \in S, NEW y \in S, NEW z \in S, NEW b \in Seq(S),
         NEW c, c = a \o <<x, y, z>> \o b
  PROVE  /\ c \in Seq(S) /\ Len(c) = Len(a) + 3 + Len(b)
         /\ \A i \in 1 .. Len(a) : c[i] = a[i]
         /\ c[Len(a) + 1] = x /\ c[Len(a) + 2] = y /\ c[Len(a) + 3] = z
         /\ \A j \in 1 .. Len(b) : c[Len(a) + 3 + j] = b[j]
<1> DEFINE m == <<x, y, z>>
           l == a \o m
<1>1. m \in Seq(S) /\ Len(m) = 3 /\ m[1] = x /\ m[2] = y /\ m[3] = z
  OBVIOUS
<1>2. c = l \o b
  OBVIOUS
<1>3. ASSUME NEW p \in Seq(S), NEW q \in Seq(S)
      PROVE  /\ p \o q \in Seq(S) /\ Len(p \o q) = Len(p) + Len(q)
             /\ \A i \in 1 .. Len(p) : (p \o q)[i] = p[i]
             /\ \A j \in 1 .. Len(q) : (p \o q)[Len(p) + j] = q[j]
  OBVIOUS
<1> HIDE DEF m
<1>4. /\ l \in Seq(S) /\ Len(l) = Len(a) + 3
      /\ \A i \in 1 .. Len(a) : l[i] = a[i]
      /\ \A j \in 1 .. 3 : l[Len(a) + j] = m[j]
  <2>1. /\ l \in Seq(S) /\ Len(l) = Len(a) + Len(m)
        /\ \A i \in 1 .. Len(a) : l[i] = a[i]
        /\ \A j \in 1 .. Len(m) : l[Len(a) + j] = m[j]
    BY <1>1, <1>3, Zenon
  <2> QED BY <1>1, <2>1, Zenon
<1> HIDE DEF l
<1>5. /\ c \in Seq(S) /\ Len(c) = Len(l) + Len(b)
      /\ \A i \in 1 .. Len(l) : c[i] = l[i]
      /\ \A j \in 1 .. Len(b) : c[Len(l) + j] = b[j]
  <2>1. l \in Seq(S)
    BY <1>4
  <2>2. /\ l \o b \in Seq(S) /\ Len(l \o b) = Len(l) + Len(b)
        /\ \A i \in 1 .. Len(l) : (l \o b)[i] = l[i]
        /\ \A j \in 1 .. Len(b) : (l \o b)[Len(l) + j] = b[j]
    BY <1>3, <2>1, Zenon
  <2> QED BY <1>2, <2>2, Zenon
<1>6. l[Len(a) + 1] = x /\ l[Len(a) + 2] = y /\ l[Len(a) + 3] = z
  BY <1>1, <1>4
<1> QED BY <1>4, <1>5, <1>6

\* A pair that was written has a key and a value that it can have.
LEMMA PairShape ==
  ASSUME pairs \in Seq(Pair), NEW k \in 1 .. Len(pairs)
  PROVE  /\ pairs[k].key \in Names /\ pairs[k].value \in Values
         /\ pairs[k].value \in Seq(Token) /\ Len(pairs[k].value) \in Nat
<1>1. pairs[k] \in Pair
  <2>1. ASSUME NEW S, pairs \in Seq(S) PROVE pairs[k] \in S
    BY <2>1
  <2> QED BY <2>1
<1>2. pairs[k].key \in Names /\ pairs[k].value \in Values
  BY <1>1 DEF Pair
<1>3. pairs[k].value \in Seq(Token)
  BY <1>2, ValueShape
<1> QED BY <1>2, <1>3

\* The lead alone.
LEMMA LaidInit == Start => Laid
<1> SUFFICES ASSUME Start PROVE Laid
  OBVIOUS
<1>1. /\ pairs = <<>> /\ Len(pairs) = 0 /\ pairs \in Seq(Pair)
      /\ lead \in {<<>>, <<Word("other")>>} /\ text = lead
  BY DEF Start
<1>2. Word("other") \in Token /\ Word("other") # Sep
  BY TokensDiffer DEF Token, Names
<1>3. text \in Seq(Token) /\ Len(lead) \in Nat /\ \A i \in 1 .. Len(text) : text[i] # Sep
  <2>1. CASE lead = <<>>
    BY <1>1, <2>1
  <2>2. CASE lead = <<Word("other")>>
    <3>1. Len(text) = 1 /\ text[1] = Word("other") /\ text \in Seq(Token)
      BY <1>1, <1>2, <2>2
    <3> QED BY <1>1, <1>2, <3>1
  <2> QED BY <1>1, <2>1, <2>2
<1> DEFINE at == [k \in 1 .. 1 |-> Len(lead) + 1]
<1>4. at \in [1 .. 1 -> Nat \ {0}] /\ at[1] = Len(lead) + 1
  BY <1>3
<1> HIDE DEF at
<1>5. LaidAt(at)
  BY <1>1, <1>3, <1>4 DEF LaidAt
<1> QED BY <1>1, <1>3, <1>5 DEF Laid

\* One more pair lies behind the others, and brings two backslashes.
LEMMA LaidNext == Laid /\ Grow => Laid'
<1> SUFFICES ASSUME Laid, Grow PROVE Laid'
  OBVIOUS
<1>1. PICK key \in Names, value \in Values :
        /\ pairs' = Append(pairs, [key |-> key, value |-> value])
        /\ text' = text \o <<Sep, Word(key), Sep>> \o value
        /\ lead' = lead
  BY DEF Grow
<1>2. PICK at : LaidAt(at)
  BY DEF Laid
<1>3. PICK N \in Nat, T \in Nat, V \in Nat : N = Len(pairs) /\ T = Len(text) /\ V = Len(value)
  <2>1. Len(pairs) \in Nat /\ Len(text) \in Nat
    BY DEF Laid
  <2>2. Len(value) \in Nat
    <3>1. value \in Seq(Token)
      BY ValueShape
    <3> QED BY <3>1
  <2> QED BY <2>1, <2>2
<1>4. /\ pairs' \in Seq(Pair) /\ Len(pairs') = N + 1
      /\ \A k \in 1 .. N : pairs'[k] = pairs[k]
      /\ pairs'[N + 1].key = key /\ pairs'[N + 1].value = value
  <2> DEFINE p == [key |-> key, value |-> value]
  <2>0. p \in Pair /\ p.key = key /\ p.value = value
    BY DEF Pair
  <2> HIDE DEF p
  <2>1. PICK q \in Pair : q = p /\ q.key = key /\ q.value = value
    BY <2>0
  <2>2. pairs \in Seq(Pair) /\ pairs' = Append(pairs, q)
    BY <1>1, <2>1 DEF Laid, p
  <2>3. /\ pairs' \in Seq(Pair) /\ Len(pairs') = N + 1
        /\ \A k \in 1 .. N : pairs'[k] = pairs[k]
        /\ pairs'[N + 1] = q
    BY <1>3, <2>2
  <2> QED BY <2>1, <2>3
<1>5. /\ text' \in Seq(Token) /\ Len(text') = T + 3 + V
      /\ \A i \in 1 .. T : text'[i] = text[i]
      /\ text'[T + 1] = Sep /\ text'[T + 2] = Word(key) /\ text'[T + 3] = Sep
      /\ \A j \in 1 .. V : text'[T + 3 + j] = value[j]
  <2>1. Sep \in Token /\ Word(key) \in Token
    BY DEF Token
  <2>2. text \in Seq(Token) /\ value \in Seq(Token)
    BY ValueShape DEF Laid
  <2> QED BY <1>1, <1>3, <2>1, <2>2, Joined
<1>6. \A j \in 1 .. V : value[j] # Sep
  BY <1>3, ValueShape
<1>7. /\ at \in [1 .. N + 1 -> Nat \ {0}] /\ at[1] = Len(lead) + 1 /\ at[N + 1] = T + 1
      /\ \A k \in 1 .. N :
           /\ at[k + 1] = at[k] + 3 + Len(pairs[k].value)
           /\ text[at[k]] = Sep /\ text[at[k] + 1] = Word(pairs[k].key) /\ text[at[k] + 2] = Sep
           /\ \A j \in 1 .. Len(pairs[k].value) : text[at[k] + 2 + j] = pairs[k].value[j]
      /\ \A j, k \in 1 .. N + 1 : j < k => at[j] + 3 <= at[k]
      /\ \A i \in 1 .. T : text[i] = Sep => \E k \in 1 .. N : i = at[k] \/ i = at[k] + 2
  BY <1>2, <1>3 DEF LaidAt
<1> DEFINE bt == [k \in 1 .. N + 2 |-> IF k = N + 2 THEN T + 4 + V ELSE at[k]]
<1>8. /\ bt \in [1 .. N + 2 -> Nat \ {0}]
      /\ \A k \in 1 .. N + 1 : bt[k] = at[k]
      /\ bt[N + 2] = T + 4 + V
  <2>1. \A k \in 1 .. N + 2 : k # N + 2 => k \in 1 .. N + 1
    OBVIOUS
  <2> QED BY <1>7, <2>1
<1> HIDE DEF bt
<1>9. ASSUME NEW k \in 1 .. N
      PROVE  /\ bt[k + 1] = bt[k] + 3 + Len(pairs'[k].value)
             /\ text'[bt[k]] = Sep /\ text'[bt[k] + 1] = Word(pairs'[k].key)
             /\ text'[bt[k] + 2] = Sep
             /\ \A j \in 1 .. Len(pairs'[k].value) : text'[bt[k] + 2 + j] = pairs'[k].value[j]
  <2>1. k \in 1 .. N + 1 /\ k + 1 \in 1 .. N + 1 /\ N + 1 \in 1 .. N + 1
    OBVIOUS
  <2>2. bt[k] = at[k] /\ bt[k + 1] = at[k + 1] /\ pairs'[k] = pairs[k]
    BY <1>4, <1>8, <2>1
  <2>3. PICK a \in Nat \ {0}, l \in Nat : a = at[k] /\ l = Len(pairs[k].value)
    <3>1. at[k] \in Nat \ {0}
      BY <1>7, <2>1
    <3>2. Len(pairs[k].value) \in Nat
      BY PairShape, <1>3 DEF Laid
    <3> QED BY <3>1, <3>2
  <2>4. at[k + 1] = a + 3 + l /\ at[k + 1] <= T + 1
    <3>1. k + 1 = N + 1 \/ k + 1 < N + 1
      OBVIOUS
    <3>2. at[k + 1] \in Nat
      BY <1>7, <2>1
    <3> QED BY <1>7, <2>1, <2>3, <3>1, <3>2
  <2>5. /\ a \in 1 .. T /\ a + 1 \in 1 .. T /\ a + 2 \in 1 .. T
        /\ \A j \in 1 .. l : a + 2 + j \in 1 .. T
    BY <2>4
  <2>6. /\ text'[a] = text[a] /\ text'[a + 1] = text[a + 1] /\ text'[a + 2] = text[a + 2]
        /\ \A j \in 1 .. l : text'[a + 2 + j] = text[a + 2 + j]
    BY <1>5, <2>5
  <2>7. /\ text[a] = Sep /\ text[a + 1] = Word(pairs[k].key) /\ text[a + 2] = Sep
        /\ \A j \in 1 .. l : text[a + 2 + j] = pairs[k].value[j]
    BY <1>7, <2>3
  <2>8. bt[k] = a /\ bt[k + 1] = a + 3 + l
    BY <2>2, <2>3, <2>4
  <2> QED BY <2>2, <2>3, <2>6, <2>7, <2>8, Zenon
<1>10. /\ bt[N + 2] = bt[N + 1] + 3 + Len(pairs'[N + 1].value)
       /\ text'[bt[N + 1]] = Sep /\ text'[bt[N + 1] + 1] = Word(pairs'[N + 1].key)
       /\ text'[bt[N + 1] + 2] = Sep
       /\ \A j \in 1 .. Len(pairs'[N + 1].value) :
            text'[bt[N + 1] + 2 + j] = pairs'[N + 1].value[j]
  <2>1. bt[N + 1] = T + 1
    BY <1>7, <1>8
  <2>2. (T + 1) + 1 = T + 2 /\ (T + 1) + 2 = T + 3 /\ \A j \in 1 .. V : (T + 1) + 2 + j = T + 3 + j
    OBVIOUS
  <2> QED BY <1>3, <1>4, <1>5, <1>8, <2>1, <2>2
<1>11. ASSUME NEW j \in 1 .. N + 2, NEW k \in 1 .. N + 2, j < k
       PROVE  bt[j] + 3 <= bt[k]
  <2>1. CASE k \in 1 .. N + 1
    BY <1>7, <1>8, <1>11, <2>1
  <2>2. CASE k = N + 2
    <3>1. j \in 1 .. N + 1 /\ bt[j] = at[j] /\ at[j] \in Nat
      BY <1>7, <1>8, <1>11, <2>2
    <3>2. at[j] <= T + 1
      <4>1. j = N + 1 \/ j < N + 1
        BY <3>1
      <4> QED BY <1>7, <3>1, <4>1
    <3> QED BY <1>8, <2>2, <3>1, <3>2
  <2> QED BY <2>1, <2>2
<1>12. ASSUME NEW i \in 1 .. T + 3 + V, text'[i] = Sep
       PROVE  \E k \in 1 .. N + 1 : i = bt[k] \/ i = bt[k] + 2
  <2>1. CASE i \in 1 .. T
    <3>1. PICK k \in 1 .. N : i = at[k] \/ i = at[k] + 2
      BY <1>5, <1>7, <1>12, <2>1
    <3>2. k \in 1 .. N + 1
      OBVIOUS
    <3> QED BY <1>8, <3>1, <3>2
  <2>2. CASE i = T + 1 \/ i = T + 3
    <3>1. N + 1 \in 1 .. N + 1 /\ bt[N + 1] = T + 1
      BY <1>7, <1>8
    <3> QED BY <2>2, <3>1
  <2>3. i # T + 2
    BY <1>5, <1>12, TokensDiffer
  <2>4. CASE i > T + 3
    <3>1. i - (T + 3) \in 1 .. V /\ T + 3 + (i - (T + 3)) = i
      BY <2>4
    <3>2. PICK j \in 1 .. V : i = T + 3 + j
      BY <3>1
    <3>3. text'[i] = value[j]
      BY <1>5, <3>2
    <3> QED BY <1>6, <1>12, <3>3
  <2> QED BY <2>1, <2>2, <2>3, <2>4
<1>13. LaidAt(bt)'
  <2>1. bt \in [1 .. Len(pairs') + 1 -> Nat \ {0}] /\ bt[1] = Len(lead') + 1
    <3>1. (N + 1) + 1 = N + 2 /\ 1 \in 1 .. N + 1
      OBVIOUS
    <3> QED BY <1>1, <1>4, <1>7, <1>8, <3>1
  <2>2. bt[Len(pairs') + 1] = Len(text') + 1
    BY <1>4, <1>5, <1>8
  <2>3. \A k \in 1 .. Len(pairs') :
          /\ bt[k + 1] = bt[k] + 3 + Len(pairs'[k].value)
          /\ text'[bt[k]] = Sep /\ text'[bt[k] + 1] = Word(pairs'[k].key)
          /\ text'[bt[k] + 2] = Sep
          /\ \A j \in 1 .. Len(pairs'[k].value) : text'[bt[k] + 2 + j] = pairs'[k].value[j]
    <3>1. \A k \in 1 .. N + 1 : k \in 1 .. N \/ k = N + 1
      OBVIOUS
    <3>2. (N + 1) + 1 = N + 2
      OBVIOUS
    <3> QED BY <1>4, <1>9, <1>10, <3>1, <3>2, Zenon
  <2>4. \A j, k \in 1 .. Len(pairs') + 1 : j < k => bt[j] + 3 <= bt[k]
    BY <1>4, <1>11
  <2>5. \A i \in 1 .. Len(text') :
          text'[i] = Sep => \E k \in 1 .. Len(pairs') : i = bt[k] \/ i = bt[k] + 2
    BY <1>4, <1>5, <1>12
  <2> QED BY <2>1, <2>2, <2>3, <2>4, <2>5 DEF LaidAt
<1>14. lead' \in {<<>>, <<Word("other")>>}
  BY <1>1 DEF Laid
<1> QED BY <1>4, <1>5, <1>13, <1>14 DEF Laid

\* Laid is an inductive invariant, so each text of any length is laid like that.
THEOREM TextLaid == TextSpec => []Laid
<1>1. Laid /\ [Grow]_textVars => Laid'
  <2>1. ASSUME Laid, UNCHANGED textVars PROVE Laid'
    <3>1. text' = text /\ pairs' = pairs /\ lead' = lead
      BY <2>1 DEF textVars
    <3>2. PICK at : LaidAt(at)
      BY <2>1 DEF Laid
    <3>3. LaidAt(at)'
      BY <3>1, <3>2 DEF LaidAt
    <3> QED BY <2>1, <3>1, <3>3 DEF Laid
  <2> QED BY <2>1, LaidNext
<1> QED BY <1>1, LaidInit, PTL DEF TextSpec

-----------------------------------------------------------------------------
(* What the search finds, and the digits behind it. *)

\* Tokens start with some number of digits, and with no more.
LEMMA LeadingHasMost ==
  ASSUME NEW t \in Seq(Token)
  PROVE  \E n \in Leading(t) : \A m \in Leading(t) : m <= n
<1>1. PICK N \in Nat : N = Len(t)
  OBVIOUS
<1> DEFINE S == { d \in 0 .. N : N - d \in Leading(t) }
<1>2. 0 \in Leading(t) /\ Leading(t) \subseteq 0 .. N
  <2>1. 1 .. 0 = {}
    OBVIOUS
  <2> QED BY <1>1, <2>1 DEF Leading
<1>3. N \in S /\ S \in SUBSET Nat
  BY <1>2
<1>4. PICK d \in S : \A e \in S : d <= e
  <2> HIDE DEF S
  <2> QED BY <1>3, HasLeast
<1>5. ASSUME NEW m \in Leading(t) PROVE m <= N - d
  <2>1. m \in 0 .. N /\ N - m \in 0 .. N /\ N - (N - m) = m
    BY <1>2
  <2>2. N - m \in S
    BY <2>1
  <2>3. d <= N - m /\ d \in 0 .. N
    BY <1>4, <2>2
  <2> QED BY <2>1, <2>3
<1> QED BY <1>4, <1>5

\* DigitsOf gives that many tokens, and they are digits.
LEMMA DigitsOfTyped ==
  ASSUME NEW t \in Seq(Token)
  PROVE  /\ Digits(DigitsOf(t))
         /\ Len(t) = 0 => Len(DigitsOf(t)) = 0
<1>1. PICK n : /\ n = CHOOSE k \in Leading(t) : \A m \in Leading(t) : m <= k
               /\ n \in Leading(t)
  BY LeadingHasMost
<1>2. n \in 0 .. Len(t) /\ \A j \in 1 .. n : IsDigit(t[j])
  BY <1>1 DEF Leading
<1>3. DigitsOf(t) = SubSeq(t, 1, n)
  BY <1>1 DEF DigitsOf
<1>4. \A j \in 1 .. n : t[j] \in { Digit(d) : d \in Nat }
  <2> SUFFICES ASSUME NEW j \in 1 .. n PROVE t[j] \in { Digit(d) : d \in Nat }
    OBVIOUS
  <2>1. t[j] \in Token
    BY <1>2
  <2>2. IsDigit(t[j])
    BY <1>2
  <2> QED BY <2>1, <2>2, TokensDiffer DEF Token
<1>5. /\ Len(SubSeq(t, 1, n)) = n
      /\ SubSeq(t, 1, n) = [j \in 1 .. n |-> t[j]]
  BY <1>2
<1>6. SubSeq(t, 1, n) \in Seq({ Digit(d) : d \in Nat })
  <2>1. ASSUME NEW S, \A j \in 1 .. n : t[j] \in S PROVE [j \in 1 .. n |-> t[j]] \in Seq(S)
    BY <1>2, <2>1
  <2> QED BY <1>4, <1>5, <2>1
<1> QED BY <1>2, <1>3, <1>5, <1>6 DEF Digits

\* Tokens that go on with no digit start with the digits of their beginning.
LEMMA SameDigits ==
  ASSUME NEW s \in Seq(Token), NEW t \in Seq(Token), Len(t) <= Len(s),
         \A j \in 1 .. Len(t) : s[j] = t[j],
         Len(t) < Len(s) => ~IsDigit(s[Len(t) + 1])
  PROVE  DigitsOf(s) = DigitsOf(t)
<1>1. PICK M \in Nat, N \in Nat : M = Len(s) /\ N = Len(t)
  OBVIOUS
<1>2. ASSUME NEW n \in Leading(s) PROVE n \in Leading(t)
  <2>1. n \in 0 .. M /\ \A j \in 1 .. n : IsDigit(s[j])
    BY <1>1, <1>2 DEF Leading
  <2>2. n <= N
    <3> SUFFICES ASSUME N < n PROVE FALSE
      BY <2>1
    <3>1. N + 1 \in 1 .. n /\ N < M
      BY <2>1
    <3> QED BY <1>1, <2>1, <3>1
  <2>3. n \in 0 .. N /\ \A j \in 1 .. n : j \in 1 .. N
    BY <2>1, <2>2
  <2> QED BY <1>1, <2>1, <2>3 DEF Leading
<1>3. ASSUME NEW n \in Leading(t) PROVE n \in Leading(s)
  <2>1. n \in 0 .. N /\ \A j \in 1 .. n : IsDigit(t[j])
    BY <1>1, <1>3 DEF Leading
  <2>2. n \in 0 .. M /\ \A j \in 1 .. n : j \in 1 .. N
    BY <1>1, <2>1
  <2> QED BY <1>1, <2>1, <2>2 DEF Leading
<1>4. Leading(s) = Leading(t)
  BY <1>2, <1>3
<1>5. PICK n : /\ n = CHOOSE k \in Leading(t) : \A m \in Leading(t) : m <= k
               /\ n \in Leading(t)
  BY LeadingHasMost
<1>6. n \in 0 .. N
  BY <1>1, <1>5 DEF Leading
<1>7. /\ SubSeq(s, 1, n) = [j \in 1 .. n |-> s[j]]
      /\ SubSeq(t, 1, n) = [j \in 1 .. n |-> t[j]]
      /\ \A j \in 1 .. n : s[j] = t[j]
  BY <1>1, <1>6
<1>8. SubSeq(s, 1, n) = SubSeq(t, 1, n)
  BY <1>7
<1> QED BY <1>4, <1>5, <1>8 DEF DigitsOf

\* The matches of the search are the fields with that key, but for one at the very
\* end of the text that has no value.
LEMMA MatchesAreFields ==
  ASSUME Laid, Plain, NEW at, LaidAt(at), NEW key \in {"heartbeat", "hostport"}
  PROVE  \A i : i \in Places(key) <=>
                  \E k \in Fields(key) : i = at[k] /\ at[k] + 3 <= Len(text)
<1>1. PICK N \in Nat, T \in Nat : N = Len(pairs) /\ T = Len(text)
  <2>1. Len(pairs) \in Nat /\ Len(text) \in Nat
    BY DEF Laid
  <2> QED BY <2>1
<1>2. /\ at \in [1 .. N + 1 -> Nat \ {0}] /\ at[N + 1] = T + 1
      /\ \A k \in 1 .. N :
           /\ at[k + 1] = at[k] + 3 + Len(pairs[k].value)
           /\ text[at[k]] = Sep /\ text[at[k] + 1] = Word(pairs[k].key) /\ text[at[k] + 2] = Sep
           /\ \A j \in 1 .. Len(pairs[k].value) : text[at[k] + 2 + j] = pairs[k].value[j]
      /\ \A i \in 1 .. T : text[i] = Sep => \E k \in 1 .. N : i = at[k] \/ i = at[k] + 2
  BY <1>1 DEF LaidAt
<1>3. DOMAIN pairs = 1 .. N
  BY <1>1 DEF Laid
<1>4. ASSUME NEW i \in Places(key)
      PROVE  \E k \in Fields(key) : i = at[k] /\ at[k] + 3 <= Len(text)
  <2>1. i \in 1 .. T - 3 /\ text[i] = Sep /\ text[i + 1] = Word(key)
    BY <1>1 DEF Places
  <2>2. PICK k \in 1 .. N : i = at[k] \/ i = at[k] + 2
    <3>1. i \in 1 .. T
      BY <2>1
    <3> QED BY <1>2, <2>1, <3>1, Zenon
  <2>3. CASE i = at[k]
    <3>1. Word(pairs[k].key) = Word(key)
      BY <1>2, <2>1, <2>3
    <3>2. k \in Fields(key)
      BY <1>3, <3>1, TokensDiffer DEF Fields
    <3> QED BY <1>1, <2>1, <2>3, <3>2
  <2>4. CASE i = at[k] + 2
    <3>1. PICK a \in Nat, V \in Nat : a = at[k] /\ V = Len(pairs[k].value)
      <4>1. at[k] \in Nat
        BY <1>2
      <4>2. Len(pairs[k].value) \in Nat
        BY <1>1, PairShape DEF Laid
      <4> QED BY <4>1, <4>2
    <3>2. CASE V > 0
      <4>1. text[a + 2 + 1] = pairs[k].value[1] /\ a + 2 + 1 = i + 1
        <5>1. 1 \in 1 .. V /\ i = a + 2
          BY <2>4, <3>1, <3>2
        <5>2. a + 2 + 1 = i + 1
          BY <5>1
        <5> QED BY <1>2, <3>1, <5>1, <5>2
      <4>2. pairs[k].value[1] = Word(key)
        BY <2>1, <4>1
      <4>3. pairs[k].value = <<Word(key)>>
        <5>1. key \in Names /\ pairs[k].value \in Values
          BY <1>1, PairShape DEF Names, Laid
        <5> QED BY <3>1, <3>2, <4>2, <5>1, ValueShape
      <4> QED BY <1>3, <4>3 DEF Plain
    <3>3. CASE V = 0
      <4>1. at[k + 1] = i + 1
        <5>1. at[k + 1] = a + 3 + V
          BY <1>2, <3>1, Zenon
        <5>2. i = a + 2
          BY <2>4, <3>1
        <5> QED BY <3>3, <5>1, <5>2
      <4>2. CASE k = N
        BY <1>2, <2>1, <4>1, <4>2
      <4>3. CASE k # N
        <5>1. k + 1 \in 1 .. N
          BY <4>3
        <5>2. text[i + 1] = Sep
          BY <1>2, <4>1, <5>1
        <5> QED BY <2>1, <5>2, TokensDiffer
      <4> QED BY <4>2, <4>3
    <3> QED BY <3>1, <3>2, <3>3
  <2> QED BY <2>2, <2>3, <2>4
<1>5. ASSUME NEW k \in Fields(key), at[k] + 3 <= Len(text)
      PROVE  at[k] \in Places(key)
  <2>1. k \in 1 .. N /\ pairs[k].key = key
    BY <1>3 DEF Fields
  <2>2. at[k] \in Nat \ {0}
    BY <1>2, <2>1
  <2>3. at[k] \in 1 .. T - 3
    BY <1>1, <1>5, <2>2
  <2> QED BY <1>1, <1>2, <2>1, <2>3 DEF Places
<1> QED BY <1>4, <1>5

\* The digits from a place of the text on, if a value lies there and ends there.
LEMMA RestOfText ==
  ASSUME NEW s \in Seq(Token), NEW t \in Seq(Token), NEW a \in Nat, a + 3 <= Len(s),
         \A j \in 1 .. Len(t) : s[a + 2 + j] = t[j],
         \/ Len(s) = a + 2 + Len(t)
         \/ a + 3 + Len(t) < Len(s) /\ ~IsDigit(s[a + 3 + Len(t)])
  PROVE  DigitsOf(SubSeq(s, a + 3, Len(s))) = DigitsOf(t)
<1>1. PICK M \in Nat, N \in Nat : M = Len(s) /\ N = Len(t)
  OBVIOUS
<1> DEFINE r == SubSeq(s, a + 3, M)
<1>2. r \in Seq(Token) /\ Len(r) = M - (a + 2) /\ \A j \in 1 .. M - (a + 2) : r[j] = s[a + 2 + j]
  <2>1. a + 3 \in 1 .. M /\ M - (a + 3) + 1 = M - (a + 2)
    BY <1>1
  <2>2. r = [j \in 1 .. M - (a + 2) |-> s[a + 3 + j - 1]]
    BY <1>1, <2>1
  <2>3. \A j \in 1 .. M - (a + 2) : a + 3 + j - 1 = a + 2 + j /\ a + 2 + j \in 1 .. M
    BY <2>1
  <2>4. \A j \in 1 .. M : s[j] \in Token
    BY <1>1
  <2>5. M - (a + 2) \in Nat
    BY <2>1
  <2>6. r \in [1 .. M - (a + 2) -> Token]
    BY <2>2, <2>3, <2>4
  <2>7. r \in Seq(Token) /\ Len(r) = M - (a + 2)
    <3> HIDE DEF r
    <3> QED BY <2>5, <2>6
  <2> QED BY <2>2, <2>3, <2>7
<1> HIDE DEF r
<1>3. N <= M - (a + 2)
  BY <1>1
<1>4. \A j \in 1 .. N : r[j] = t[j]
  BY <1>1, <1>2, <1>3
<1>5. N < M - (a + 2) => ~IsDigit(r[N + 1])
  <2> SUFFICES ASSUME N < M - (a + 2) PROVE ~IsDigit(r[N + 1])
    OBVIOUS
  <2>1. N + 1 \in 1 .. M - (a + 2) /\ a + 2 + (N + 1) = a + 3 + N
    OBVIOUS
  <2>2. r[N + 1] = s[a + 3 + N]
    BY <1>2, <2>1
  <2>3. ~IsDigit(s[a + 3 + N])
    BY <1>1
  <2> QED BY <2>2, <2>3
<1>6. DigitsOf(r) = DigitsOf(t)
  BY <1>1, <1>2, <1>3, <1>4, <1>5, SameDigits
<1> QED BY <1>1, <1>6 DEF r

\* Behind a field's start there are the digits of its value.
LEMMA DigitsBehind ==
  ASSUME Laid, NEW at, LaidAt(at), NEW k \in 1 .. Len(pairs), at[k] + 3 <= Len(text)
  PROVE  DigitsOf(SubSeq(text, at[k] + 3, Len(text))) = DigitsOf(pairs[k].value)
<1>1. PICK N \in Nat, T \in Nat, V \in Nat :
        N = Len(pairs) /\ T = Len(text) /\ V = Len(pairs[k].value)
  <2>1. Len(pairs) \in Nat /\ Len(text) \in Nat /\ Len(pairs[k].value) \in Nat
    BY PairShape DEF Laid
  <2> QED BY <2>1
<1>2. PICK value \in Seq(Token) : value = pairs[k].value
  BY PairShape DEF Laid
<1>3. PICK a \in Nat \ {0} : a = at[k]
  <2>1. k \in 1 .. N + 1 /\ at \in [1 .. N + 1 -> Nat \ {0}]
    BY <1>1 DEF LaidAt
  <2> QED BY <2>1
<1>4. at[k + 1] = a + 3 + V
  BY <1>1, <1>3 DEF LaidAt
<1>5. /\ text \in Seq(Token) /\ a + 3 <= Len(text)
      /\ \A j \in 1 .. Len(value) : text[a + 2 + j] = value[j]
  BY <1>1, <1>2, <1>3 DEF Laid, LaidAt
<1>6. CASE k = N
  <2>1. at[k + 1] = T + 1
    BY <1>1, <1>6 DEF LaidAt
  <2>2. T = a + 2 + V
    BY <1>4, <2>1
  <2>3. Len(text) = a + 2 + Len(value)
    BY <1>1, <1>2, <2>2
  <2>4. DigitsOf(SubSeq(text, a + 3, Len(text))) = DigitsOf(value)
    BY <1>5, <2>3, RestOfText
  <2> QED BY <1>2, <1>3, <2>4
<1>7. CASE k # N
  <2>1. k + 1 \in 1 .. N /\ N + 1 \in 1 .. N + 1 /\ k + 1 \in 1 .. N + 1 /\ k + 1 < N + 1
    BY <1>1, <1>7
  <2>2. text[a + 3 + V] = Sep
    BY <1>1, <1>4, <2>1 DEF LaidAt
  <2>3. at[k + 1] + 3 <= T + 1
    BY <1>1, <2>1 DEF LaidAt
  <2>4. a + 3 + V < T
    BY <1>4, <2>3
  <2>5. ~IsDigit(text[a + 3 + V])
    BY <2>2, TokensDiffer
  <2>6. a + 3 + Len(value) < Len(text) /\ ~IsDigit(text[a + 3 + Len(value)])
    BY <1>1, <1>2, <2>4, <2>5
  <2>7. DigitsOf(SubSeq(text, a + 3, Len(text))) = DigitsOf(value)
    BY <1>5, <2>6, RestOfText
  <2> QED BY <1>2, <1>3, <2>7
<1> QED BY <1>6, <1>7

-----------------------------------------------------------------------------
(* The properties. *)

\* The tests of gs_field on its int are those of a port.
LEMMA PortTest ==
  ASSUME NEW v \in Int
  PROVE  IsPort(v) <=> v \in 1 .. MaxPort
BY WidthAssumption DEF IsPort

\* The first match of a key is the first field, unless that has no value and ends
\* the text.
LEMMA FirstMatch ==
  ASSUME Laid, Plain, NEW at, LaidAt(at), NEW key \in {"heartbeat", "hostport"}, Fields(key) # {}
  PROVE  /\ First(key) \in 1 .. Len(pairs)
         /\ \/ /\ at[First(key)] + 3 <= Len(text)
               /\ Places(key) # {} /\ FirstOf(Places(key)) = at[First(key)]
            \/ /\ Places(key) = {}
               /\ Len(pairs[First(key)].value) = 0
<1>1. PICK N \in Nat, T \in Nat : N = Len(pairs) /\ T = Len(text)
  <2>1. Len(pairs) \in Nat /\ Len(text) \in Nat
    BY DEF Laid
  <2> QED BY <2>1
<1>2. Fields(key) \subseteq 1 .. N /\ Fields(key) \in SUBSET Nat
  BY <1>1 DEF Laid, Fields
<1>3. PICK f \in Fields(key) : f = First(key) /\ \A j \in Fields(key) : f <= j
  <2>1. \E k \in Fields(key) : \A j \in Fields(key) : k <= j
    BY <1>2, HasLeast
  <2> QED BY <2>1 DEF First
<1>4. f \in 1 .. N
  BY <1>2, <1>3
<1>5. /\ at \in [1 .. N + 1 -> Nat \ {0}] /\ at[N + 1] = T + 1
      /\ at[f + 1] = at[f] + 3 + Len(pairs[f].value)
      /\ \A j, k \in 1 .. N + 1 : j < k => at[j] + 3 <= at[k]
  BY <1>1, <1>4 DEF LaidAt
<1>6. CASE at[f] + 3 <= T
  <2>1. at[f] \in Places(key)
    BY <1>1, <1>3, <1>6, MatchesAreFields
  <2>2. \A i \in Places(key) : at[f] <= i
    <3> SUFFICES ASSUME NEW i \in Places(key) PROVE at[f] <= i
      OBVIOUS
    <3>1. PICK k \in Fields(key) : i = at[k]
      BY MatchesAreFields
    <3>2. f <= k /\ k \in 1 .. N + 1 /\ f \in 1 .. N + 1
      BY <1>2, <1>3, <3>1
    <3>3. PICK x \in Nat, y \in Nat : x = at[f] /\ y = at[k]
      BY <1>5, <3>2
    <3>4. f = k \/ f < k
      BY <3>2
    <3> QED BY <1>5, <3>1, <3>2, <3>3, <3>4
  <2>3. Places(key) \in SUBSET Nat
    <3>1. Places(key) \subseteq 1 .. T - 3
      BY <1>1 DEF Places
    <3> QED BY <1>1, <3>1
  <2>4. FirstOf(Places(key)) \in Places(key) /\ \A j \in Places(key) : FirstOf(Places(key)) <= j
    BY <2>1, <2>2 DEF FirstOf
  <2>5. PICK x \in Nat, y \in Nat : x = FirstOf(Places(key)) /\ y = at[f]
    BY <2>1, <2>3, <2>4
  <2>6. x <= y /\ y <= x
    BY <2>1, <2>2, <2>4, <2>5
  <2>7. FirstOf(Places(key)) = at[f]
    BY <2>5, <2>6
  <2> QED BY <1>1, <1>3, <1>4, <1>6, <2>1, <2>7
<1>7. CASE ~(at[f] + 3 <= T)
  <2>1. PICK a \in Nat, V \in Nat : a = at[f] /\ V = Len(pairs[f].value)
    <3>1. Len(pairs[f].value) \in Nat
      BY <1>1, <1>4, PairShape DEF Laid
    <3>2. at[f] \in Nat
      BY <1>4, <1>5
    <3> QED BY <3>1, <3>2
  <2>2. f = N
    <3> SUFFICES ASSUME f < N PROVE FALSE
      BY <1>4
    <3>1. f + 1 \in 1 .. N + 1 /\ N + 1 \in 1 .. N + 1 /\ f + 1 < N + 1
      BY <1>4
    <3>2. at[f + 1] + 3 <= T + 1
      BY <1>5, <3>1
    <3>3. at[f + 1] = a + 3 + V
      BY <1>5, <2>1
    <3> QED BY <1>7, <2>1, <3>2, <3>3
  <2>3. V = 0
    <3>1. T + 1 = a + 3 + V
      BY <1>5, <2>1, <2>2
    <3> QED BY <1>7, <2>1, <3>1
  <2>4. \A k \in Fields(key) : k = f
    BY <1>2, <1>3, <2>2
  <2>5. Places(key) = {}
    BY <1>1, <1>7, <2>4, MatchesAreFields
  <2> QED BY <1>1, <1>3, <1>4, <2>1, <2>3, <2>5
<1> QED BY <1>6, <1>7

\* What gs_field returns is 0 or a port, whatever the digits.
LEMMA FieldIsPort ==
  ASSUME Laid, NEW key
  PROVE  gs_field(key) \in 0 .. MaxPort
<1>1. CASE Places(key) = {}
  BY <1>1, WidthAssumption DEF gs_field
<1>2. CASE Places(key) # {}
  <2>1. PICK T \in Nat : T = Len(text)
    BY DEF Laid
  <2>2. Places(key) \subseteq 1 .. T - 3
    BY <2>1 DEF Places
  <2>3. PICK f \in Places(key) : f = FirstOf(Places(key))
    <3>1. Places(key) \in SUBSET Nat
      BY <2>1, <2>2
    <3>2. \E i \in Places(key) : \A j \in Places(key) : i <= j
      BY <1>2, <3>1, HasLeast
    <3> QED BY <3>2 DEF FirstOf
  <2>4. f + 3 \in 1 .. T
    BY <2>1, <2>2, <2>3
  <2>5. SubSeq(text, f + 3, T) \in Seq(Token)
    <3>1. ASSUME NEW S, NEW s \in Seq(S), NEW m \in 1 .. Len(s)
          PROVE  SubSeq(s, m, Len(s)) \in Seq(S)
      OBVIOUS
    <3> QED BY <2>1, <2>4, <3>1 DEF Laid
  <2>6. PICK v \in Int : v = Parsed(DigitsOf(SubSeq(text, f + 3, T)))
    BY <2>5, DigitsOfTyped, ParsedExact
  <2>7. gs_field(key) = IF IsPort(v) THEN v ELSE 0
    BY <1>2, <2>1, <2>3, <2>6 DEF gs_field
  <2> QED BY <2>6, <2>7, PortTest, WidthAssumption
<1> QED BY <1>1, <1>2

\* gs_field returns the port in the first field with the key.
LEMMA FieldIsFirst ==
  ASSUME Laid, Plain, NEW key \in {"heartbeat", "hostport"}
  PROVE  gs_field(key) = Port(key)
<1>1. PICK at : LaidAt(at)
  BY DEF Laid
<1>2. CASE Fields(key) = {}
  <2>1. Places(key) = {}
    BY <1>1, <1>2, MatchesAreFields
  <2> QED BY <1>2, <2>1 DEF gs_field, Port
<1>3. CASE Fields(key) # {}
  <2>1. PICK f \in 1 .. Len(pairs) : f = First(key)
    BY <1>1, <1>3, FirstMatch
  <2>2. PICK value \in Seq(Token) : value = pairs[f].value
    BY PairShape DEF Laid
  <2>3. Digits(DigitsOf(value))
    BY DigitsOfTyped
  <2>4. PICK w \in Nat : w = Number(DigitsOf(value))
    BY <2>3, ParsedExact
  <2>5. w < IntRange
    <3>1. f \in DOMAIN pairs
      BY DEF Laid
    <3> QED BY <2>2, <2>4, <3>1 DEF Plain
  <2>6. Parsed(DigitsOf(value)) = w
    BY <2>3, <2>4, <2>5, ParsedExact
  <2>7. Port(key) = IF w \in 1 .. MaxPort THEN w ELSE 0
    BY <1>3, <2>1, <2>2, <2>4 DEF Port
  <2>8. CASE /\ at[f] + 3 <= Len(text)
             /\ Places(key) # {} /\ FirstOf(Places(key)) = at[f]
    <3>1. DigitsOf(SubSeq(text, at[f] + 3, Len(text))) = DigitsOf(value)
      BY <1>1, <2>2, <2>8, DigitsBehind
    <3>2. gs_field(key) = IF IsPort(w) THEN w ELSE 0
      BY <2>6, <2>8, <3>1 DEF gs_field
    <3> QED BY <2>7, <3>2, PortTest
  <2>9. CASE Places(key) = {} /\ Len(value) = 0
    <3>1. Len(DigitsOf(value)) = 0
      BY <2>9, DigitsOfTyped
    <3>2. w = 0
      BY <2>3, <2>4, <3>1, NumberLoop
    <3>3. gs_field(key) = 0
      BY <2>9 DEF gs_field
    <3> QED BY <2>7, <3>2, <3>3
  <2> QED BY <1>1, <1>3, <2>1, <2>2, <2>8, <2>9, FirstMatch
<1> QED BY <1>2, <1>3

\* The cheap test of hook_sendto lets through the texts that start with a pair and
\* are neither too short nor too long.
LEMMA LookedAt ==
  ASSUME Laid
  PROVE  Looked <=> lead = <<>> /\ Size \in MinLen + 1 .. MaxLen - 1
<1>1. PICK N \in Nat, T \in Nat : N = Len(pairs) /\ T = Len(text)
  <2>1. Len(pairs) \in Nat /\ Len(text) \in Nat
    BY DEF Laid
  <2> QED BY <2>1
<1>2. PICK at : LaidAt(at)
  BY DEF Laid
<1>3. Size \in Int /\ (T = 0 => Size = 0)
  <2>1. PICK v \in [0 .. T -> Int] : v[0] = 0 /\ Size = v[T]
    BY <1>1, SizeLoop DEF Laid
  <2> QED BY <2>1
<1>4. Size > MinLen /\ Size < MaxLen <=> Size \in MinLen + 1 .. MaxLen - 1
  BY <1>3, WidthAssumption
<1>5. Size > MinLen => T > 0
  BY <1>3, WidthAssumption
<1>6. at \in [1 .. N + 1 -> Nat \ {0}] /\ at[1] = Len(lead) + 1 /\ at[N + 1] = T + 1
  BY <1>1, <1>2 DEF LaidAt
<1>7. ASSUME lead = <<>>, T > 0 PROVE text[1] = Sep
  <2>1. at[1] = 1
    BY <1>6, <1>7
  <2>2. 1 \in 1 .. N
    BY <1>6, <1>7, <2>1
  <2> QED BY <1>1, <1>2, <2>1, <2>2 DEF LaidAt
<1>8. ASSUME lead = <<Word("other")>>, T > 0 PROVE text[1] # Sep
  <2> SUFFICES ASSUME text[1] = Sep PROVE FALSE
    OBVIOUS
  <2>1. 1 \in 1 .. T
    BY <1>8
  <2>2. PICK k \in 1 .. N : 1 = at[k] \/ 1 = at[k] + 2
    BY <1>1, <1>2, <2>1 DEF LaidAt
  <2>3. at[1] = 2 /\ k \in 1 .. N + 1 /\ 1 \in 1 .. N + 1
    BY <1>6, <1>8
  <2>4. PICK a \in Nat \ {0} : a = at[k]
    BY <1>6, <2>3
  <2>5. a >= 2
    <3>1. k = 1 \/ 1 < k
      OBVIOUS
    <3>2. 1 < k => at[1] + 3 <= at[k]
      BY <1>1, <1>2, <2>3 DEF LaidAt
    <3> QED BY <2>3, <2>4, <3>1, <3>2
  <2> QED BY <2>2, <2>4, <2>5
<1>9. lead = <<>> \/ lead = <<Word("other")>>
  BY DEF Laid
<1>10. <<Word("other")>> # <<>>
  OBVIOUS
<1> QED BY <1>4, <1>5, <1>7, <1>8, <1>9, <1>10 DEF Looked

\* gs_field finds the first field with the key, and the number in it, in every plain
\* text, and gives 0 or a port for any text.
THEOREM FieldFound == TextSpec => []FindsField
<1>1. Laid => FindsField
  BY FieldIsPort, FieldIsFirst DEF FindsField
<1> QED BY <1>1, TextLaid, PTL

\* Of a plain text, hook_sendto asks for the port of a heartbeat, else for the
\* game's, and for nothing if it is not a GameSpy text, too short or too long.
THEOREM RightPortAsked == TextSpec => []AsksForRightPort
<1>1. Laid => AsksForRightPort
  <2> SUFFICES ASSUME Laid, Plain
               PROVE  hook_sendto =
                        IF lead # <<>> \/ Size \notin MinLen + 1 .. MaxLen - 1 THEN {}
                        ELSE IF Port("heartbeat") # 0 THEN {Request("g_wantQuery", Port("heartbeat"))}
                        ELSE IF Port("hostport") # 0 THEN {Request("g_wantGame", Port("hostport"))}
                        ELSE {}
    BY DEF AsksForRightPort
  <2>1. gs_field("heartbeat") = Port("heartbeat") /\ gs_field("hostport") = Port("hostport")
    BY FieldIsFirst
  <2>2. Looked <=> ~(lead # <<>> \/ Size \notin MinLen + 1 .. MaxLen - 1)
    BY LookedAt
  <2> QED BY <2>1, <2>2, Zenon DEF hook_sendto
<1> QED BY <1>1, TextLaid, PTL
=============================================================================
