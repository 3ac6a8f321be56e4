------------------------------ MODULE Datagram ------------------------------
(***************************************************************************)
(* What upnp_ports.cpp reads from the datagrams that the game sends: the   *)
(* parser gs_field and the tests of hook_sendto.                           *)
(*                                                                         *)
(* A GameSpy text is "\key\value\key\value...".  Here it is a sequence of  *)
(* tokens: backslashes, digits and words; no word contains another token.  *)
(* The text of a behaviour grows pair by pair; the pairs are kept beside   *)
(* it, for the properties, and the code never sees them.                   *)
(***************************************************************************)
EXTENDS Integers, Sequences

CONSTANTS
  Base,          \* of the numbers: 10
  MaxPort,       \* 65535
  IntRange,      \* an int is in -IntRange .. IntRange - 1: 2^31
  MinLen, MaxLen,\* bytes: 12 and 1400
  MaxPairs, MaxDigits  \* bounds of the texts that are looked at

ASSUME WidthAssumption ==
  /\ Base \in Nat \ {0, 1} /\ MaxPort \in Nat \ {0} /\ IntRange \in Nat
  /\ MaxPort < IntRange /\ MinLen \in Nat /\ MaxLen \in Nat
  /\ MaxPairs \in Nat /\ MaxDigits \in Nat

VARIABLES
  text,          \* buf, len bytes of it
  lead,          \* what comes before the first pair: nothing, or a word
  pairs          \* what the text was composed of

Names    == {"heartbeat", "hostport", "other"}
Sep      == [sep |-> 1]
Word(n)  == [word |-> n]
Digit(d) == [digit |-> d]

IsDigit(token) == "digit" \in DOMAIN token
Bytes(token)   == IF token = Word("heartbeat") THEN 9 ELSE IF token = Word("hostport") THEN 8 ELSE 1

Numbers == UNION { [1 .. n -> { Digit(d) : d \in 0 .. Base - 1 }] : n \in 0 .. MaxDigits }
Values  == Numbers \union { <<Word(n)>> : n \in Names } \union { <<Digit(1), Word("other")>> }

-----------------------------------------------------------------------------
(* The code. *)

\* int arithmetic, two's complement.
Wrap(v) == ((v + IntRange) % (2 * IntRange)) - IntRange

Leading(tokens) == { n \in 0 .. Len(tokens) : \A j \in 1 .. n : IsDigit(tokens[j]) }

\* The digits that tokens start with.
DigitsOf(tokens) ==
  SubSeq(tokens, 1, CHOOSE n \in Leading(tokens) : \A m \in Leading(tokens) : m <= n)

\* The loop of gs_field: digit after digit is added, in an int.
Parsed(digits) ==
  LET v[n \in 0 .. Len(digits)] ==
        IF n = 0 THEN 0 ELSE Wrap(v[n - 1] * Base + digits[n].digit)
  IN  v[Len(digits)]

ChecksHigh(v) == v <= MaxPort                      \* WRONG: of both tests, one
IsPort(v)     == v > 0 /\ v <= MaxPort

\* Where "\key\" is found, with something behind it.
Places(key) ==
  { i \in 1 .. Len(text) - 3 :
      text[i] = Sep /\ text[i + 1] = Word(key) /\ text[i + 2] = Sep }

LastOf(places)  == CHOOSE i \in places : \A j \in places : j <= i   \* WRONG: looks on
FirstOf(places) == CHOOSE i \in places : \A j \in places : i <= j

\* 0 also stands for no port.  Only the first place is looked at.
gs_field(key) ==
  LET places == Places(key) IN
    IF places = {} THEN 0
    ELSE LET v == Parsed(DigitsOf(SubSeq(text, FirstOf(places) + 3, Len(text)))) IN
           IF IsPort(v) THEN v ELSE 0

Size ==
  LET n[i \in 0 .. Len(text)] == IF i = 0 THEN 0 ELSE n[i - 1] + Bytes(text[i])
  IN  n[Len(text)]

AllLooked == TRUE                                  \* WRONG: no cheap test first
Looked ==
  /\ Size > MinLen /\ Size < MaxLen
  /\ text[1] = Sep

Request(slot, port) == [slot |-> slot, port |-> port]

\* What hook_sendto passes to want_port.
hook_sendto ==
  LET query == gs_field("heartbeat")
      game  == gs_field("hostport") IN
    IF ~Looked THEN {}
    ELSE IF query # 0 THEN {Request("g_wantQuery", query)}
    ELSE IF game # 0 THEN {Request("g_wantGame", game)}
    ELSE {}

-----------------------------------------------------------------------------
Start == lead \in {<<>>, <<Word("other")>>} /\ text = lead /\ pairs = <<>>

Grow ==
  /\ Len(pairs) < MaxPairs
  /\ \E key \in Names, value \in Values :
       /\ pairs' = Append(pairs, [key |-> key, value |-> value])
       /\ text' = text \o <<Sep, Word(key), Sep>> \o value
  /\ UNCHANGED lead

textVars == <<text, lead, pairs>>

TextSpec == Start /\ [][Grow]_textVars

-----------------------------------------------------------------------------
(* Properties. *)

\* The number that digits stand for, whatever its size.
Number(digits) ==
  LET v[n \in 0 .. Len(digits)] ==
        IF n = 0 THEN 0 ELSE v[n - 1] * Base + digits[n].digit
  IN  v[Len(digits)]

\* The fields with that key, and the first of them.
Fields(key) == { k \in DOMAIN pairs : pairs[k].key = key }
First(key)  == CHOOSE k \in Fields(key) : \A j \in Fields(key) : k <= j

\* The port in the first field with that key, or 0.
Port(key) ==
  IF Fields(key) = {} THEN 0
  ELSE LET v == Number(DigitsOf(pairs[First(key)].value)) IN
         IF v \in 1 .. MaxPort THEN v ELSE 0

\* No value, a server's name perhaps, is the name of one of the two fields; and
\* no number is too big for an int.
Plain ==
  \A i \in DOMAIN pairs :
    /\ pairs[i].value \notin { <<Word("heartbeat")>>, <<Word("hostport")>> }
    /\ Number(DigitsOf(pairs[i].value)) < IntRange

\* gs_field knows of bytes only, and yet finds the field, not a part of another
\* one, and the number in it, for any plain text.  A number too big for an int may
\* be read as another, but never as one that is no port.
FindsField ==
  \A key \in {"heartbeat", "hostport"} :
    /\ Plain => gs_field(key) = Port(key)
    /\ gs_field(key) \in 0 .. MaxPort

\* Of the plain texts, a heartbeat asks for its port, a status reply for the game's;
\* what is not GameSpy's, or too short or too long for it, asks for nothing.
AsksForRightPort ==
  Plain =>
    hook_sendto =
      IF lead # <<>> \/ Size \notin MinLen + 1 .. MaxLen - 1 THEN {}
      ELSE IF Port("heartbeat") # 0 THEN {Request("g_wantQuery", Port("heartbeat"))}
      ELSE IF Port("hostport") # 0 THEN {Request("g_wantGame", Port("hostport"))}
      ELSE {}
=============================================================================
