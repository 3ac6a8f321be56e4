\* Instructions of 1, 2, 3 and 15 bytes; texts of two pairs with numbers of up to
\* five digits, where a port has less than three and an int four.
CONSTANTS
  Lens = {1, 2, 3, 15}
  pTrampoline = 1000
  Far = 500
  Base = 2
  MaxPort = 5
  IntRange = 8
  MinLen = 12
  MaxLen = 26
  MaxPairs = 2
  MaxDigits = 5
SPECIFICATION AlgSpec
INVARIANTS FaithfulForwards PatchesOwnBytes SlotSuffices FindsField AsksForRightPort
\* A copy that is done, and the longest text, are the end.
CHECK_DEADLOCK FALSE
