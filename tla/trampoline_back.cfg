\* Instructions of 1, 2, 3 and 15 bytes.
CONSTANTS
  Lens = {1, 2, 3, 15}
  pTrampoline = 1000
  Far = 500
SPECIFICATION Spec
INVARIANT Faithful
CHECK_DEADLOCK FALSE
