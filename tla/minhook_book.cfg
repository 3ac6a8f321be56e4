SPECIFICATION MemSpec
CONSTANTS
  Callers = {c1, c2}
  Runners = {}
  Targets = {f, g, h}
  HotPatched = {}
  N = 1
  Calls <- AllCalls
  All = All
  Fails = {"alloc", "suspend", "resume", "EnableHook", "DisableHook", "ApplyQueued", "RemoveHook", "Uninitialize"}
  NoOne = NoOne
  MaxSuspends = 2
  Blocks = {b1, b2, b3}
  LastSlot = 2
SYMMETRY MemorySymmetry
INVARIANTS
  TypeOK
  BookMatchesCode
  FrozenByOwner
  MemoryConsistent
PROPERTIES
  ImplementsHookTable
CHECK_DEADLOCK FALSE
