SPECIFICATION Spec
CONSTANTS
  Callers = {c1}
  Runners = {t1}
  Targets = {h}
  HotPatched = {h}
  N = 2
  Calls <- DisableCalls
  All = All
  Fails = {}
  NoOne = NoOne
  MaxSuspends = 2
INVARIANTS
  MovedOutOfPatch
CHECK_DEADLOCK FALSE
