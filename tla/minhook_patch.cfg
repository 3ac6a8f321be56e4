SPECIFICATION FairSpec
CONSTANTS
  Callers = {c1}
  Runners = {t1}
  Targets = {f, h}
  HotPatched = {h}
  N = 3
  Calls <- SwitchCalls
  All = All
  Fails = {"alloc", "list", "suspend", "resume", "context", "EnableHook"}
  NoOne = NoOne
  MaxSuspends = 2
INVARIANTS
  IInv
  RunsWhole
PROPERTIES
  ThreadsThaw
CHECK_DEADLOCK FALSE
