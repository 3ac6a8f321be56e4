SPECIFICATION FairSpec
CONSTANTS
  Addrs = {a1, a2}
  GUARD = 2
  MaxConns = 3
  MaxLocals = 3
INVARIANTS
  TypeOK
  RefsBalanced
  OneWayIn
  IInv
PROPERTIES
  CallReturns
CHECK_DEADLOCK FALSE
