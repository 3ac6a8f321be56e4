SPECIFICATION LonelySpec
CONSTANTS
  Threads = {t1}
  Sockets = {s1}
  Ports = {p1}
  Handles = {h1, h2}
  MAX_MAPPINGS = 1
  Fails = FALSE
  Endings = {"exit"}
  NoPort = NoPort
  NoSock = NoSock
  Worker = Worker
  Detacher = Detacher
  NoOne = NoOne
INVARIANTS
  TypeOK
  NoNullHelper
PROPERTIES
  HookReturns
  ExitCompletes
  HandOffServed
  WantServed
CHECK_DEADLOCK FALSE
