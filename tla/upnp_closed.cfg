SPECIFICATION FairSpec
CONSTANTS
  Threads = {t1}
  Sockets = {s1}
  Ports = {p1}
  Handles = {h1}
  MAX_MAPPINGS = 1
  Fails = FALSE
  Endings = {}
  NoPort = NoPort
  NoSock = NoSock
  Worker = Worker
  Detacher = Detacher
  NoOne = NoOne
PROPERTIES
  ReleasedAfterClose
CHECK_DEADLOCK FALSE
