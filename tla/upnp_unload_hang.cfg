SPECIFICATION FairSpec
CONSTANTS
  Threads = {t1}
  Sockets = {s1}
  Ports = {p1}
  Handles = {h1}
  MAX_MAPPINGS = 1
  Fails = FALSE
  Endings = {"unload"}
  NoPort = NoPort
  NoSock = NoSock
  Worker = Worker
  Detacher = Detacher
  NoOne = NoOne
PROPERTIES
  UnloadCompletes
CHECK_DEADLOCK FALSE
