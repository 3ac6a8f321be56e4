SPECIFICATION Spec
CONSTANTS
  Threads = {t1}
  Sockets = {s1}
  Ports = {p1}
  Handles = {h1, h2}
  MAX_MAPPINGS = 2
  Fails = TRUE
  Endings = {"exit", "unload"}
  NoPort = NoPort
  NoSock = NoSock
  Worker = Worker
  Detacher = Detacher
  NoOne = NoOne
SYMMETRY Symmetry
INVARIANTS
  LockDiscipline
  IInv
  LeasesAccounted
  NoDuplicateMapping
  DisabledMeansUnmapped
  DiscoveryUnmapped
  UnloadReleases
PROPERTIES
  TeardownSilent
  ImplementsPortLeases
CHECK_DEADLOCK FALSE
