\* Two threads of the game, and whatever may fail.
CONSTANTS
  t1 = t1
  t2 = t2
  Threads = {t1, t2}
  NoOne = NoOne
  Fails = {"directory", "load", "export", "library", "signature", "hook"}
SPECIFICATION FairSpec
INVARIANTS IInv ClassAfterInit InstalledOnce LogOnce RefusedForCause
PROPERTIES DetourReady RequestAnswered
