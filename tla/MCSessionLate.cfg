\* Answers may come after the timeout, beside that to the next request.
CONSTANTS
  Commands <- AllLines
  Batteries <- NoDcbAndTwo
  MaxRetries = 2
  Faults = {"denied", "error", "nodata", "bare", "lost", "toplevel", "close"}
  MaxInFlight = 2
SPECIFICATION FairSpec
INVARIANTS
  TypeOK
  DumpInRange
  OnceRequestInRange
  CommandSentOnce
PROPERTIES
  WalksDcbsInOrder
  TerminatesAfterTrouble
  InterruptEnds
  WatchPolls
