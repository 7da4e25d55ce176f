\* Answers come in time or not at all: the runs in which the dump is complete.
CONSTANTS
  Commands <- AllLines
  Batteries <- NoDcbAndThree
  MaxRetries = 2
  Faults = {"denied", "error", "nodata", "bare", "lost", "close"}
  MaxInFlight = 1
SPECIFICATION FairSpec
INVARIANTS
  DumpComplete
  NoWrongNotFound
PROPERTIES
  LaterSkipMeansAsked
