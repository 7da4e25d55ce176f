\* The device answers every request for a DCB with an error.
CONSTANTS
  Commands <- OnlyDumpLine
  Batteries <- JustTwo
  MaxRetries = 3
  Faults = {"error"}
  MaxInFlight = 1
SPECIFICATION FairSpec
PROPERTY Terminates
