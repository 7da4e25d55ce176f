\* A watched dump in which the last DCB is skipped.
CONSTANTS
  Commands <- OnlyWatchDumpLine
  Batteries <- JustTwo
  MaxRetries = 2
  Faults = {"nodata"}
  MaxInFlight = 1
SPECIFICATION Spec
INVARIANT RequestInRange
