\* A faultless device, one answer of which comes after the timeout.
CONSTANTS
  Commands <- OnlyDumpLine
  Batteries <- JustTwo
  MaxRetries = 3
  Faults = {}
  MaxInFlight = 2
SPECIFICATION Spec
INVARIANT DumpComplete
