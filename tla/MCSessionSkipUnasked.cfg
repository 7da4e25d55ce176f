\* max_retries=1, as the configuration example suggests for fast networks.
CONSTANTS
  Commands <- OnlyDumpLine
  Batteries <- JustTwo
  MaxRetries = 1
  Faults = {"nodata"}
  MaxInFlight = 1
SPECIFICATION Spec
PROPERTY SkipMeansAsked
