\* One control command; the answer to the login is lost.
CONSTANTS
  Commands <- OnlyChargeLine
  Batteries <- JustTwo
  MaxRetries = 3
  Faults = {"lost"}
  MaxInFlight = 1
SPECIFICATION Spec
INVARIANT CommandWasSent
