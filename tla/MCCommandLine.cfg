\* Up to three options of every kind, in every order.
CONSTANTS
  Options <- AllOptions
  MaxArgs = 3
  TagValue <- Tags
  ConfigFiles <- AllFiles
  Moments <- AllMoments
  DcbIndices <- FirstAndLast
  NaN = NaN
  Uint32Range = 1000
SPECIFICATION Spec
INVARIANTS
  TypeOK
  LimitsRespected
  QueriesOnlyRead
  SessionInputs
  SaysWhatWasAsked
  OneModuleAsked
  LogsInCompletely
  PeriodAsked
CHECK_DEADLOCK FALSE
