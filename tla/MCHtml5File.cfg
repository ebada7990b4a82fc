\* Two descriptors of one file; requests may fail or be refused.
CONSTANTS
  NoCall = NoCall
  Descs = {d1, d2}
  MaxOpen = 2
  MaxSize = 2
  Failures = TRUE
  Refusals = TRUE
SPECIFICATION FairSpec
INVARIANTS TypeOK FlagsOfTheCall CachedSizeExact
PROPERTIES OpensAtItsPlace SuccessIsReal CallEnds
CHECK_DEADLOCK FALSE
