SPECIFICATION FairSpec
CONSTANTS
  Lookups = 3
  MaxCalls = 2
  BodyLens <- MCBodyLens
INVARIANTS
  OwnAnswer
  AllOrNothing
PROPERTIES
  Ends
CHECK_DEADLOCK FALSE
