SPECIFICATION FairSpec
CONSTANTS
  Urls <- MCUrls
  MaxHops = 2
  Domain = "domain"
  Hosts <- MCHosts
  Paths <- MCPaths
INVARIANTS
  TypeOK
  RootAnswers
  SecureOnly
  EveryCandidate
  BoundedRequests
PROPERTIES
  Ends
CHECK_DEADLOCK FALSE
