SPECIFICATION Spec
CONSTANTS
  Urls <- MCUrls
  MaxHops = 2
  Domain = "domain"
  Hosts <- MCHosts
  Paths <- MCPaths
INVARIANTS
  FailsNotFoundOnly
CHECK_DEADLOCK FALSE
