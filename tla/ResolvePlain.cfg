SPECIFICATION Spec
CONSTANTS
  Urls <- MCUrls
  MaxHops = 2
  Domain = "domain"
  Hosts <- MCHosts
  Paths <- MCPaths
INVARIANTS
  NoPlainTransport
CHECK_DEADLOCK FALSE
