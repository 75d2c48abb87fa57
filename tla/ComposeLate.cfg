SPECIFICATION Spec
CONSTANTS
  Services <- MCServices
  Users <- MCUsers
  Methods <- MCMethods
  Sources <- MCSources
  Endpoints <- MCEndpoints
  Hosts <- MCHosts
  Subdomain <- MCSubdomain
  Requests <- LateRequests
  Deadline = 1
  Patience = 1
  Provider <- MCProvider
  Found <- LateFound
  Roots <- MCRoots
  Schemes <- MCSchemes
  Metadata <- MCMetadata
  Grants <- MCGrants
  As1 = As1
  As2 = As2
  None = None
  Running = Running
  Panicked = Panicked
INVARIANTS
  WithinDeadline
CHECK_DEADLOCK FALSE
