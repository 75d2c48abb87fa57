SPECIFICATION FairSpec
CONSTANTS
  Services <- MCServices
  Users <- MCUsers
  Methods <- MCMethods
  Sources <- MCSources
  Endpoints <- MCEndpoints
  Hosts <- MCHosts
  Subdomain <- MCSubdomain
  Requests <- MCRequests
  Deadline = 2
  Patience = 1
  Provider <- MCProvider
  Found <- MCFound
  Roots <- MCRoots
  Schemes <- MCSchemes
  Metadata <- MCMetadata
  Grants <- MCGrants
  As1 = As1
  As2 = As2
  None = None
  Running = Running
  Panicked = Panicked
INVARIANTS
  TypeOK
  Budget
  SecureOnly
  Reduction
  ProbeWins
  GrantsBound
PROPERTIES
  OwnRoot
  OauthKept
  MechanismsCannotStall
  AnsweredReturns
CHECK_DEADLOCK FALSE
