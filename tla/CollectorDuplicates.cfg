SPECIFICATION Spec
CONSTANTS
  parent = parent
  shard1 = shard1
  shard2 = shard2
  other = other
  Services <- MCServices
  Users <- MCUsers
  Methods <- MCMethods
  Sources <- MCSources
  Endpoints <- MCEndpoints
  Hosts <- MCHosts
  Subdomain <- MCSubdomain
  Offered <- MCOffered
  Requested <- MCRequested
  MaxFed = 5
INVARIANTS
  Deduplicated
