SPECIFICATION Spec
CONSTANTS
  Sockets = {"tls", "starttls"}
  Methods = {"oAuth2", "passwordCleartext"}
  MaxServers = 1
INVARIANTS
  RoundTrips
CHECK_DEADLOCK FALSE
