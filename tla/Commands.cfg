SPECIFICATION Spec
CONSTANTS
  Services = {}
  Users = {}
  Methods = {}
  Sources = {}
  Endpoints = {}
  Hosts = {}
  Subdomain = {}
  Inputs <- MCInputs
  Autoconfigs <- MCAutoconfigs
  Paccs <- MCPaccs
  Exchanges <- MCExchanges
  SrvAnswers <- MCSrvAnswers
  Urls <- MCUrls
  SchemeSets <- MCSchemeSets
  Pending = Pending
  Refused = Refused
INVARIANTS
  SecureOnly
  BestSrv
  PortFitsSecurity
PROPERTIES
  SearchSpec
CHECK_DEADLOCK FALSE
