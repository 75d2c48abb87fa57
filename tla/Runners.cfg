SPECIFICATION Spec
CONSTANTS
  Domain = "domain"
  Exchanges <- MCExchanges
  Preferences = {1, 2}
  BaseOf <- MCBaseOf
  ProviderOf <- MCProviderOf
  Aliases <- MCAliases
  MailconfUrls <- MCMailconfUrls
  MaxMx = 3
  MaxRecords = 2
INVARIANTS
  TypeOK
  FirstFit
  Preference
  EndOfChain
  SecureOnly
  Verified
  BoundedCalls
CHECK_DEADLOCK FALSE
