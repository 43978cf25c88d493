SPECIFICATION FairSessionSpec
CONSTANTS
  Replicas = {g1}
  Users = {"analyst"}
  Scopes <- OneScope
  Requests <- OneRequest
  UserScopes <- OfUsers
  ClientScopes <- OneScope
  Asked <- OneScope
  MaxLogins = 2
  MaxPairs = 2
  MaxRestarts = 1
  MaxCalls = 2
  MaxVisits = 2
  MaxFaults = 1
INVARIANTS
  SessionTypeOK
  VerifierFits
PROPERTIES
  KeptUntilLogout
  ExchangeSucceeds
CHECK_DEADLOCK FALSE
