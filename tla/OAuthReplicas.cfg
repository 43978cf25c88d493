SPECIFICATION Spec
CONSTANTS
  Replicas = {g1, g2}
  Users = {"manager"}
  Scopes <- SomeScopes
  Requests <- SomeRequests
  UserScopes <- OfUsers
  ClientScopes <- OfClient
  MaxLogins = 2
  MaxPairs = 3
  MaxRestarts = 1
SYMMETRY Symmetry
INVARIANTS
  TypeOK
  SpentOnce
  ScopesKept
PROPERTIES
  GrantSpec
