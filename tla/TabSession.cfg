SPECIFICATION Spec
CONSTANTS
  Tabs = {t1, t2}
  Users = {"analyst", "manager"}
  UserScopes <- DemoScopes
  ClientScopes <- AllScopes
  Asked <- AllScopes
  MaxTokens = 2
  MaxVisits = 1
  MaxCalls = 1
  MaxFaults = 1
SYMMETRY Symmetry
INVARIANTS
  TypeOK
  OfferedIsServed
  ShownIsOwner
CHECK_DEADLOCK FALSE
