SPECIFICATION Spec
CONSTANTS
  Replicas = {p1}
  Subscribers = {"all", "risk"}
  EventTypes <- Both
  Wants <- Queries
  PoolSize = 2
  MaxEvents = 3
  MaxCrashes = 0
  MaxRefusals = 1
INVARIANT CallersUnaffected
