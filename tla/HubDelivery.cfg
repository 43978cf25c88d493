SPECIFICATION FairSpec
CONSTANTS
  Replicas = {p1, p2}
  Subscribers = {"all", "risk"}
  EventTypes <- Both
  Wants <- Queries
  PoolSize = 1
  MaxEvents = 2
  MaxCrashes = 1
  MaxRefusals = 1
INVARIANTS
  TypeOK
  ReceivedOnce
  OnlySubscribersReceive
  NobodySkipped
PROPERTIES
  EveryEventSettled
