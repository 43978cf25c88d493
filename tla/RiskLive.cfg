SPECIFICATION FairSpec
CONSTANTS
  Customers = {c1, c2}
  Gateways = {g1, g2}
  Workers = {w1}
  KycStatuses <- Statuses4
  LlmStatuses <- OutOfEnum
  StaffStatuses = {}
  Faults <- Lossless
  MaxTriggers = 1
  MaxProfile = 1
  MaxFaults = 1
INVARIANTS
  Accounted
  QueuedIsPublished
  CacheNotAhead
PROPERTIES
  AssessmentsInOrder
  EveryOnboardingAssessed
  EveryJobEnds
