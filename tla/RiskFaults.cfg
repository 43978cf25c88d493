SPECIFICATION Spec
CONSTANTS
  Customers = {c1}
  Gateways = {g1}
  Workers = {w1, w2}
  KycStatuses <- Statuses4
  LlmStatuses <- OutOfEnum
  StaffStatuses = {"rejected"}
  Faults <- AllFaults
  MaxTriggers = 1
  MaxProfile = 2
  MaxFaults = 2
SYMMETRY Symmetry
INVARIANTS
  TypeOK
  JobInOnePlace
  PatchedMeansCommitted
  AssessmentSeesEarlierEdits
PROPERTIES
  QueueSpec
