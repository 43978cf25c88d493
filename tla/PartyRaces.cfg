SPECIFICATION Spec
CONSTANTS
  Replicas = {p1, p2}
  Individuals = {i1}
  Organizations = {o1}
  Staff = {u1}
  Fields = {"status", "optional"}
  Values = {"a", "null"}
  Initial = "a"
  MaxChanges = 3
SYMMETRY Symmetry
INVARIANTS
  TypeOK
  AuditMatchesChanges
  EventsAreCommitted
PROPERTIES
  PatchTouchesOnlyItsFields
