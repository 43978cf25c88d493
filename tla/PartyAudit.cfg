SPECIFICATION Spec
CONSTANTS
  Replicas = {p1}
  Individuals = {i1}
  Organizations = {o1}
  Staff = {u1}
  Fields = {"status", "optional"}
  Values = {"a", "null"}
  Initial = "a"
  MaxChanges = 2
INVARIANTS
  DeletionsAudited
