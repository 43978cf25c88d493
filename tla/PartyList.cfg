SPECIFICATION Spec
CONSTANTS
  Replicas = {p1, p2}
  Individuals = {i1}
  Organizations = {}
  Staff = {u1}
  Fields = {"status", "optional"}
  Values = {"a", "null"}
  Initial = "a"
  MaxChanges = 2
SYMMETRY Symmetry
INVARIANTS
  ListAnswers
