SPECIFICATION Spec
CONSTANTS
  Customers = {c1}
  PollLimit = 12
  MaxVisits = 0
  MaxViews = 1
  MaxClicks = 1
  MaxScores = 2
  MaxFaults = 0
PROPERTIES
  PollKeepsOn
CHECK_DEADLOCK FALSE
