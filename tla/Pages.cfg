SPECIFICATION FairSpec
CONSTANTS
  Customers = {c1}
  PollLimit = 1
  MaxVisits = 1
  MaxViews = 1
  MaxClicks = 2
  MaxScores = 2
  MaxFaults = 1
INVARIANTS
  PagesTypeOK
PROPERTIES
  FirstPollKeepsOn
  ShownNeverOlder
  LoadingEnds
  EveryPollEnds
  ListShowsScores
CHECK_DEADLOCK FALSE
