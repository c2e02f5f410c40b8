SPECIFICATION PageSpec
CHECK_DEADLOCK FALSE
CONSTANTS
  m1 = m1
  Mints = {m1}
  Own = m1
  BatchLimit = 2
  MaxInFlight = 2
  Graduated = 2
  MaxFailures = 1
  Top = 2
  Valid = 1
  Sides = {"buy"}
  MaxFlows = 1
  Ranges = {1, 2}
  Limit = 2
  Synthetic = 2
  Graduation = 1
  MaxTime = 2
  MaxLoads = 2
  MaxFaults = 1
INVARIANTS ShownIsSo
PROPERTIES GoesBackForAReason FeedShowsAll  MarketIsShown
