\* Two orders are placed and one per region ends while two regions are
\* downloaded.
SPECIFICATION OrderSpec
CONSTANTS
  Regions = 2
  Books <- MCBooks
  PageSize = 2
  NewOrders = {11, 12}
  MaxExpired = 1
INVARIANTS DumpIsComplete MissesOnlyShifted
CHECK_DEADLOCK FALSE
