SPECIFICATION ArchiveSpec
CONSTANTS
  m1 = m1
  m2 = m2
  ActiveMarket = {m1, m2}
  Traded <- MCTraded
  FirstYear = 2024
  ShortYear = 2
  Begin = 10
  End = 14
  MaxFailures = 1
INVARIANT NoDayMissed
PROPERTIES InitialLosesOnlyNewYear DailyHasItsDay
CHECK_DEADLOCK FALSE
