\* Ticks of three hours, on four machines.  Five days,
\* in which a download or its retries may last over any number of midnights.
SPECIFICATION ClockSpec
CONSTANTS
  Day = 8
  ElevenFifteen = 4
  Zones <- MCZones
  Latest = 2
  MaxTime = 40
INVARIANTS AsksForPublishedDay
PROPERTIES LeavesOutMidnightsOnly
CHECK_DEADLOCK FALSE
