\* One station, one structure, one market, one place.
SPECIFICATION FairSpec
CONSTANTS
  Station = {s1}
  Structure = {s2}
  Market = {m1}
  Cap = 1
INVARIANTS DumpHasAllKnown LentWhileWaiting AnsweredByFirstCycle
PROPERTIES WaitEnds
CHECK_DEADLOCK FALSE
