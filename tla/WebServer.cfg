\* One request at a time, one order dump, two days.
SPECIFICATION FairSpec
CONSTANTS
  r1 = r1
  Request = {r1}
  MaxDumps = 1
  MaxDates = 2
INVARIANT NoDumpReplacedInUse
PROPERTIES StopsTogether RequestsAreAnswered
