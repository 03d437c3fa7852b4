\* Two goroutines, one of them authenticated, share the backoff.
SPECIFICATION FairSpec
CONSTANTS
  c1 = c1
  c2 = c2
  Client = {c1, c2}
  Authenticated = {c1}
  Trails <- MCTrails
  Advice <- MCAdvice
  RateMax = 2
  RateDefault = 1
  LimitMax = 1
  LimitDefault = 1
  WaitLimit = 3
INVARIANTS TypeOK RequestsAccountForTrails BodiesAreReleased TimerBeatsDeadline
PROPERTIES NoRequestDuringBackoff KeepsBudget CallReturns
