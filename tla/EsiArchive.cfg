SPECIFICATION FairSpec
CONSTANTS
  c1 = c1
  c2 = c2
  Client = {c1, c2}
  Authenticated = {c1}
  Trails <- MCTrails
  Advice <- MCAdvice
  Implicit = 1
  LimitMax = 2
  SleepMax = 4
  Life = {1, 3}
  Margin = 1
  Cut = 1
INVARIANTS SilenceKept SleepIsShort LiveForMargin
PROPERTIES KeepsBudget CallReturns
