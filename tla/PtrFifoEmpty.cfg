SPECIFICATION Spec
CONSTANTS
  w1 = w1
  w2 = w2
  r1 = r1
  r2 = r2
  x1 = x1
  x2 = x2
  x3 = x3
  Pusher = {w1, w2}
  Popper = {r1}
  TryPopper = {r2}
  Patience <- MCPatience
  Item = {x1, x2, x3}
  Cap = 2
  NoThread = NoThread
  NoItem = NoItem
PROPERTY EmptyMeansEmpty
