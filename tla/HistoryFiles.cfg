\* Any mix of answers, errors and cancellation, then two readers and a closer
\* that calls Close twice as the server does, on a disk that may fail.
SPECIFICATION FilesSpec
CONSTANTS
  r1 = r1
  r2 = r2
  c1 = c1
  Markets <- MCMarkets
  Answers <- MCAnswers
  BadDay <- MCBadDay
  RequestDay = 2
  MaxTrails = 3
  Reader = {r1, r2}
  Closer = {c1}
  Requests <- MCRequests
  Closes = 2
  DiskFails = TRUE
INVARIANTS IncrementIsExact ReadsWhatWasAnswered
PROPERTIES FileGoesAway
CHECK_DEADLOCK FALSE
