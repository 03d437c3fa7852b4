\* Two writers, two dumps each, and three FILE* values that fopen may reuse.
SPECIFICATION Spec
CONSTANTS
  Writer = {w1, w2}
  MaxDumps = 2
  Fp = {f1, f2, f3}
  NoFp = NoFp
INVARIANTS RecordIsExact BurnLeavesNoPartial PartialHasWriter
CHECK_DEADLOCK FALSE
