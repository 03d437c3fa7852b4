\* Two structures, a station and a station data/stations.csv does not have; a
\* token's life may be shorter than a request, or than the way to the send.
SPECIFICATION WorkerSpec
CONSTANTS
  npc = npc
  staleNpc = staleNpc
  s1 = s1
  s2 = s2
  Npc = {npc}
  UnknownNpc = {staleNpc}
  Structure = {s1, s2}
  OrderDumps <- MCOrderDumps
  MaxRefusals = 2
  Lifetimes = {1, 4}
  LongestLife = 4
  MaxTokens = 3
INVARIANTS CacheIsFresh KnownOrForbiddenOnce RefusalsAreKept
PROPERTIES DeadOnlyByDelay
