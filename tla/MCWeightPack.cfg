SPECIFICATION FairSpec
CONSTANTS
  Thread = {t1, t2, t3}
  Lstm = {l1, l2}
  Opaque = {l2}
  Empty = Empty
INVARIANTS MutualExclusion CountersMatch NoLostWakeup CachedTogether WarmCallsHit
PROPERTY CallsEnd
