SPECIFICATION Spec
CONSTANTS
  Lstm = {l1, l2}
  Opaque = {l2}
  Empty = Empty
  Thread = {t1, t2}
INVARIANT BothOrNeither
