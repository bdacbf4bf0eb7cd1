SPECIFICATION Spec
CONSTANTS
  Client = {c1}
  Input = {i1, i2}
  Kind = {"python"}
  NULL = NULL
INVARIANT RunsItsInput
CHECK_DEADLOCK FALSE
