SPECIFICATION Spec
CONSTANTS
  Null = Null
  Absent = Absent
  None = None
  p1 = p1
  Numbers <- MCNumbers
  Pointers <- MCPointers
INVARIANTS RunsMethodAsked ParamsArrive PromiseIsResult
CHECK_DEADLOCK FALSE
