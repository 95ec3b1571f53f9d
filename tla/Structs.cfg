SPECIFICATION Spec
CONSTANTS
  Null = Null
  Absent = Absent
  p1 = p1
  p2 = p2
  Types <- MCTypes
  Numbers <- MCNumbers
  Pointers <- MCPointers
  Received <- MCReceived
INVARIANTS TypeOK LanguagesAgree
PROPERTIES RecordRefined UnknownKept
CHECK_DEADLOCK FALSE
