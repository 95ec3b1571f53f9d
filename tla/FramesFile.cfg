SPECIFICATION FairSpec
CONSTANTS
  Null = Null
  Absent = Absent
  None = None
  MaxWrites = 2
INVARIANTS UndisturbedReadsRight TornReadsSane
PROPERTIES ReaderEnds
CHECK_DEADLOCK FALSE
