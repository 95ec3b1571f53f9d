CONSTANTS
    Programs <- MCPrograms
    Scripts <- MCScripts
    Divide <- MCDivide
    ClientCall <- pow
    Awaits <- MCAwaits
    Value <- RefValue
    ObjectOf <- RefObjectOf
    Evaluations <- RefEvaluations
SPECIFICATION SessionFairSpec
INVARIANTS
    AssertionsHold
    RoundTripsAsNeeded
PROPERTIES
    ServesScript
    ClientFinishes
CHECK_DEADLOCK FALSE
