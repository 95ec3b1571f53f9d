CONSTANTS
    Programs <- PipelineOnly
    Scripts <- MCScripts
    Divide <- MCDivide
    ClientCall <- pow
    Awaits <- MCAwaits
    Value <- RefValue
    ObjectOf <- RefObjectOf
    Evaluations <- RefEvaluations
SPECIFICATION SessionFairSpec
INVARIANT RoundTripsAsDocumented
CHECK_DEADLOCK FALSE
