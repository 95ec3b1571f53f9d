CONSTANTS
    Scripts <- MCScripts
    Divide <- MCDivide
    ClientCall <- MCClientCall
    Awaits <- MCAwaits
    Value <- RefValue
    ObjectOf <- RefObjectOf
    Evaluations <- RefEvaluations
SPECIFICATION FairSpec
INVARIANTS
    TypeOK
    ResolvedWhenAnswered
    CallsHaveCallers
    CallsWaitOnce
    AnswersCorrect
PROPERTIES
    AnswersFinal
    EveryQuestionAnswered
CHECK_DEADLOCK FALSE
