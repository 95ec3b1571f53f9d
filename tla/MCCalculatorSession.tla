------------------------ MODULE MCCalculatorSession ------------------------
(* Instances of CalculatorSession for TLC. *)
EXTENDS CalculatorSession, CalculatorPrograms, CalculatorEvaluator

\* No program divides.
MCDivide(a, b) == a \div b

\* The function of UseCallback waits for nothing.
MCAwaits == {}

MCPrograms ==
    {EvaluateLiteral, AddAndSubtract, PipelineEval, DefineFunctions, UseCallback,
     stressTest(3), client_main}

MCScripts == {p.calls : p \in MCPrograms}

PipelineOnly == {PipelineEval}
=============================================================================
