------------------------- MODULE MCCalculatorServer -------------------------
(* Instances of CalculatorServer for TLC. *)
EXTENDS CalculatorEvaluator

\* Quotients of these instances are exact; a quotient by zero is infinite.
Infinity == 1000000

MCDivide(a, b) == IF b = 0 THEN Infinity ELSE a \div b

\* Function 1 answers its first parameter plus one.  Functions 2 and 3 do so too,
\* after questions of their own: 2 waits for questions 4 and 5, and 3 for
\* question 3.  Function 4 throws.
MCClientCall(f, params) == IF f = 4 THEN Error ELSE Ok(params[1] + 1)

MCAwaits == {<<2, 4>>, <<2, 5>>, <<3, 3>>}

-----------------------------------------------------------------------------
(* The scripts *)

\* Results of earlier questions, used before they are there.
Pipelined ==
    << getOperator("multiply"),
       evaluate(Call(Server(1), <<Literal(4), Literal(6)>>)),
       evaluate(Call(Server(1), << PreviousResult(Server(2)),
                                   Call(Server(1), <<Literal(3), Literal(2)>>) >>)),
       read(Server(3)),
       read(Server(2)) >>

\* Functions that call functions.
Composed ==
    << getOperator("subtract"),
       defFunction(2, Call(Server(1), <<Parameter(0), Parameter(1)>>)),
       defFunction(1, Call(Server(2), << Literal(9),
                                         Call(Server(2), <<Parameter(0), Literal(1)>>) >>)),
       evaluate(Call(Server(3), <<Literal(5)>>)),
       read(Server(4)),
       call(Server(3), <<6>>) >>

\* Parameters where there are none or too few, the wrong number of arguments.
WrongCalls ==
    << defFunction(1, Parameter(1)),
       evaluate(Call(Server(1), <<Literal(7)>>)),
       evaluate(Call(Server(1), <<Literal(7), Literal(8)>>)),
       evaluate(Parameter(0)),
       getOperator("divide"),
       evaluate(Call(Server(5), <<Literal(7)>>)),
       evaluate(Call(Server(5), <<Literal(7), Literal(0)>>)),
       read(Server(7)) >>

\* Objects that are not there, and methods an object does not have.
WrongObjects ==
    << getOperator("modulo"),
       evaluate(Call(Server(1), <<Literal(7)>>)),
       evaluate(PreviousResult(Server(2))),
       evaluate(PreviousResult(NullClient)),
       evaluate(Call(NullClient, <<Unknown>>)),
       evaluate(Unknown),
       evaluate(PreviousResult(Client(1))),
       call(Server(1), <<7>>),
       read(Calculator) >>

\* A client function that waits for questions asked after the one that calls it,
\* one of them on the defined function it is called from.
Reentrant ==
    << defFunction(1, Call(Client(2), <<Parameter(0)>>)),
       evaluate(Call(Server(1), <<Literal(1)>>)),
       read(Server(2)),
       evaluate(Call(Server(1), <<Literal(1), Literal(2)>>)),
       evaluate(Call(Client(1), <<Literal(5)>>)),
       read(Server(5)) >>

\* The same from evaluate itself, and a client function that throws.
Callback ==
    << evaluate(Call(Client(3), <<Literal(2)>>)),
       evaluate(Call(Client(1), <<PreviousResult(Server(1))>>)),
       evaluate(Call(Client(4), <<Literal(3)>>)),
       read(Server(3)),
       read(Server(2)) >>

MCScripts == {Pipelined, Composed, WrongCalls, WrongObjects, Reentrant, Callback}

=============================================================================
