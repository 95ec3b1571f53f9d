-------------------------- MODULE CalculatorPrograms --------------------------
(***************************************************************************)
(* The programs that the repository runs against the calculator: the five  *)
(* blocks of doClient and the loop of stressTest (src/ts/src/client.ts),   *)
(* and client_main (src/rust/src/main.rs).                                 *)
(*                                                                         *)
(* A program is its calls, in the order it makes them, and its awaits:     *)
(* before each it has made `sent' calls, then it waits for the result of   *)
(* question `q' and asserts that it is `value'.  `needs' is how many round *)
(* trips its awaits and callbacks cost, `says' how many the comment above  *)
(* the block says it takes, 0 where there is none.                         *)
(***************************************************************************)
EXTENDS CalculatorProtocol

Await(sent, q, value) == [sent |-> sent, q |-> q, value |-> value]

Program(calls, awaits, needs, says) ==
    [calls |-> calls, awaits |-> awaits, needs |-> needs, says |-> says]

\* Awaits the value before it asks to read it.
EvaluateLiteralInTwoSteps ==
    Program(<< evaluate(Literal(123)), read(Server(1)) >>,
            << Await(1, 1, 123), Await(2, 2, 123) >>, 1, 1)

\* "Evaluating a literal..."
EvaluateLiteral ==
    Program(<< evaluate(Literal(123)), read(Server(1)) >>,
            << Await(2, 2, 123) >>, 1, 1)

\* "Using add and subtract...": 123 + 45 - 67
AddAndSubtract ==
    LET add      == Server(1)
        subtract == Server(2)
        sum      == Call(add, <<Literal(123), Literal(45)>>)
    IN  Program(<< getOperator("add"),
                   getOperator("subtract"),
                   evaluate(Call(subtract, <<sum, Literal(67)>>)),
                   read(Server(3)) >>,
                << Await(4, 4, 101) >>, 1, 1)

\* "Pipeline eval() calls...": add 3 and 5 to 4 * 6.  The read of the second sum
\* is sent when the first has been read.
PipelineEval ==
    LET add        == Server(1)
        multiply   == Server(2)
        multResult == PreviousResult(Server(3))
    IN  Program(<< getOperator("add"),
                   getOperator("multiply"),
                   evaluate(Call(multiply, <<Literal(4), Literal(6)>>)),
                   evaluate(Call(add, <<multResult, Literal(3)>>)),
                   evaluate(Call(add, <<multResult, Literal(5)>>)),
                   read(Server(4)),
                   read(Server(5)) >>,
                << Await(6, 6, 27), Await(7, 7, 29) >>, 2, 1)

\* "Defining functions...": f(x, y) = x * 100 + y, g(x) = f(x, x + 1) * 2
DefineFunctions ==
    LET add      == Server(1)
        multiply == Server(2)
        f        == Server(3)
        g        == Server(4)
        fBody    == Call(add, << Call(multiply, <<Parameter(0), Literal(100)>>),
                                 Parameter(1) >>)
        gBody    == Call(multiply,
                         << Call(f, << Parameter(0),
                                       Call(add, <<Parameter(0), Literal(1)>>) >>),
                            Literal(2) >>)
    IN  Program(<< getOperator("add"),
                   getOperator("multiply"),
                   defFunction(2, fBody),
                   defFunction(1, gBody),
                   evaluate(Call(f, <<Literal(12), Literal(34)>>)),
                   read(Server(5)),
                   evaluate(Call(g, <<Literal(21)>>)),
                   read(Server(7)) >>,
                << Await(8, 6, 1234), Await(8, 8, 4244) >>, 1, 1)

\* "Using a callback...": 2 ^ (4 + 5), where the client implements the power.
UseCallback ==
    LET add == Server(1)
    IN  Program(<< getOperator("add"),
                   evaluate(Call(Client(1),
                                 << Literal(2),
                                    Call(add, <<Literal(4), Literal(5)>>) >>)),
                   read(Server(2)) >>,
                << Await(3, 3, 512) >>, 2, 2)

\* The function the client passes to the server in UseCallback.
pow(f, params) ==
    IF Len(params) # 2 THEN Error ELSE Ok(params[1] ^ params[2])

\* One round of stressTest: 0 + 0 + 1 + ... + (numCalls - 1), each sum made of
\* the result of the one before.
stressTest(numCalls) ==
    Program([k \in 1 .. numCalls + 3 |->
                CASE k = 1 -> getOperator("add")
                  [] k = 2 -> evaluate(Literal(0))
                  [] k = numCalls + 3 -> read(Server(numCalls + 2))
                  [] OTHER -> evaluate(Call(Server(1),
                                            << PreviousResult(Server(k - 1)),
                                               Literal(k - 3) >>))],
            << Await(numCalls + 3, numCalls + 3,
                     (numCalls * (numCalls - 1)) \div 2) >>, 1, 0)

\* The Rust client waits for the value, then for what it reads.  It prints the
\* number and, like stressTest, asserts nothing of it.
client_main ==
    Program(<< evaluate(Literal(123)), read(Server(1)) >>,
            << Await(1, 1, 123), Await(2, 2, 123) >>, 2, 0)

=============================================================================
