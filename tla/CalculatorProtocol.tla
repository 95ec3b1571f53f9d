------------------------- MODULE CalculatorProtocol -------------------------
(***************************************************************************)
(* What a client of the calculator and the server say to each other:       *)
(* capabilities, expressions, calls and outcomes.  The union fields of an  *)
(* Expression become the fields of a record that has only those of its     *)
(* `which', as the generated setters and getters present it.               *)
(***************************************************************************)
EXTENDS Integers, Sequences

\* A capability: object q of the server (the result of the client's question q;
\* 0 is the bootstrap object), function f of the client, or none.
Server(q) == [host |-> "server", id |-> q]
Client(f) == [host |-> "client", id |-> f]
NullClient == [host |-> "null", id |-> 0]

Calculator == Server(0)

-----------------------------------------------------------------------------
(* Calculator_Expression *)

Literal(v) == [which |-> "literal", value |-> v]
PreviousResult(c) == [which |-> "previousResult", on |-> c]
Parameter(i) == [which |-> "parameter", index |-> i]
Call(c, params) == [which |-> "call", on |-> c, params |-> params]

\* An expression of a kind that the receiver's schema does not have.
Unknown == [which |-> "unknown"]

-----------------------------------------------------------------------------
(* Calls, and what they come to *)

Request(c, call) == [on |-> c, call |-> call]

evaluate(e) == Request(Calculator, [method |-> "evaluate", expr |-> e])

defFunction(n, e) ==
    Request(Calculator, [method |-> "defFunction", paramCount |-> n, body |-> e])

getOperator(op) == Request(Calculator, [method |-> "getOperator", op |-> op])

read(c) == Request(c, [method |-> "read"])

call(c, params) == Request(c, [method |-> "call", params |-> params])

Ok(v) == [ok |-> TRUE, value |-> v]
Error == [ok |-> FALSE, value |-> 0]
=============================================================================
