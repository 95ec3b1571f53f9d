------------------------- MODULE CalculatorMeaning -------------------------
(***************************************************************************)
(* What the questions of a script mean, and that the server answers so.    *)
(* Nothing is said here of queues, goroutines or the order of events.      *)
(*                                                                         *)
(* A meaning gives each question its object and each expression that is    *)
(* evaluated its value.  It is a constant; MeaningAssumption says that it  *)
(* is composed from the meanings of the parts.                             *)
(***************************************************************************)
EXTENDS CalculatorServer

CONSTANTS Value(_, _, _),   \* the value of an expression, with its parameters
          ObjectOf(_, _),   \* the object a question of a script makes
          Evaluations(_)    \* the expressions evaluated, with their parameters

\* What a method of object o answers.
Result(s, o, c) ==
    CASE c.method = "read" -> Ok(o.value)
      [] c.method = "evaluate" -> Value(s, c.expr, NoParams)
      [] c.method = "defFunction" -> Ok(0)
      [] c.method = "getOperator" -> IF c.op \in operators THEN Ok(0) ELSE Error
      [] c.method = "call" /\ o.kind = "operator" ->
            IF Len(c.params) = 2 THEN Ok(Apply(o.op, c.params[1], c.params[2]))
            ELSE Error
      [] c.method = "call" /\ o.kind = "defined" ->
            IF Len(c.params) = o.paramCount THEN Value(s, o.body, Params(c.params))
            ELSE Error

\* What call c on a capability comes to.
Outcome(s, on, c) ==
    IF on.host = "client" THEN ClientAnswer(on.id, c)
    ELSE IF on.host = "server" /\ c.method \in Methods(ObjectOf(s, on.id).kind)
    THEN Result(s, ObjectOf(s, on.id), c)
    ELSE Error

AnswerOf(s, q) == Outcome(s, s[q].on, s[q].call)

\* The object that a call makes when it comes to res.
Made(c, res) ==
    IF ~res.ok THEN Failed
    ELSE CASE c.method = "evaluate" -> valueServer(res.value)
           [] c.method = "defFunction" -> Defined(c.paramCount, c.body)
           [] c.method = "getOperator" -> Operator(c.op)
           [] OTHER -> Failed

\* The value of an expression, from the values of its parts.
OfParts(s, e, env) ==
    CASE e.which = "literal" -> Ok(e.value)
      [] e.which = "parameter" ->
            IF ~env.given \/ e.index >= Len(env.vals)
            THEN Error ELSE Ok(env.vals[e.index + 1])
      [] e.which = "previousResult" ->
            IF e.on = NullClient THEN Error ELSE Outcome(s, e.on, read(e.on).call)
      [] e.which = "call" ->
            IF /\ e.on # NullClient
               /\ \A i \in 1 .. Len(e.params) : Value(s, e.params[i], env).ok
            THEN Outcome(s, e.on,
                    call(e.on, [i \in 1 .. Len(e.params) |->
                                   Value(s, e.params[i], env).value]).call)
            ELSE Error
      [] OTHER -> Error

\* Evaluations has what a call evaluates, if it is on an object of the server.
Covered(s, on, c) ==
    on.host = "server" =>
        /\ c.method = "evaluate" => <<c.expr, NoParams>> \in Evaluations(s)
        /\ LET o == ObjectOf(s, on.id)
           IN  c.method = "call" /\ o.kind = "defined" /\ Len(c.params) = o.paramCount
                 => <<o.body, Params(c.params)>> \in Evaluations(s)

\* An object or a value means what its parts make of it.  A script that asks about
\* its own answers has a meaning too: what is never answered may be an error.
MeaningOf(s) ==
    /\ ObjectOf(s, 0) = calculatorServer
    /\ \A q \in 1 .. Len(s) :
          /\ ObjectOf(s, q) = Made(s[q].call, AnswerOf(s, q))
          /\ Covered(s, s[q].on, s[q].call)
    /\ \A ev \in Evaluations(s) :
          LET e   == ev[1]
              env == ev[2]
              val == Value(s, e, env)
          IN  /\ val = OfParts(s, e, env)
              /\ val.ok \in BOOLEAN /\ (~val.ok => val = Error)
              /\ e.which = "call" =>
                    /\ Len(e.params) \in Nat
                    /\ \A i \in 1 .. Len(e.params) :
                          <<e.params[i], env>> \in Evaluations(s)
                    /\ (\A i \in 1 .. Len(e.params) : Value(s, e.params[i], env).ok)
                         => Covered(s, e.on,
                               call(e.on, [i \in 1 .. Len(e.params) |->
                                             Value(s, e.params[i], env).value]).call)

ASSUME MeaningAssumption == \A s \in Scripts : MeaningOf(s)

\* In whatever order calls are delivered, started, suspended and answered, each
\* question is answered with what it means, errors included, and so is the object
\* it makes.
AnswersCorrect ==
    \A q \in Questions : Answered(q) => /\ task[<<q>>].result = AnswerOf(script, q)
                                        /\ obj[q] = ObjectOf(script, q)
=============================================================================
