------------------------ MODULE CalculatorEvaluator ------------------------
(***************************************************************************)
(* The reference evaluator for TLC: what a question means, read off the    *)
(* script by recursion.  TLC checks that it is composed as                 *)
(* MeaningAssumption says.                                                 *)
(***************************************************************************)
EXTENDS CalculatorMeaning

RECURSIVE RefValue(_, _, _), RefObjectOf(_, _)

\* What reading, or calling with the parameters vals, a capability gives.
ReadOf(s, c) ==
    LET o == RefObjectOf(s, c.id)
    IN  IF c.host = "server" /\ o.kind = "value" THEN Ok(o.value) ELSE Error

CallOn(s, c, vals) ==
    IF c.host = "client" THEN ClientCall(c.id, vals)
    ELSE LET o == RefObjectOf(s, c.id)
         IN  CASE o.kind = "operator" /\ Len(vals) = 2 ->
                    Ok(Apply(o.op, vals[1], vals[2]))
               [] o.kind = "defined" /\ Len(vals) = o.paramCount ->
                    RefValue(s, o.body, Params(vals))
               [] OTHER -> Error

RefValue(s, e, env) ==
    CASE e.which = "literal" -> Ok(e.value)
      [] e.which = "parameter" ->
            IF env.given /\ e.index < Len(env.vals)
            THEN Ok(env.vals[e.index + 1]) ELSE Error
      [] e.which = "previousResult" -> ReadOf(s, e.on)
      [] e.which = "call" ->
            LET vs == [i \in 1 .. Len(e.params) |-> RefValue(s, e.params[i], env)]
            IN  IF e.on.host # "null" /\ \A i \in DOMAIN vs : vs[i].ok
                THEN CallOn(s, e.on, [i \in DOMAIN vs |-> vs[i].value]) ELSE Error
      [] OTHER -> Error

\* The object of a question; only the calculator makes any.
RefObjectOf(s, q) ==
    IF q = 0 THEN calculatorServer
    ELSE LET c == s[q].call
         IN  CASE s[q].on # Calculator -> Failed
               [] c.method = "evaluate" ->
                     LET v == RefValue(s, c.expr, NoParams)
                     IN  IF v.ok THEN valueServer(v.value) ELSE Failed
               [] c.method = "defFunction" -> Defined(c.paramCount, c.body)
               [] c.method = "getOperator" /\ c.op \in operators -> Operator(c.op)
               [] OTHER -> Failed

\* All that is evaluated for an expression, or for a call of a function.
RECURSIVE Within(_, _, _)

Beyond(s, c, vals) ==
    LET o == RefObjectOf(s, c.id)
    IN  IF c.host = "server" /\ o.kind = "defined" /\ Len(vals) = o.paramCount
        THEN Within(s, o.body, Params(vals)) ELSE {}

Within(s, e, env) ==
    {<<e, env>>} \cup
    IF e.which # "call" THEN {}
    ELSE LET vs == [i \in 1 .. Len(e.params) |-> RefValue(s, e.params[i], env)]
         IN  UNION {Within(s, e.params[i], env) : i \in DOMAIN vs}
             \cup (IF \A i \in DOMAIN vs : vs[i].ok
                   THEN Beyond(s, e.on, [i \in DOMAIN vs |-> vs[i].value]) ELSE {})

RefEvaluations(s) ==
    UNION {LET c == s[q].call
           IN  CASE c.method = "evaluate" -> Within(s, c.expr, NoParams)
                 [] c.method = "call" -> Beyond(s, s[q].on, c.params)
                 [] OTHER -> {}
           : q \in 1 .. Len(s)}
=============================================================================
