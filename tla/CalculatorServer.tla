-------------------------- MODULE CalculatorServer --------------------------
(***************************************************************************)
(* The calculator of src/go/main.go as one connection sees it: the objects *)
(* the client holds (the calculator, values, functions), the calls made on *)
(* them, and the goroutines that evaluate expressions.                     *)
(*                                                                         *)
(* The client's questions are numbered in the order it sends them.  Every  *)
(* object but the calculator (object 0) is the result of one question and  *)
(* has its number, so a capability can be used before that question is     *)
(* answered.  A call the server itself makes while it evaluates is a task  *)
(* below the task that makes it: the task <<q, 1, 1>> is a call made by a  *)
(* call made for question q.  A goroutine has one such call under way at   *)
(* most, since it waits for the result.                                    *)
(*                                                                         *)
(* The RPC library (zombiezen.com/go/capnproto2) is not part of the        *)
(* repository.  It starts the calls on an object in their order, the next  *)
(* one when the one before has returned or called server.Ack, and keeps    *)
(* the calls on an unanswered question until it is answered.               *)
(***************************************************************************)
EXTENDS CalculatorProtocol

CONSTANTS Scripts,          \* the sequences of questions a client may ask
          Divide(_, _),     \* float64 division, never an error
          ClientCall(_, _), \* what a function of the client answers
          Awaits            \* <<f, q>>: function f waits for question q before it answers

ASSUME ScriptsAssumption == \A s \in Scripts : Len(s) \in Nat

VARIABLES script,           \* the questions of this client
          received,         \* how many of them have reached the server
          obj,              \* the objects, by question
          queue,            \* calls on an object that have not started
          task              \* the calls: started, waiting, or answered

vars == <<script, received, obj, queue, task>>

-----------------------------------------------------------------------------
(* Objects *)

Unresolved == [kind |-> "unresolved"]
Failed == [kind |-> "failed"]
calculatorServer == [kind |-> "calculator"]
valueServer(v) == [kind |-> "value", value |-> v]
Operator(op) == [kind |-> "operator", op |-> op]
Defined(n, body) == [kind |-> "defined", paramCount |-> n, body |-> body]

operators == {"add", "subtract", "multiply", "divide"}

Apply(op, a, b) ==
    CASE op = "add"      -> a + b
      [] op = "subtract" -> a - b
      [] op = "multiply" -> a * b
      [] op = "divide"   -> Divide(a, b)

\* The methods of the interface an object was made with (XXX_ServerToClient).
Methods(kind) ==
    CASE kind = "calculator" -> {"evaluate", "defFunction", "getOperator"}
      [] kind = "value" -> {"read"}
      [] kind \in {"operator", "defined"} -> {"call"}
      [] OTHER -> {}

-----------------------------------------------------------------------------
(* Tasks *)

Questions == 1 .. Len(script)

NoParams == [given |-> FALSE, vals |-> <<>>]
Params(vals) == [given |-> TRUE, vals |-> vals]

NewTask(req) ==
    [on     |-> req.on,     \* the capability the call is made on
     call   |-> req.call,   \* the method and its parameters
     state  |-> "queued",
     acked  |-> FALSE,
     stack  |-> <<>>,       \* evaluate's recursion, innermost first
     params |-> NoParams,   \* evaluate's callParams
     result |-> Error]

Put(f, k, v) == [x \in DOMAIN f \cup {k} |-> IF x = k THEN v ELSE f[x]]

Without(f, k) == [x \in DOMAIN f \ {k} |-> f[x]]

Child(t) == Append(t, 1)

Live(t) == task[t].state \in {"started", "evaluating"}

\* A call that has neither returned nor called Ack holds back the next one.
Busy(o) ==
    \E t \in DOMAIN task :
        Live(t) /\ task[t].on = Server(o) /\ ~task[t].acked

\* The call t returns; ts is task without what t no longer needs.  A question
\* resolves to the object it made, if any.
Return(ts, t, res, object) ==
    /\ task' = [ts EXCEPT ![t].state = "done", ![t].result = res]
    /\ obj' = IF Len(t) = 1 THEN [obj EXCEPT ![t[1]] = object] ELSE obj
    /\ UNCHANGED <<script, received>>

ReturnError(t) == Return(task, t, Error, Failed)

-----------------------------------------------------------------------------
(* The RPC library: calls reach objects *)

Init ==
    /\ script \in Scripts
    /\ received = 0
    /\ obj = [q \in 0 .. Len(script) |->
                 IF q = 0 THEN calculatorServer ELSE Unresolved]
    /\ queue = [q \in 0 .. Len(script) |-> <<>>]
    /\ task = [t \in {} |-> NewTask(read(NullClient))]

\* A call is delivered to the object it is made on, or sent to the client.
Deliver(t, req) ==
    /\ task' = Put(task, t, NewTask(req))
    /\ queue' = IF req.on.host = "server"
                THEN [queue EXCEPT ![req.on.id] = Append(@, t)]
                ELSE queue

\* The client's next question arrives.
Receive ==
    /\ received < Len(script)
    /\ received' = received + 1
    /\ Deliver(<<received + 1>>, script[received + 1])
    /\ UNCHANGED <<script, obj>>

\* The server package starts the next call on an object.
StartCall(o) ==
    /\ queue[o] # <<>>
    /\ obj[o].kind \notin {"unresolved", "failed"}
    /\ ~Busy(o)
    /\ task[Head(queue[o])].call.method \in Methods(obj[o].kind)
    /\ task' = [task EXCEPT ![Head(queue[o])].state = "started"]
    /\ queue' = [queue EXCEPT ![o] = Tail(@)]
    /\ UNCHANGED <<script, received, obj>>

\* A call on the result of a question that failed, or of a method the object
\* does not have, fails.
RefuseCall(o) ==
    /\ queue[o] # <<>>
    /\ obj[o].kind # "unresolved"
    /\ task[Head(queue[o])].call.method \notin Methods(obj[o].kind)
    /\ ReturnError(Head(queue[o]))
    /\ queue' = [queue EXCEPT ![o] = Tail(@)]

\* What a function of the client answers; it has the method call only.
ClientAnswer(f, c) == IF c.method = "call" THEN ClientCall(f, c.params) ELSE Error

\* The client answers a call of one of its own functions, once the questions
\* that function waits for are answered.
ClientReturn(t) ==
    /\ task[t].on.host = "client"
    /\ task[t].state = "queued"
    /\ \A q \in Questions :
          <<task[t].on.id, q>> \in Awaits => <<q>> \in DOMAIN task /\ task[<<q>>].state = "done"
    /\ Return(task, t, ClientAnswer(task[t].on.id, task[t].call), Failed)
    /\ UNCHANGED queue

-----------------------------------------------------------------------------
(* The methods of calculatorServer, valueServer and functionServer *)

\* The call a started goroutine runs.
Running(t, method) == task[t].state = "started" /\ task[t].call.method = method

Target(t) == obj[task[t].on.id]

Read(t) ==
    /\ Running(t, "read")
    /\ Return(task, t, Ok(Target(t).value), Failed)
    /\ UNCHANGED queue

DefFunction(t) ==
    /\ Running(t, "defFunction")
    /\ Return(task, t, Ok(0), Defined(task[t].call.paramCount, task[t].call.body))
    /\ UNCHANGED queue

GetOperator(t) ==
    /\ Running(t, "getOperator")
    /\ IF task[t].call.op \in operators
       THEN Return(task, t, Ok(0), Operator(task[t].call.op))
       ELSE ReturnError(t)
    /\ UNCHANGED queue

\* evaluate starts on an expression, after server.Ack.
BeginWithoutAck(t, expr, params) ==
    /\ task' = [task EXCEPT ![t].state = "evaluating",
                            ![t].stack = <<[expr |-> expr, vals |-> <<>>]>>,
                            ![t].params = params]
    /\ UNCHANGED <<script, received, obj>>

Begin(t, expr, params) ==
    /\ task' = [task EXCEPT ![t].state = "evaluating",
                            ![t].acked = TRUE,
                            ![t].stack = <<[expr |-> expr, vals |-> <<>>]>>,
                            ![t].params = params]
    /\ UNCHANGED <<script, received, obj>>

\* Hands out the value before it is there.
EvaluateResolvingFirst(t) ==
    /\ Running(t, "evaluate")
    /\ task' = [task EXCEPT ![t].state = "evaluating",
                            ![t].acked = TRUE,
                            ![t].stack = <<[expr |-> task[t].call.expr, vals |-> <<>>]>>]
    /\ obj' = [obj EXCEPT ![t[1]] = valueServer(0)]
    /\ UNCHANGED <<script, received, queue>>

\* Runs again what has been answered.
EvaluateAgain(t) ==
    /\ task[t].state \in {"started", "done"} /\ task[t].call.method = "evaluate"
    /\ Begin(t, task[t].call.expr, NoParams)
    /\ UNCHANGED queue

\* calculatorServer.Evaluate.
Evaluate(t) ==
    /\ Running(t, "evaluate")
    /\ Begin(t, task[t].call.expr, NoParams)
    /\ UNCHANGED queue

CallOperatorSwapped(t) ==
    /\ Running(t, "call")
    /\ Target(t).kind = "operator"
    /\ LET cparams == task[t].call.params
       IN  IF Len(cparams) # 2
           THEN ReturnError(t)
           ELSE Return(task, t, Ok(Apply(Target(t).op, cparams[2], cparams[1])),
                       Failed)
    /\ UNCHANGED queue

\* functionServer.Call of an operator (makeOperator).
CallOperator(t) ==
    /\ Running(t, "call")
    /\ Target(t).kind = "operator"
    /\ LET cparams == task[t].call.params
       IN  IF Len(cparams) # 2
           THEN ReturnError(t)
           ELSE Return(task, t, Ok(Apply(Target(t).op, cparams[1], cparams[2])),
                       Failed)
    /\ UNCHANGED queue

CallDefinedAnyArity(t) ==
    /\ Running(t, "call")
    /\ Target(t).kind = "defined"
    /\ Begin(t, Target(t).body, Params(task[t].call.params))
    /\ UNCHANGED queue

\* functionServer.Call of a defined function (the closure in DefFunction).
CallDefined(t) ==
    /\ Running(t, "call")
    /\ Target(t).kind = "defined"
    /\ LET callParams == task[t].call.params
       IN  IF Len(callParams) # Target(t).paramCount
           THEN ReturnError(t)
           ELSE Begin(t, Target(t).body, Params(callParams))
    /\ UNCHANGED queue

-----------------------------------------------------------------------------
(* evaluate *)

Expr(t) == Head(task[t].stack).expr
Vals(t) == Head(task[t].stack).vals

\* Goes on without the result of the call it made.
EvaluatingUnawaited(t, which) ==
    /\ task[t].state = "evaluating"
    /\ Expr(t).which = which

\* The goroutine of t runs evaluate on an expression and waits for no call.
Evaluating(t, which) ==
    /\ task[t].state = "evaluating"
    /\ Child(t) \notin DOMAIN task
    /\ Expr(t).which = which

\* The stack after an inner evaluate returned v: one more parameter for the call
\* around it.
PassOut(stack, v) == <<[stack[2] EXCEPT !.vals = Append(@, v)]>> \o Tail(Tail(stack))

YieldNeverReturns(ts, t, res) ==
    /\ task' = [ts EXCEPT ![t].stack = Tail(@)]
    /\ UNCHANGED <<script, received, obj>>

\* The innermost evaluate returns.  Its value is a parameter of the call around
\* it, or the result; an error goes all the way out.
Yield(ts, t, res) ==
    IF res.ok /\ Len(task[t].stack) > 1
    THEN /\ task' = [ts EXCEPT ![t].stack = PassOut(@, res.value)]
         /\ UNCHANGED <<script, received, obj>>
    ELSE Return(ts, t, res, IF res.ok /\ task[t].call.method = "evaluate"
                            THEN valueServer(res.value) ELSE Failed)

EvalLiteral(t) ==
    /\ Evaluating(t, "literal")
    /\ Yield(task, t, Ok(Expr(t).value))
    /\ UNCHANGED queue

EvalParameter(t) ==
    /\ Evaluating(t, "parameter")
    /\ LET callParams == task[t].params
           pr         == Expr(t).index
       IN  Yield(task, t, IF ~callParams.given \/ pr >= Len(callParams.vals)
                          THEN Error ELSE Ok(callParams.vals[pr + 1]))
    /\ UNCHANGED queue

\* A call made by evaluate, whose result it then waits for.
Issue(t, req) ==
    /\ Deliver(Child(t), req)
    /\ UNCHANGED <<script, received, obj>>

EvalPreviousResult(t) ==
    /\ Evaluating(t, "previousResult")
    /\ \/ /\ Expr(t).on = NullClient
          /\ ReturnError(t)
          /\ UNCHANGED queue
       \/ /\ Expr(t).on # NullClient
          /\ Issue(t, read(Expr(t).on))

\* The parameters are evaluated from left to right, then the call is made.  The
\* stub refuses a null function before it asks for the parameters.
EvalCall(t) ==
    /\ Evaluating(t, "call")
    /\ \/ /\ Expr(t).on = NullClient
          /\ ReturnError(t)
          /\ UNCHANGED queue
       \/ /\ Expr(t).on # NullClient
          /\ Len(Vals(t)) < Len(Expr(t).params)
          /\ LET cparam == Expr(t).params[Len(Vals(t)) + 1]
             IN  task' = [task EXCEPT ![t].stack =
                             <<[expr |-> cparam, vals |-> <<>>]>> \o @]
          /\ UNCHANGED <<script, received, obj, queue>>
       \/ /\ Expr(t).on # NullClient
          /\ Len(Vals(t)) = Len(Expr(t).params)
          /\ Issue(t, call(Expr(t).on, Vals(t)))

\* An expression of a kind this server does not know.
EvalDefault(t) ==
    /\ Evaluating(t, "unknown")
    /\ ReturnError(t)
    /\ UNCHANGED queue

ResumeKeepingAnswer(t) ==
    /\ task[t].state = "evaluating"
    /\ Child(t) \in DOMAIN task
    /\ task[Child(t)].state = "done"
    /\ Yield(task, t, task[Child(t)].result)
    /\ UNCHANGED queue

\* The call that evaluate waits for has returned (Struct()).
Resume(t) ==
    /\ task[t].state = "evaluating"
    /\ Child(t) \in DOMAIN task
    /\ task[Child(t)].state = "done"
    /\ Yield(Without(task, Child(t)), t, task[Child(t)].result)
    /\ UNCHANGED queue

-----------------------------------------------------------------------------

Handle(t) ==
    \/ Read(t) \/ DefFunction(t) \/ GetOperator(t) \/ Evaluate(t)
    \/ CallOperator(t) \/ CallDefined(t)

EvalStep(t) ==
    \/ EvalLiteral(t) \/ EvalParameter(t) \/ EvalPreviousResult(t)
    \/ EvalCall(t) \/ EvalDefault(t) \/ Resume(t)

ServerNext ==
    \/ \E o \in DOMAIN obj : StartCall(o) \/ RefuseCall(o)
    \/ \E t \in DOMAIN task : Handle(t) \/ EvalStep(t)

Next ==
    \/ Receive
    \/ \E t \in DOMAIN task : ClientReturn(t)
    \/ ServerNext

Spec == Init /\ [][Next]_vars

\* The connection, the goroutines and the client's callbacks go on as long as
\* any of them can.
FairSpec == Spec /\ WF_vars(Next)

-----------------------------------------------------------------------------
(* Properties *)

Answered(q) == <<q>> \in DOMAIN task /\ task[<<q>>].state = "done"

TaskStates == {"queued", "started", "evaluating", "done"}

\* Type invariant of the server's state.
TypeOK ==
    /\ script \in Scripts
    /\ received \in 0 .. Len(script)
    /\ DOMAIN obj = 0 .. Len(script) /\ DOMAIN queue = 0 .. Len(script)
    /\ \A o \in DOMAIN queue : \A i \in 1 .. Len(queue[o]) : queue[o][i] \in DOMAIN task
    /\ \A t \in DOMAIN task :
          /\ t[1] \in 1 .. received
          /\ task[t].state \in TaskStates
          /\ task[t].acked \in BOOLEAN
          /\ task[t].state = "evaluating" => task[t].stack # <<>>

\* A question's object exists exactly when the question is answered, so a call
\* pipelined on it neither runs early nor waits for ever.
ResolvedWhenAnswered ==
    \A q \in Questions : obj[q] # Unresolved <=> Answered(q)

\* A call that evaluate made is there only while the goroutine that made it waits
\* for it: no goroutine returns leaving a call behind, and no result is taken for
\* that of another call.
CallsHaveCallers ==
    \A t \in DOMAIN task :
        Len(t) > 1 =>
            LET caller == SubSeq(t, 1, Len(t) - 1)
            IN  /\ caller \in DOMAIN task
                /\ task[caller].state = "evaluating"
                /\ Expr(caller).which \in {"previousResult", "call"}
                /\ Expr(caller).on = task[t].on

\* A call that has not started waits in the queue of the object it is made on, in
\* one place: no call on an object that is not there yet is lost, and none is run
\* twice.
CallsWaitOnce ==
    \A o \in DOMAIN queue :
        /\ \A t \in DOMAIN task :
              task[t].state = "queued" /\ task[t].on.host = "server" /\ task[t].on.id = o
                <=> \E i \in 1 .. Len(queue[o]) : queue[o][i] = t
        /\ \A i, j \in 1 .. Len(queue[o]) : queue[o][i] = queue[o][j] => i = j

\* A question is answered once: neither its result nor the object it made, on which
\* other calls may be under way, changes afterwards.
AnswersFinal ==
    [][\A q \in Questions :
         Answered(q) => /\ Answered(q)'
                        /\ task'[<<q>>].result = task[<<q>>].result
                        /\ obj'[q] = obj[q]]_vars

\* Whatever the client's functions wait for among its other questions, every
\* question is answered: evaluate and defined functions let later calls in before
\* they call out.
EveryQuestionAnswered == <>(\A q \in Questions : Answered(q))

=============================================================================
