-------------------------- MODULE CalculatorSession --------------------------
(***************************************************************************)
(* A client program and the calculator at the two ends of a connection.    *)
(* The connection keeps messages whole and in order in each direction,     *)
(* which is what MessageChannel promises and TCPTransport implements.      *)
(*                                                                         *)
(* The client is one JavaScript thread: what it does between two awaits is *)
(* one step, and so is its handling of one message.                        *)
(***************************************************************************)
EXTENDS CalculatorMeaning, FiniteSets

CONSTANT Programs       \* the programs a client may run

\* A program has made the calls it awaits the answers of, and the answers it expects
\* are those the questions mean.
ASSUME ProgramsAssumption ==
    \A p \in Programs :
        /\ Len(p.awaits) \in Nat \ {0}
        /\ \A i \in 1 .. Len(p.awaits) :
              /\ p.awaits[i].sent \in 0 .. Len(p.calls)
              /\ p.awaits[i].q \in 1 .. Len(p.calls)
              /\ AnswerOf(p.calls, p.awaits[i].q) = Ok(p.awaits[i].value)

\* The functions of these clients answer without asking anything.
ASSUME AwaitsAssumption == Awaits = {}

VARIABLES program,      \* the one it runs
          status,       \* "running", "done" (process.exit) or "failed"
          step,         \* the await it has come to
          sent,         \* how many of its calls are sent
          got,          \* the results it has, by question
          c2s, s2c,     \* messages under way to the server, to the client
          turned,       \* a message reached the client after it last sent one
          trips         \* the round trips: sends that follow a receipt

clientVars == <<program, status, step, sent, got>>
netVars == <<c2s, s2c, turned, trips>>
sessionVars == <<vars, clientVars, netVars>>

Question(q) == [type |-> "call", id |-> q]
Answer(t, res) == [type |-> "return", id |-> t, result |-> res]
CallOut(t, req) == [type |-> "call", id |-> t, on |-> req.on.id, call |-> req.call]

SessionInit ==
    /\ program \in Programs
    /\ status = "running"
    /\ step = 1
    /\ sent = 0
    /\ got = [q \in {} |-> Error]
    /\ c2s = <<>> /\ s2c = <<>>
    /\ turned = TRUE
    /\ trips = 0
    /\ script = program.calls
    /\ Init

-----------------------------------------------------------------------------
(* The client *)

\* The client sends: a new round trip if it has heard from the server since.
ClientSends(messages) ==
    /\ c2s' = c2s \o messages
    /\ turned' = FALSE
    /\ trips' = IF turned THEN trips + 1 ELSE trips

BurstBackwards(first, last) == [i \in 1 .. last - first + 1 |-> Question(last - i + 1)]

\* The questions of this stretch, sent as they are asked.
Burst(first, last) == [i \in 1 .. last - first + 1 |-> Question(first + i - 1)]

\* The client runs to its next await.
ClientRun ==
    /\ status = "running"
    /\ sent < program.awaits[step].sent
    /\ sent' = program.awaits[step].sent
    /\ ClientSends(Burst(sent + 1, program.awaits[step].sent))
    /\ UNCHANGED <<vars, program, status, step, got, s2c>>

\* What it waits for is there, and it asserts what it should be (assertEq; a
\* question that failed throws too).  After the last one it exits.
assertEq ==
    /\ status = "running"
    /\ LET await == program.awaits[step]
       IN  /\ sent >= await.sent
           /\ await.q \in DOMAIN got
           /\ IF got[await.q] = Ok(await.value)
              THEN /\ step' = step + 1
                   /\ status' = IF step = Len(program.awaits) THEN "done" ELSE status
              ELSE /\ status' = "failed"
                   /\ UNCHANGED step
    /\ UNCHANGED <<vars, program, sent, got, netVars>>

\* A message reaches the client: the answer to a question, or a call of a
\* function of its own, which it answers.
ReceiveAnswer ==
    /\ Head(s2c).type = "return"
    /\ got' = Put(got, Head(s2c).id, Head(s2c).result)
    /\ turned' = TRUE
    /\ UNCHANGED <<c2s, trips>>

ReceiveCallUnanswered ==
    /\ Head(s2c).type = "call"
    /\ turned' = TRUE
    /\ UNCHANGED <<got, c2s, trips>>

ReceiveCall ==
    /\ Head(s2c).type = "call"
    /\ c2s' = Append(c2s, Answer(Head(s2c).id, ClientAnswer(Head(s2c).on, Head(s2c).call)))
    /\ turned' = FALSE
    /\ trips' = trips + 1
    /\ UNCHANGED got

ClientReceive ==
    /\ status = "running"
    /\ s2c # <<>>
    /\ s2c' = Tail(s2c)
    /\ ReceiveAnswer \/ ReceiveCall
    /\ UNCHANGED <<vars, program, status, step, sent>>

-----------------------------------------------------------------------------
(* The server's end of the connection *)

\* A message reaches the server: the next question, or what a function of the
\* client answers.
ServerReceive ==
    /\ status = "running"
    /\ c2s # <<>>
    /\ c2s' = Tail(c2s)
    /\ \/ /\ Head(c2s).type = "call"
          /\ received' = received + 1
          /\ Deliver(<<Head(c2s).id>>, script[Head(c2s).id])
          /\ UNCHANGED <<script, obj>>
       \/ /\ Head(c2s).type = "return"
          /\ Return(task, Head(c2s).id, Head(c2s).result, Failed)
          /\ UNCHANGED queue
    /\ UNCHANGED <<clientVars, s2c, turned, trips>>

\* What a step of the server sends: the answer to the question it returned from,
\* or the call it made of a function of the client.
Returned(t) ==
    /\ Len(t) = 1 /\ task'[t].state = "done"
    /\ ~(t \in DOMAIN task /\ task[t].state = "done")

CalledOut(t) == t \notin DOMAIN task /\ task'[t].on.host = "client"

ServerSends ==
    s2c' = IF \E t \in DOMAIN task' : Returned(t) \/ CalledOut(t)
           THEN LET t == CHOOSE t \in DOMAIN task' : Returned(t) \/ CalledOut(t)
                IN  Append(s2c, IF Returned(t) THEN Answer(t[1], task'[t].result)
                                ELSE CallOut(t, task'[t]))
           ELSE s2c

\* The goroutines.
ServerRun ==
    /\ status = "running"
    /\ ServerNext
    /\ ServerSends
    /\ UNCHANGED <<clientVars, c2s, turned, trips>>

SessionNext ==
    \/ ClientRun \/ assertEq \/ ClientReceive
    \/ ServerReceive \/ ServerRun

SessionSpec == SessionInit /\ [][SessionNext]_sessionVars

\* The connection stands, and neither end stops while it has something to do.
SessionFairSpec == SessionSpec /\ WF_sessionVars(SessionNext)

-----------------------------------------------------------------------------
(* Properties *)

\* No assertion of the program fails, whatever order the calls are evaluated and
\* answered in.
AssertionsHold == status # "failed"

\* Pipelining costs no program more round trips than it waits for: however slowly
\* the server resolves the objects that calls are made on, and in whatever order
\* it answers.
RoundTripsAsNeeded ==
    /\ trips <= program.needs
    /\ status = "done" => trips = program.needs

\* The awaits that a program comes to with questions it has not sent before.
Stretches(p) ==
    {i \in 1 .. Len(p.awaits) :
        /\ p.awaits[i].sent > 0
        /\ \A j \in 1 .. i - 1 : p.awaits[j].sent < p.awaits[i].sent}

\* A program none of whose functions is called, that waits after each stretch for
\* one of the questions it sent in it: it needs a round trip for each stretch.
Plain(p) ==
    /\ \A q \in 1 .. Len(p.calls) : p.calls[q].on.host # "client"
    /\ \A ev \in Evaluations(p.calls) :
          ev[1].which \in {"previousResult", "call"} => ev[1].on.host # "client"
    /\ \A i \in Stretches(p) : \A j \in 1 .. i - 1 : p.awaits[j].sent < p.awaits[i].q
    /\ p.needs = Cardinality(Stretches(p))

\* A block takes as many round trips as the comment above it says.
RoundTripsAsDocumented ==
    status = "done" /\ program.says # 0 => trips = program.says

\* Every program comes to its end.
ClientFinishes == <>(status = "done")

\* Seen from the server the session is a client that asks the questions of its
\* script one after the other.
ServesScript == Spec
=============================================================================
