------------------------ MODULE CalculatorServer_proofs ------------------------
(***************************************************************************)
(* Proofs about CalculatorServer, for every script and whatever Divide,    *)
(* ClientCall and Awaits are.  Nothing is assumed of the questions: neither*)
(* that the capabilities in them are those of earlier questions nor that   *)
(* their expressions make sense.                                           *)
(*                                                                         *)
(* Every step is one of two kinds.  It adds a call (Adds), or it moves one *)
(* on (Moves), perhaps forgetting the call that this one waited for.  The  *)
(* invariant is shown to survive the two kinds, and every action to be of  *)
(* one of them.                                                            *)
(*                                                                         *)
(* The meaning of questions, and what is assumed of it, plays a part in    *)
(* the second half only.                                                   *)
(***************************************************************************)
EXTENDS CalculatorMeaning, SequenceTheorems, TLAPS

-------------------------------------------------------------------------------
(* The inductive invariant *)

\* A sequence of anything.
IsSeq(s) == s \in Seq({s[i] : i \in DOMAIN s})

TaskIds == {t \in Seq(Nat) : t # <<>> /\ \A i \in 2 .. Len(t) : t[i] = 1}

IsTask(r) ==
    /\ r = [on |-> r.on, call |-> r.call, state |-> r.state, acked |-> r.acked,
            stack |-> r.stack, params |-> r.params, result |-> r.result]
    /\ IsSeq(r.stack)

Shapes ==
    /\ Len(script) \in Nat
    /\ obj = [q \in 0 .. Len(script) |-> obj[q]]
    /\ queue \in [0 .. Len(script) -> Seq(TaskIds)]
    /\ task = [t \in DOMAIN task |-> task[t]]
    /\ DOMAIN task \subseteq TaskIds
    /\ \A t \in DOMAIN task : IsTask(task[t])

IInv ==
    /\ TypeOK
    /\ Shapes
    /\ ResolvedWhenAnswered
    /\ CallsHaveCallers
    /\ CallsWaitOnce

-------------------------------------------------------------------------------
(* Sequences and the numbers of calls *)

\* A sequence over some set is a sequence.
LEMMA SeqIsSeq ==
  ASSUME NEW S, NEW s \in Seq(S)
  PROVE  IsSeq(s)
<1>1. /\ Len(s) \in Nat /\ DOMAIN s = 1 .. Len(s)
      /\ s \in [1 .. Len(s) -> S]
  BY LenProperties
<1> DEFINE R == {s[i] : i \in DOMAIN s}
<1>2. s \in [1 .. Len(s) -> R]
  BY <1>1
<1> HIDE DEF R
<1>3. s \in Seq(R)
  BY <1>1, <1>2, SeqDef
<1>4. QED
  BY <1>3 DEF IsSeq, R

\* Entering evaluate from outside, or once more from evaluate, leaves a stack that
\* is not empty, and so does a return from an inner evaluate.
LEMMA OneFrame ==
  ASSUME NEW x
  PROVE  IsSeq(<<x>>) /\ <<x>> # <<>> /\ Len(<<x>>) = 1 /\ Head(<<x>>) = x
<1>1. <<x>> \in Seq({x})
  OBVIOUS
<1>2. IsSeq(<<x>>)
  BY <1>1, SeqIsSeq
<1>3. QED
  BY <1>2

LEMMA PushFrame ==
  ASSUME NEW s, IsSeq(s), NEW x
  PROVE  IsSeq(<<x>> \o s) /\ <<x>> \o s # <<>> /\ Head(<<x>> \o s) = x
<1> DEFINE S == {s[i] : i \in DOMAIN s} \cup {x}
<1>1. s \in Seq(S) /\ <<x>> \in Seq(S)
  <2>1. s \in Seq({s[i] : i \in DOMAIN s})
    BY DEF IsSeq
  <2>2. QED
    BY <2>1, SeqMonotonic
<1>2. <<x>> \o s \in Seq(S) /\ Len(<<x>> \o s) = 1 + Len(s) /\ (<<x>> \o s)[1] = x
  <2> HIDE DEF S
  <2>1. Len(<<x>>) = 1 /\ <<x>>[1] = x /\ Len(s) \in Nat
    BY <1>1, LenProperties
  <2>2. QED
    BY <1>1, <2>1, ConcatProperties
<1>3. Len(s) \in Nat
  BY <1>1, LenProperties
<1>4. <<x>> \o s # <<>>
  BY <1>2, <1>3, EmptySeq
<1>5. IsSeq(<<x>> \o s)
  BY <1>2, SeqIsSeq
<1>6. Head(<<x>> \o s) = x
  <2> HIDE DEF S
  <2> QED  BY <1>2, <1>4, HeadTailProperties
<1>7. QED
  BY <1>4, <1>5, <1>6

LEMMA PopFrame ==
  ASSUME NEW s, IsSeq(s), Len(s) > 1
  PROVE  IsSeq(Tail(Tail(s)))
<1> DEFINE S == {s[i] : i \in DOMAIN s}
<1>1. s \in Seq(S) /\ s # <<>>
  BY EmptySeq DEF IsSeq
<1>2. Tail(s) \in Seq(S) /\ Len(Tail(s)) = Len(s) - 1
  <2> HIDE DEF S
  <2> QED  BY <1>1, HeadTailProperties
<1>3. Tail(s) # <<>>
  <2> HIDE DEF S
  <2>1. Len(s) \in Nat
    BY <1>1, LenProperties
  <2>2. Len(Tail(s)) # 0
    BY <1>2, <2>1
  <2>3. QED
    BY <2>2, EmptySeq
<1>4. Tail(Tail(s)) \in Seq(S)
  <2> HIDE DEF S
  <2> QED  BY <1>2, <1>3, HeadTailProperties
<1>5. QED
  BY <1>4, SeqIsSeq

\* The call that t makes is a call of its own, below t and no other call.
LEMMA ChildFacts ==
  ASSUME NEW t \in TaskIds
  PROVE  /\ Child(t) \in TaskIds
         /\ Len(Child(t)) > 1 /\ Len(t) >= 1 /\ Len(t) \in Nat
         /\ Child(t)[1] = t[1] /\ t[1] \in Nat
         /\ SubSeq(Child(t), 1, Len(Child(t)) - 1) = t
<1>1. t \in Seq(Nat) /\ t # <<>> /\ Len(t) \in Nat /\ Len(t) >= 1
  BY EmptySeq, LenProperties DEF TaskIds
<1>2. /\ Child(t) \in Seq(Nat) /\ Len(Child(t)) = Len(t) + 1
      /\ \A i \in 1 .. Len(t) : Child(t)[i] = t[i]
      /\ Child(t)[Len(t) + 1] = 1
  BY <1>1, AppendProperties DEF Child
<1>3. Child(t) # <<>>
  BY <1>1, <1>2, EmptySeq
<1>4. \A i \in 2 .. Len(Child(t)) : Child(t)[i] = 1
  BY <1>1, <1>2 DEF TaskIds
<1>5. SubSeq(Child(t), 1, Len(Child(t)) - 1) = t
  <2>1. /\ SubSeq(Child(t), 1, Len(t)) \in Seq(Nat)
        /\ Len(SubSeq(Child(t), 1, Len(t))) = Len(t)
        /\ \A i \in 1 .. Len(t) : SubSeq(Child(t), 1, Len(t))[i] = t[i]
    BY <1>1, <1>2, SubSeqProperties
  <2>2. SubSeq(Child(t), 1, Len(t)) = t
    BY <1>1, <2>1, SeqEqual
  <2>3. QED
    BY <1>1, <1>2, <2>2
<1>6. QED
  BY <1>1, <1>2, <1>3, <1>4, <1>5, ElementOfSeq DEF TaskIds

LEMMA CallerFacts ==
  ASSUME NEW u \in TaskIds, Len(u) > 1
  PROVE  /\ SubSeq(u, 1, Len(u) - 1) \in TaskIds
         /\ Child(SubSeq(u, 1, Len(u) - 1)) = u
<1> DEFINE t == SubSeq(u, 1, Len(u) - 1)
<1>1. u \in Seq(Nat) /\ Len(u) \in Nat /\ u[Len(u)] = 1
  BY LenProperties DEF TaskIds
<1>2. /\ t \in Seq(Nat) /\ Len(t) = Len(u) - 1
      /\ \A i \in 1 .. Len(t) : t[i] = u[i]
  BY <1>1, SubSeqProperties
<1> HIDE DEF t
<1>3. t # <<>>
  BY <1>1, <1>2, EmptySeq
<1>4. t \in TaskIds
  <2>1. \A i \in 2 .. Len(u) : u[i] = 1
    BY DEF TaskIds
  <2>2. \A i \in 2 .. Len(t) : i \in 1 .. Len(t) /\ i \in 2 .. Len(u)
    BY <1>1, <1>2
  <2>3. \A i \in 2 .. Len(t) : t[i] = 1
    BY <1>2, <2>1, <2>2
  <2>4. QED
    BY <1>2, <1>3, <2>3 DEF TaskIds
<1>5. /\ Child(t) \in Seq(Nat) /\ Len(Child(t)) = Len(t) + 1
      /\ \A i \in 1 .. Len(t) : Child(t)[i] = t[i]
      /\ Child(t)[Len(t) + 1] = 1
  BY <1>2, AppendProperties DEF Child
<1>6. \A i \in 1 .. Len(u) : Child(t)[i] = u[i]
  <2> TAKE i \in 1 .. Len(u)
  <2>1. i \in 1 .. Len(t) \/ i = Len(u)
    BY <1>1, <1>2
  <2>2. Len(t) + 1 = Len(u)
    BY <1>1, <1>2
  <2>3. QED
    BY <1>1, <1>2, <1>5, <2>1, <2>2
<1>7. Child(t) = u
  BY <1>1, <1>2, <1>5, <1>6, SeqEqual
<1>8. QED
  BY <1>4, <1>7 DEF t

\* The numbers of questions are not the numbers of calls below them.
LEMMA QuestionFacts ==
  ASSUME NEW q \in Nat
  PROVE  /\ <<q>> \in TaskIds /\ Len(<<q>>) = 1 /\ <<q>>[1] = q
         /\ \A t \in TaskIds : Len(t) = 1 => t = <<t[1]>>
         /\ \A t \in TaskIds : Child(t) # <<q>>
<1>1. <<q>> \in TaskIds /\ Len(<<q>>) = 1 /\ <<q>>[1] = q
  BY DEF TaskIds
<1>2. \A t \in TaskIds : Len(t) = 1 => t = <<t[1]>>
  BY SeqEqual DEF TaskIds
<1>3. \A t \in TaskIds : Child(t) # <<q>>
  <2> TAKE t \in TaskIds
  <2>1. Len(Child(t)) > 1
    BY ChildFacts
  <2>2. ~(Len(<<q>>) > 1)
    OBVIOUS
  <2>3. QED
    BY <2>1, <2>2
<1>4. QED
  BY <1>1, <1>2, <1>3

-------------------------------------------------------------------------------
(* The two kinds of step *)

\* CallsHaveCallers, from the caller's side.
CallersWait ==
    \A c \in TaskIds :
        Child(c) \in DOMAIN task =>
            /\ c \in DOMAIN task
            /\ task[c].state = "evaluating"
            /\ Expr(c).which \in {"previousResult", "call"}
            /\ Expr(c).on = task[Child(c)].on

Numbered == DOMAIN task \subseteq TaskIds

LEMMA CallersSame == Numbered => (CallsHaveCallers <=> CallersWait)
<1> SUFFICES ASSUME DOMAIN task \subseteq TaskIds
             PROVE  CallsHaveCallers <=> CallersWait
  BY DEF Numbered
<1>1. ASSUME CallsHaveCallers PROVE CallersWait
  <2> SUFFICES ASSUME NEW c \in TaskIds, Child(c) \in DOMAIN task
               PROVE  /\ c \in DOMAIN task
                      /\ task[c].state = "evaluating"
                      /\ Expr(c).which \in {"previousResult", "call"}
                      /\ Expr(c).on = task[Child(c)].on
    BY DEF CallersWait
  <2>1. Len(Child(c)) > 1 /\ SubSeq(Child(c), 1, Len(Child(c)) - 1) = c
    BY ChildFacts
  <2>2. QED
    BY <1>1, <2>1 DEF CallsHaveCallers
<1>2. ASSUME CallersWait PROVE CallsHaveCallers
  <2> SUFFICES ASSUME NEW t \in DOMAIN task, Len(t) > 1,
                      NEW c, c = SubSeq(t, 1, Len(t) - 1)
               PROVE  /\ c \in DOMAIN task
                      /\ task[c].state = "evaluating"
                      /\ Expr(c).which \in {"previousResult", "call"}
                      /\ Expr(c).on = task[t].on
    BY DEF CallsHaveCallers
  <2>1. c \in TaskIds /\ Child(c) = t
    BY CallerFacts
  <2>2. QED
    BY <1>2, <2>1 DEF CallersWait
<1>3. QED
  BY <1>1, <1>2

LEMMA CallersSameNext == Numbered' => (CallsHaveCallers' <=> CallersWait')
  BY CallersSame, PTL

\* A call is added with the number k.
Adds(k, req) ==
    /\ k \in TaskIds /\ k \notin DOMAIN task
    /\ Deliver(k, req)
    /\ UNCHANGED <<script, obj>>

\* Call t goes on, with the task r in the place of task[t]; of all others only the
\* one it waited for may be forgotten.
Moves(t, r, D) ==
    /\ t \in D /\ D \subseteq DOMAIN task /\ Child(t) \notin D
    /\ \A x \in DOMAIN task : x \notin D => x = Child(t) /\ task[x].state = "done"
    /\ task' = [x \in D |-> IF x = t THEN r ELSE task[x]]
    /\ IsTask(r) /\ r.on = task[t].on /\ r.call = task[t].call
    /\ r.acked \in BOOLEAN
    /\ r.state \in {"started", "evaluating", "done"}
    /\ r.state = "evaluating" => r.stack # <<>>
    /\ task[t].state # "done"
    /\ UNCHANGED <<script, received>>

\* It is the first in a queue, or it is in none.
Leaves(t) ==
    \/ \E o \in DOMAIN queue :
          /\ queue[o] # <<>> /\ t = Head(queue[o])
          /\ queue' = [queue EXCEPT ![o] = Tail(@)]
    \/ /\ task[t].state # "queued" \/ task[t].on.host # "server"
       /\ UNCHANGED queue

\* A question that is answered resolves to an object.
Resolves(t, r) ==
    IF Len(t) = 1 /\ r.state = "done"
    THEN \E object : object # Unresolved /\ obj' = [obj EXCEPT ![t[1]] = object]
    ELSE UNCHANGED obj

\* The client asks, or evaluate calls.
Asks(k, req) ==
    \/ k = <<received + 1>> /\ received' = received + 1 /\ received < Len(script)
    \/ /\ UNCHANGED received
       /\ \E t \in DOMAIN task :
             /\ k = Child(t) /\ task[t].state = "evaluating"
             /\ Expr(t).which \in {"previousResult", "call"}
             /\ Expr(t).on = req.on

-------------------------------------------------------------------------------
(* Adding a call keeps the invariant *)

LEMMA AddsTask ==
  ASSUME IInv, NEW k, NEW req, Adds(k, req)
  PROVE  /\ DOMAIN task' = DOMAIN task \cup {k}
         /\ task' = [t \in DOMAIN task' |-> task'[t]]
         /\ task'[k] = NewTask(req)
         /\ \A t \in DOMAIN task : t # k /\ task'[t] = task[t]
  BY DEF Adds, Deliver, Put

LEMMA NewTaskIsTask ==
  ASSUME NEW req
  PROVE  /\ IsTask(NewTask(req)) /\ NewTask(req).state = "queued"
         /\ NewTask(req).acked = FALSE /\ NewTask(req).on = req.on
<1>1. IsSeq(<<>>)
  <2>1. <<>> \in Seq({})
    OBVIOUS
  <2>2. QED
    BY <2>1, SeqIsSeq
<1>2. QED
  BY <1>1 DEF NewTask, IsTask

LEMMA AddsQueue ==
  ASSUME IInv, NEW k, NEW req, Adds(k, req)
  PROVE  /\ queue' \in [0 .. Len(script) -> Seq(TaskIds)]
         /\ \A o \in DOMAIN queue :
               IF req.on.host = "server" /\ req.on.id = o
               THEN queue'[o] = Append(queue[o], k)
               ELSE queue'[o] = queue[o]
<1>1. queue \in [0 .. Len(script) -> Seq(TaskIds)] /\ k \in TaskIds
  BY DEF IInv, Shapes, Adds
<1>2. \A o \in 0 .. Len(script) : Append(queue[o], k) \in Seq(TaskIds)
  BY <1>1, AppendProperties
<1>3. QED
  BY <1>1, <1>2 DEF Adds, Deliver

LEMMA AddsKeepsQueues ==
  ASSUME IInv, NEW k, NEW req, Adds(k, req)
  PROVE  /\ CallsWaitOnce'
         /\ \A o \in DOMAIN queue' : \A i \in 1 .. Len(queue'[o]) :
               queue'[o][i] \in DOMAIN task'
<1>1. /\ DOMAIN queue' = DOMAIN queue
      /\ k \notin DOMAIN task
  BY AddsQueue DEF Adds, IInv, Shapes
<1> SUFFICES ASSUME NEW o \in DOMAIN queue
             PROVE  /\ \A t \in DOMAIN task' :
                          task'[t].state = "queued" /\ task'[t].on.host = "server"
                          /\ task'[t].on.id = o
                            <=> \E i \in 1 .. Len(queue'[o]) : queue'[o][i] = t
                    /\ \A i, j \in 1 .. Len(queue'[o]) :
                          queue'[o][i] = queue'[o][j] => i = j
                    /\ \A i \in 1 .. Len(queue'[o]) : queue'[o][i] \in DOMAIN task'
  BY <1>1 DEF CallsWaitOnce
<1>2. /\ queue[o] \in Seq(TaskIds) /\ Len(queue[o]) \in Nat
      /\ \A i \in 1 .. Len(queue[o]) : queue[o][i] \in DOMAIN task
      /\ \A t \in DOMAIN task :
            task[t].state = "queued" /\ task[t].on.host = "server" /\ task[t].on.id = o
              <=> \E i \in 1 .. Len(queue[o]) : queue[o][i] = t
      /\ \A i, j \in 1 .. Len(queue[o]) : queue[o][i] = queue[o][j] => i = j
  BY LenProperties DEF IInv, Shapes, TypeOK, CallsWaitOnce
<1>3. /\ DOMAIN task' = DOMAIN task \cup {k}
      /\ task'[k].state = "queued" /\ task'[k].on = req.on
      /\ \A t \in DOMAIN task : t # k /\ task'[t] = task[t]
  BY AddsTask, NewTaskIsTask
<1>4. CASE req.on.host = "server" /\ req.on.id = o
  <2>1. queue'[o] = Append(queue[o], k)
    BY <1>4, AddsQueue
  <2>2. /\ Len(queue'[o]) = Len(queue[o]) + 1
        /\ \A i \in 1 .. Len(queue[o]) : queue'[o][i] = queue[o][i]
        /\ queue'[o][Len(queue[o]) + 1] = k
    BY <1>1, <1>2, <2>1, AppendProperties DEF Adds
  <2>3. \A i \in 1 .. Len(queue'[o]) :
           i \in 1 .. Len(queue[o]) \/ i = Len(queue[o]) + 1
    BY <1>2, <2>2
  <2>4. Len(queue[o]) + 1 \in 1 .. Len(queue'[o])
        /\ \A i \in 1 .. Len(queue[o]) : i \in 1 .. Len(queue'[o])
    BY <1>2, <2>2
  <2>5. \A i \in 1 .. Len(queue'[o]) : queue'[o][i] \in DOMAIN task'
    BY <1>2, <1>3, <2>2, <2>3
  <2>6. \A i, j \in 1 .. Len(queue'[o]) : queue'[o][i] = queue'[o][j] => i = j
    BY <1>1, <1>2, <2>2, <2>3
  <2>7. \A t \in DOMAIN task' :
           task'[t].state = "queued" /\ task'[t].on.host = "server"
           /\ task'[t].on.id = o
             <=> \E i \in 1 .. Len(queue'[o]) : queue'[o][i] = t
    <3> TAKE t \in DOMAIN task'
    <3>1. CASE t = k
      BY <1>3, <1>4, <2>2, <2>4, <3>1
    <3>2. CASE t # k
      <4>1. t \in DOMAIN task /\ task'[t] = task[t]
        BY <1>3, <3>2
      <4>2. (\E i \in 1 .. Len(queue'[o]) : queue'[o][i] = t)
              <=> \E i \in 1 .. Len(queue[o]) : queue[o][i] = t
        BY <2>2, <2>3, <2>4, <3>2
      <4>3. QED
        BY <1>2, <4>1, <4>2
    <3>3. QED
      BY <3>1, <3>2
  <2>8. QED
    BY <2>5, <2>6, <2>7
<1>5. CASE ~(req.on.host = "server" /\ req.on.id = o)
  <2>1. queue'[o] = queue[o]
    BY <1>5, AddsQueue
  <2>2. \A i \in 1 .. Len(queue[o]) : queue[o][i] # k
    BY <1>1, <1>2
  <2>3. \A t \in DOMAIN task' :
           task'[t].state = "queued" /\ task'[t].on.host = "server"
           /\ task'[t].on.id = o
             <=> \E i \in 1 .. Len(queue[o]) : queue[o][i] = t
    <3> TAKE t \in DOMAIN task'
    <3>1. CASE t = k
      BY <1>3, <1>5, <2>2, <3>1
    <3>2. CASE t # k
      BY <1>2, <1>3, <3>2
    <3>3. QED
      BY <3>1, <3>2
  <2>4. QED
    BY <1>2, <1>3, <2>1, <2>3
<1>6. QED
  BY <1>4, <1>5

LEMMA AddsKeeps ==
  ASSUME IInv, NEW k, NEW req, Adds(k, req), Asks(k, req)
  PROVE  IInv'
<1>1. /\ DOMAIN task' = DOMAIN task \cup {k}
      /\ task' = [t \in DOMAIN task' |-> task'[t]]
      /\ task'[k] = NewTask(req)
      /\ \A t \in DOMAIN task : t # k /\ task'[t] = task[t]
  BY AddsTask
<1>2. /\ k \in TaskIds /\ k \notin DOMAIN task
      /\ script' = script /\ obj' = obj
  BY DEF Adds
<1>3. /\ received \in 0 .. Len(script) /\ Len(script) \in Nat
      /\ DOMAIN task \subseteq TaskIds
      /\ \A t \in DOMAIN task : t[1] \in 1 .. received
  BY DEF IInv, TypeOK, Shapes
<1>4. /\ received' \in 0 .. Len(script) /\ received <= received'
      /\ k[1] \in 1 .. received'
  <2>1. CASE k = <<received + 1>> /\ received' = received + 1 /\ received < Len(script)
    BY <1>3, <2>1
  <2>2. ASSUME NEW t \in DOMAIN task, k = Child(t), received' = received
        PROVE  received' \in 0 .. Len(script) /\ received <= received'
               /\ k[1] \in 1 .. received'
    <3>1. k[1] = t[1]
      BY <1>3, <2>2, ChildFacts
    <3>2. QED
      BY <1>3, <2>2, <3>1
  <2>3. QED
    BY <2>1, <2>2 DEF Asks
<1>5. Shapes'
  <2>1. \A t \in DOMAIN task' : IsTask(task'[t])
    BY <1>1, NewTaskIsTask DEF IInv, Shapes
  <2>2. DOMAIN task' \subseteq TaskIds
    BY <1>1, <1>2, <1>3
  <2>3. obj' = [q \in 0 .. Len(script') |-> obj'[q]]
    BY <1>2 DEF IInv, Shapes
  <2>4. QED
    BY <1>1, <1>2, <1>3, <2>1, <2>2, <2>3, AddsQueue DEF Shapes
<1>6. TypeOK'
  <2>1. \A t \in DOMAIN task' :
           /\ t[1] \in 1 .. received'
           /\ task'[t].state \in TaskStates
           /\ task'[t].acked \in BOOLEAN
           /\ task'[t].state = "evaluating" => task'[t].stack # <<>>
    <3> TAKE t \in DOMAIN task'
    <3>1. CASE t = k
      BY <1>1, <1>4, <3>1, NewTaskIsTask DEF TaskStates
    <3>2. CASE t # k
      <4>1. t \in DOMAIN task /\ task'[t] = task[t]
        BY <1>1, <3>2
      <4>2. t[1] \in 1 .. received'
        BY <1>3, <1>4, <4>1
      <4>3. QED
        BY <4>1, <4>2 DEF IInv, TypeOK
    <3>3. QED
      BY <3>1, <3>2
  <2>2. DOMAIN obj' = 0 .. Len(script') /\ DOMAIN queue' = 0 .. Len(script')
    BY <1>2, AddsQueue DEF IInv, TypeOK
  <2>3. script' \in Scripts /\ received' \in 0 .. Len(script')
    BY <1>2, <1>4 DEF IInv, TypeOK
  <2>4. QED
    BY <2>1, <2>2, <2>3, AddsKeepsQueues DEF TypeOK
<1>7. ResolvedWhenAnswered'
  <2> SUFFICES ASSUME NEW q \in 1 .. Len(script)
               PROVE  obj[q] # Unresolved <=>
                        <<q>> \in DOMAIN task' /\ task'[<<q>>].state = "done"
    BY <1>2 DEF ResolvedWhenAnswered, Answered, Questions
  <2>1. obj[q] # Unresolved <=> <<q>> \in DOMAIN task /\ task[<<q>>].state = "done"
    BY DEF IInv, ResolvedWhenAnswered, Answered, Questions
  <2>2. CASE <<q>> = k
    BY <1>1, <1>2, <2>1, <2>2, NewTaskIsTask
  <2>3. CASE <<q>> # k
    BY <1>1, <2>1, <2>3
  <2>4. QED
    BY <2>2, <2>3
<1>8. CallersWait'
  <2> SUFFICES ASSUME NEW c \in TaskIds, Child(c) \in DOMAIN task'
               PROVE  /\ c \in DOMAIN task'
                      /\ task'[c].state = "evaluating"
                      /\ Head(task'[c].stack).expr.which \in {"previousResult", "call"}
                      /\ Head(task'[c].stack).expr.on = task'[Child(c)].on
    BY DEF CallersWait, Expr
  <2>1. CASE Child(c) \in DOMAIN task
    <3>1. CallersWait
      BY <1>3, CallersSame DEF IInv, Numbered
    <3>2. QED
      BY <1>1, <2>1, <3>1 DEF CallersWait, Expr
  <2>2. CASE Child(c) = k
    <3>1. k # <<received + 1>>
      BY <1>3, <2>2, QuestionFacts
    <3>2. PICK t \in DOMAIN task :
             /\ k = Child(t) /\ task[t].state = "evaluating"
             /\ Expr(t).which \in {"previousResult", "call"}
             /\ Expr(t).on = req.on
      BY <3>1 DEF Asks
    <3>3. t = c
      <4>1. t \in TaskIds /\ Child(t) = Child(c)
        BY <1>3, <2>2, <3>2
      <4>2. SubSeq(Child(t), 1, Len(Child(t)) - 1) = t
        BY <4>1, ChildFacts
      <4>3. SubSeq(Child(c), 1, Len(Child(c)) - 1) = c
        BY ChildFacts
      <4>4. QED
        BY <4>1, <4>2, <4>3
    <3>4. c \in DOMAIN task /\ task'[c] = task[c]
      BY <1>1, <3>2, <3>3
    <3>5. task'[Child(c)].on = req.on
      BY <1>1, <2>2, NewTaskIsTask
    <3>6. QED
      BY <1>1, <3>2, <3>3, <3>4, <3>5 DEF Expr
  <2>3. QED
    BY <1>1, <2>1, <2>2
<1>9. CallsHaveCallers'
  BY <1>5, <1>8, CallersSameNext DEF Shapes, Numbered
<1>10. QED
  BY <1>5, <1>6, <1>7, <1>9, AddsKeepsQueues DEF IInv

-------------------------------------------------------------------------------
(* Moving a call on keeps the invariant *)

LEMMA MovesTask ==
  ASSUME IInv, NEW t, NEW r, NEW D, Moves(t, r, D)
  PROVE  /\ DOMAIN task' = D /\ D \subseteq DOMAIN task /\ t \in D
         /\ task' = [x \in DOMAIN task' |-> task'[x]]
         /\ task'[t] = r
         /\ \A x \in D : x # t => task'[x] = task[x]
  BY DEF Moves

\* The queue of an object holds, once each, the calls on it that waited before the
\* step and are not t.
HoldsAllBut(t, o) ==
    /\ DOMAIN queue' = DOMAIN queue
    /\ queue'[o] \in Seq(TaskIds)
    /\ \A i \in 1 .. Len(queue'[o]) : queue'[o][i] \in DOMAIN task
    /\ \A i, j \in 1 .. Len(queue'[o]) : queue'[o][i] = queue'[o][j] => i = j
    /\ \A x \in DOMAIN task :
          (\E i \in 1 .. Len(queue'[o]) : queue'[o][i] = x)
            <=> /\ task[x].state = "queued" /\ task[x].on.host = "server"
                /\ task[x].on.id = o
                /\ x # t

LEMMA LeavesQueue ==
  ASSUME IInv, NEW t, Leaves(t), NEW o \in DOMAIN queue
  PROVE  HoldsAllBut(t, o)
<1>1. /\ queue \in [0 .. Len(script) -> Seq(TaskIds)]
      /\ \A p \in DOMAIN queue : \A i \in 1 .. Len(queue[p]) : queue[p][i] \in DOMAIN task
  BY DEF IInv, Shapes, TypeOK
<1>2. /\ \A p \in DOMAIN queue : \A x \in DOMAIN task :
            task[x].state = "queued" /\ task[x].on.host = "server" /\ task[x].on.id = p
              <=> \E i \in 1 .. Len(queue[p]) : queue[p][i] = x
      /\ \A p \in DOMAIN queue : \A i, j \in 1 .. Len(queue[p]) :
            queue[p][i] = queue[p][j] => i = j
  BY DEF IInv, CallsWaitOnce
<1>3. ASSUME NEW p \in DOMAIN queue, queue[p] # <<>>, t = Head(queue[p]),
             queue' = [queue EXCEPT ![p] = Tail(@)]
      PROVE  HoldsAllBut(t, o)
  <2>1. /\ queue[p] \in Seq(TaskIds) /\ Len(queue[p]) \in Nat /\ Len(queue[p]) >= 1
        /\ t = queue[p][1]
        /\ Tail(queue[p]) \in Seq(TaskIds) /\ Len(Tail(queue[p])) = Len(queue[p]) - 1
        /\ \A i \in 1 .. Len(Tail(queue[p])) : Tail(queue[p])[i] = queue[p][i + 1]
    <3>1. queue[p] \in Seq(TaskIds) /\ queue[p] # <<>>
      BY <1>1, <1>3
    <3>2. Len(queue[p]) \in Nat /\ Len(queue[p]) >= 1
      BY <3>1, LenProperties, EmptySeq
    <3>3. /\ Tail(queue[p]) \in Seq(TaskIds) /\ Len(Tail(queue[p])) = Len(queue[p]) - 1
          /\ \A i \in 1 .. Len(Tail(queue[p])) : Tail(queue[p])[i] = queue[p][i + 1]
      BY <3>1, HeadTailProperties
    <3>4. t = queue[p][1]
      BY <3>1, <1>3
    <3>5. QED
      BY <3>1, <3>2, <3>3, <3>4
  <2>2. task[t].on.id = p /\ t \in DOMAIN task
    BY <1>1, <1>2, <2>1
  <2>3. CASE o # p
    <3>1. queue'[o] = queue[o] /\ DOMAIN queue' = DOMAIN queue
      BY <1>1, <1>3, <2>3
    <3>2. \A i \in 1 .. Len(queue[o]) : queue[o][i] # t
      BY <1>1, <1>2, <2>2, <2>3
    <3>3. \A x \in DOMAIN task :
            (\E i \in 1 .. Len(queue[o]) : queue[o][i] = x)
              <=> /\ task[x].state = "queued" /\ task[x].on.host = "server"
                  /\ task[x].on.id = o
                  /\ x # t
      BY <1>2, <3>2
    <3>4. QED
      BY <1>1, <1>2, <3>1, <3>3 DEF HoldsAllBut
  <2>4. CASE o = p
    <3>1. queue'[o] = Tail(queue[o]) /\ DOMAIN queue' = DOMAIN queue
      BY <1>1, <1>3, <2>4
    <3>2. \A i \in 1 .. Len(Tail(queue[o])) :
             i + 1 \in 1 .. Len(queue[o]) /\ i + 1 # 1 /\ Tail(queue[o])[i] = queue[o][i + 1]
      BY <2>1, <2>4
    <3>3. \A i \in 1 .. Len(queue[o]) :
             i = 1 \/ (i - 1 \in 1 .. Len(Tail(queue[o])) /\ Tail(queue[o])[i - 1] = queue[o][i])
      BY <2>1, <2>4
    <3>4. \A i \in 1 .. Len(Tail(queue[o])) : Tail(queue[o])[i] \in DOMAIN task
      BY <1>1, <3>2
    <3>5. 1 \in 1 .. Len(queue[o]) /\ queue[o][1] = t
      BY <2>1, <2>4
    <3>6. \A i \in 1 .. Len(Tail(queue[o])) : Tail(queue[o])[i] # t
      BY <1>2, <3>2, <3>5
    <3>7. \A i, j \in 1 .. Len(Tail(queue[o])) :
             Tail(queue[o])[i] = Tail(queue[o])[j] => i = j
      <4> TAKE i, j \in 1 .. Len(Tail(queue[o]))
      <4> HAVE Tail(queue[o])[i] = Tail(queue[o])[j]
      <4>1. i + 1 = j + 1
        BY <1>2, <3>2
      <4>2. QED
        BY <4>1, <2>1
    <3>8. \A x \in DOMAIN task :
            (\E i \in 1 .. Len(Tail(queue[o])) : Tail(queue[o])[i] = x)
              <=> /\ task[x].state = "queued" /\ task[x].on.host = "server"
                  /\ task[x].on.id = o
                  /\ x # t
      <4> TAKE x \in DOMAIN task
      <4>1. (\E i \in 1 .. Len(queue[o]) : queue[o][i] = x)
              <=> /\ task[x].state = "queued" /\ task[x].on.host = "server"
                  /\ task[x].on.id = o
        BY <1>2
      <4>2. (\E i \in 1 .. Len(Tail(queue[o])) : Tail(queue[o])[i] = x)
              => \E i \in 1 .. Len(queue[o]) : queue[o][i] = x
        BY <3>2
      <4>3. x # t /\ (\E i \in 1 .. Len(queue[o]) : queue[o][i] = x)
              => \E i \in 1 .. Len(Tail(queue[o])) : Tail(queue[o])[i] = x
        BY <3>3, <3>5
      <4>4. QED
        BY <3>6, <4>1, <4>2, <4>3
    <3>9. QED
      BY <2>1, <2>4, <3>1, <3>4, <3>7, <3>8 DEF HoldsAllBut
  <2>5. QED
    BY <2>3, <2>4
<1>4. CASE (task[t].state # "queued" \/ task[t].on.host # "server") /\ queue' = queue
  <2>1. \A x \in DOMAIN task :
          (\E i \in 1 .. Len(queue[o]) : queue[o][i] = x)
            <=> /\ task[x].state = "queued" /\ task[x].on.host = "server"
                /\ task[x].on.id = o
                /\ x # t
    BY <1>2, <1>4
  <2>2. QED
    BY <1>1, <1>2, <1>4, <2>1 DEF HoldsAllBut
<1>5. QED
  BY <1>3, <1>4 DEF Leaves

LEMMA MovesKeepsQueues ==
  ASSUME IInv, NEW t, NEW r, NEW D, Moves(t, r, D), Leaves(t)
  PROVE  /\ CallsWaitOnce'
         /\ queue' \in [0 .. Len(script) -> Seq(TaskIds)]
         /\ \A o \in DOMAIN queue' : \A i \in 1 .. Len(queue'[o]) :
               queue'[o][i] \in DOMAIN task'
<1>1. \A o \in DOMAIN queue : HoldsAllBut(t, o)
  BY LeavesQueue
<1>2. /\ DOMAIN queue = 0 .. Len(script) /\ DOMAIN queue' = DOMAIN queue
      /\ queue' \in [0 .. Len(script) -> Seq(TaskIds)]
  <2>1. DOMAIN queue = 0 .. Len(script) /\ queue \in [0 .. Len(script) -> Seq(TaskIds)]
    BY DEF IInv, Shapes
  <2>2. queue' = [o \in 0 .. Len(script) |-> queue'[o]]
    BY <2>1 DEF Leaves
  <2>3. QED
    BY <1>1, <2>1, <2>2 DEF HoldsAllBut
<1>3. /\ DOMAIN task' = D /\ D \subseteq DOMAIN task /\ t \in D /\ task'[t] = r
      /\ \A x \in D : x # t => task'[x] = task[x]
      /\ r.state # "queued"
      /\ \A x \in DOMAIN task : x \notin D => task[x].state = "done"
  BY MovesTask DEF Moves
<1>4. ASSUME NEW o \in DOMAIN queue
      PROVE  /\ \A x \in DOMAIN task' :
                   task'[x].state = "queued" /\ task'[x].on.host = "server"
                   /\ task'[x].on.id = o
                     <=> \E i \in 1 .. Len(queue'[o]) : queue'[o][i] = x
             /\ \A i, j \in 1 .. Len(queue'[o]) : queue'[o][i] = queue'[o][j] => i = j
             /\ \A i \in 1 .. Len(queue'[o]) : queue'[o][i] \in DOMAIN task'
  <2>1. HoldsAllBut(t, o)
    BY <1>1
  <2>2. \A x \in D :
          task'[x].state = "queued" /\ task'[x].on.host = "server" /\ task'[x].on.id = o
            <=> \E i \in 1 .. Len(queue'[o]) : queue'[o][i] = x
    BY <1>3, <2>1 DEF HoldsAllBut
  <2>3. \A i \in 1 .. Len(queue'[o]) : queue'[o][i] \in D
    BY <1>3, <2>1 DEF HoldsAllBut
  <2>4. QED
    BY <1>3, <2>1, <2>2, <2>3 DEF HoldsAllBut
<1>5. QED
  BY <1>2, <1>4 DEF CallsWaitOnce

LEMMA MovesKeeps ==
  ASSUME IInv, NEW t, NEW r, NEW D, Moves(t, r, D), Leaves(t), Resolves(t, r)
  PROVE  IInv'
<1>1. /\ DOMAIN task' = D /\ D \subseteq DOMAIN task /\ t \in D
      /\ task' = [x \in DOMAIN task' |-> task'[x]]
      /\ task'[t] = r
      /\ \A x \in D : x # t => task'[x] = task[x]
  BY MovesTask
<1>2. /\ script' = script /\ received' = received
      /\ Len(script) \in Nat /\ DOMAIN task \subseteq TaskIds
      /\ received \in 0 .. Len(script)
      /\ \A x \in DOMAIN task : x[1] \in 1 .. received
      /\ obj = [q \in 0 .. Len(script) |-> obj[q]]
  BY DEF Moves, IInv, Shapes, TypeOK
<1>3. obj' = [q \in 0 .. Len(script) |-> obj'[q]]
  BY <1>2 DEF Resolves
<1>4. Shapes'
  <2>1. \A x \in D : IsTask(task'[x])
    BY <1>1 DEF Moves, IInv, Shapes
  <2>2. QED
    BY <1>1, <1>2, <1>3, <2>1, MovesKeepsQueues DEF Shapes
<1>5. TypeOK'
  <2>1. \A x \in DOMAIN task' :
           /\ x[1] \in 1 .. received'
           /\ task'[x].state \in TaskStates
           /\ task'[x].acked \in BOOLEAN
           /\ task'[x].state = "evaluating" => task'[x].stack # <<>>
    <3> TAKE x \in DOMAIN task'
    <3>1. CASE x = t
      BY <1>1, <1>2, <3>1 DEF Moves, TaskStates
    <3>2. CASE x # t
      BY <1>1, <1>2, <3>2 DEF IInv, TypeOK
    <3>3. QED
      BY <3>1, <3>2
  <2>2. DOMAIN obj' = 0 .. Len(script') /\ DOMAIN queue' = 0 .. Len(script')
    BY <1>2, <1>3, MovesKeepsQueues
  <2>3. script' \in Scripts /\ received' \in 0 .. Len(script')
    BY <1>2 DEF IInv, TypeOK
  <2>4. QED
    BY <2>1, <2>2, <2>3, MovesKeepsQueues DEF TypeOK
<1>6. ResolvedWhenAnswered'
  <2> SUFFICES ASSUME NEW q \in 1 .. Len(script)
               PROVE  obj'[q] # Unresolved <=> <<q>> \in D /\ task'[<<q>>].state = "done"
    BY <1>1, <1>2 DEF ResolvedWhenAnswered, Answered, Questions
  <2>1. obj[q] # Unresolved <=> <<q>> \in DOMAIN task /\ task[<<q>>].state = "done"
    BY DEF IInv, ResolvedWhenAnswered, Answered, Questions
  <2>2. q \in Nat /\ q \in 0 .. Len(script) /\ t \in TaskIds
    BY <1>1, <1>2
  <2>3. CASE <<q>> = t
    <3>1. Len(t) = 1 /\ t[1] = q
      BY <2>2, <2>3, QuestionFacts
    <3>2. CASE r.state = "done"
      <4>1. obj'[q] # Unresolved
        BY <1>2, <2>2, <3>1, <3>2 DEF Resolves
      <4>2. QED
        BY <1>1, <2>3, <3>2, <4>1
    <3>3. CASE r.state # "done"
      <4>1. obj' = obj
        BY <3>3 DEF Resolves
      <4>2. task[t].state # "done"
        BY DEF Moves
      <4>3. QED
        BY <1>1, <2>1, <2>3, <3>3, <4>1, <4>2
    <3>4. QED
      BY <3>2, <3>3
  <2>4. CASE <<q>> # t
    <3>1. Len(t) = 1 => t[1] # q
      BY <2>2, <2>4, QuestionFacts
    <3>2. obj'[q] = obj[q]
      BY <1>2, <2>2, <3>1 DEF Resolves
    <3>3. <<q>> \in D <=> <<q>> \in DOMAIN task
      BY <2>2, QuestionFacts DEF Moves
    <3>4. QED
      BY <1>1, <2>1, <2>4, <3>2, <3>3
  <2>5. QED
    BY <2>3, <2>4
<1>7. CallersWait'
  <2> SUFFICES ASSUME NEW c \in TaskIds, Child(c) \in D
               PROVE  /\ c \in D
                      /\ task'[c].state = "evaluating"
                      /\ Head(task'[c].stack).expr.which \in {"previousResult", "call"}
                      /\ Head(task'[c].stack).expr.on = task'[Child(c)].on
    BY <1>1 DEF CallersWait, Expr
  <2>1. /\ c \in DOMAIN task
        /\ task[c].state = "evaluating"
        /\ Head(task[c].stack).expr.which \in {"previousResult", "call"}
        /\ Head(task[c].stack).expr.on = task[Child(c)].on
    <3>1. CallersWait
      BY <1>2, CallersSame DEF IInv, Numbered
    <3>2. QED
      BY <1>1, <3>1 DEF CallersWait, Expr
  <2>2. c # t /\ c \in D
    BY <2>1 DEF Moves
  <2>3. task'[Child(c)].on = task[Child(c)].on
    BY <1>1 DEF Moves
  <2>4. QED
    BY <1>1, <2>1, <2>2, <2>3
<1>8. CallsHaveCallers'
  BY <1>4, <1>7, CallersSameNext DEF Shapes, Numbered
<1>9. QED
  BY <1>4, <1>5, <1>6, <1>8, MovesKeepsQueues DEF IInv

-------------------------------------------------------------------------------
(* Every step is of one of the two kinds *)

\* The calls D, of those there are, are enough for t to go on.
CanMove(t, D) ==
    /\ t \in D /\ D \subseteq DOMAIN task /\ Child(t) \notin D
    /\ \A x \in DOMAIN task : x \notin D => x = Child(t) /\ task[x].state = "done"
    /\ task[t].state # "done"

LEMMA Alone ==
  ASSUME IInv, NEW t \in DOMAIN task, task[t].state # "done",
         task[t].state = "evaluating" => Child(t) \notin DOMAIN task
  PROVE  CanMove(t, DOMAIN task)
<1>1. t \in TaskIds /\ CallersWait
  BY CallersSame DEF IInv, Shapes, Numbered
<1>2. QED
  BY <1>1 DEF CanMove, CallersWait

\* A call returns.
Returning(t, res) ==
    [on |-> task[t].on, call |-> task[t].call, state |-> "done", acked |-> task[t].acked,
     stack |-> task[t].stack, params |-> task[t].params, result |-> res]

LEMMA ReturnMoves ==
  ASSUME IInv, NEW t, NEW D, CanMove(t, D), NEW ts, ts = [x \in D |-> task[x]],
         NEW res, NEW object, object # Unresolved, Return(ts, t, res, object)
  PROVE  Moves(t, Returning(t, res), D) /\ Resolves(t, Returning(t, res))
<1>1. IsTask(task[t]) /\ task[t].acked \in BOOLEAN
  BY DEF CanMove, IInv, Shapes, TypeOK
<1>2. [ts EXCEPT ![t].state = "done", ![t].result = res]
        = [x \in D |-> IF x = t THEN Returning(t, res) ELSE task[x]]
  <2> DEFINE over == [ts EXCEPT ![t].state = "done"]
             r    == [task[t] EXCEPT !.state = "done"]
  <2>1. over = [x \in D |-> IF x = t THEN r ELSE task[x]]
    BY DEF CanMove
  <2>2. over[t] = r /\ t \in D /\ \A x \in D : x # t => over[x] = task[x]
    BY <2>1 DEF CanMove
  <2>3. r = [on |-> task[t].on, call |-> task[t].call, state |-> "done",
             acked |-> task[t].acked, stack |-> task[t].stack,
             params |-> task[t].params, result |-> task[t].result]
    BY <1>1 DEF IsTask
  <2>4. [r EXCEPT !.result = res] = Returning(t, res)
    <3> HIDE DEF r, over
    <3> QED  BY <2>3 DEF Returning
  <2>5. [over EXCEPT ![t].result = res]
          = [x \in D |-> IF x = t THEN [r EXCEPT !.result = res] ELSE task[x]]
    <3> HIDE DEF r
    <3>1. [over EXCEPT ![t].result = res]
            = [x \in D |-> IF x = t THEN [over[t] EXCEPT !.result = res] ELSE over[x]]
      <4>1. DOMAIN over = D /\ over = [x \in D |-> over[x]]
        BY <2>1
      <4> HIDE DEF over
      <4>2. QED
        BY <2>2, <4>1
    <3> HIDE DEF over
    <3>2. QED
      BY <2>2, <3>1
  <2>6. [ts EXCEPT ![t].state = "done", ![t].result = res]
          = [over EXCEPT ![t].result = res]
    OBVIOUS
  <2>7. QED
    BY <2>4, <2>5, <2>6
<1>3. IsTask(Returning(t, res))
  BY <1>1 DEF IsTask, Returning
<1>4. Moves(t, Returning(t, res), D)
  BY <1>1, <1>2, <1>3 DEF Moves, CanMove, Return, Returning
<1>5. Resolves(t, Returning(t, res))
  BY DEF Resolves, Return, Returning
<1>6. QED
  BY <1>4, <1>5

\* A call goes on evaluating.
GoingOn(t, acked, stack, params) ==
    [on |-> task[t].on, call |-> task[t].call, state |-> "evaluating", acked |-> acked,
     stack |-> stack, params |-> params, result |-> task[t].result]

LEMMA EvaluatesMoves ==
  ASSUME IInv, NEW t, NEW D, CanMove(t, D),
         NEW acked \in BOOLEAN, NEW stack, IsSeq(stack), stack # <<>>, NEW params,
         task' = [x \in D |-> IF x = t THEN GoingOn(t, acked, stack, params)
                              ELSE task[x]],
         UNCHANGED <<script, received, obj>>
  PROVE  /\ Moves(t, GoingOn(t, acked, stack, params), D)
         /\ Resolves(t, GoingOn(t, acked, stack, params))
<1>1. IsTask(GoingOn(t, acked, stack, params))
  BY DEF IsTask, GoingOn
<1>2. QED
  BY <1>1 DEF Moves, CanMove, Resolves, GoingOn

\* The innermost evaluate returns to the one around it.
Passing(t, v) ==
    GoingOn(t, task[t].acked, PassOut(task[t].stack, v), task[t].params)

LEMMA PassMoves ==
  ASSUME IInv, NEW t, NEW D, CanMove(t, D), NEW ts, ts = [x \in D |-> task[x]],
         NEW res, res.ok, Len(task[t].stack) > 1, task[t].state = "evaluating",
         Yield(ts, t, res)
  PROVE  /\ Moves(t, Passing(t, res.value), D) /\ Resolves(t, Passing(t, res.value))
<1> DEFINE stack == PassOut(task[t].stack, res.value)
<1>1. IsTask(task[t]) /\ task[t].acked \in BOOLEAN
  BY DEF CanMove, IInv, Shapes, TypeOK
<1>2. IsSeq(stack) /\ stack # <<>>
  BY <1>1, PopFrame, PushFrame DEF IsTask, PassOut
<1>3. UNCHANGED <<script, received, obj>>
  BY DEF Yield
<1>4. ts[t] = task[t]
  BY DEF CanMove
<1>5. task' = [ts EXCEPT ![t].stack = stack]
  BY <1>4 DEF Yield
<1> HIDE DEF stack
<1>6. task' = [x \in D |->
                 IF x = t THEN GoingOn(t, task[t].acked, stack, task[t].params)
                 ELSE task[x]]
  BY <1>1, <1>5 DEF CanMove, GoingOn, IsTask
<1>7. /\ Moves(t, GoingOn(t, task[t].acked, stack, task[t].params), D)
      /\ Resolves(t, GoingOn(t, task[t].acked, stack, task[t].params))
  BY <1>1, <1>2, <1>3, <1>6, EvaluatesMoves
<1>8. QED
  BY <1>7 DEF Passing, stack

\* It returns to the one around it or for good.
LEMMA YieldMoves ==
  ASSUME IInv, NEW t, NEW D, CanMove(t, D), NEW ts, ts = [x \in D |-> task[x]],
         task[t].state = "evaluating", NEW res, Yield(ts, t, res)
  PROVE  \E r : Moves(t, r, D) /\ Resolves(t, r)
<1>1. CASE res.ok /\ Len(task[t].stack) > 1
  BY <1>1, PassMoves
<1>2. CASE ~(res.ok /\ Len(task[t].stack) > 1)
  <2> DEFINE object == IF res.ok /\ task[t].call.method = "evaluate"
                       THEN valueServer(res.value) ELSE Failed
  <2>1. Return(ts, t, res, object)
    BY <1>2 DEF Yield
  <2>2. object # Unresolved
    BY DEF valueServer, Failed, Unresolved
  <2> HIDE DEF object
  <2>3. QED
    BY <2>1, <2>2, ReturnMoves
<1>3. QED
  BY <1>1, <1>2

\* The two kinds of step, as the lemmas above take them.
AddsOne == \E k, req : Adds(k, req) /\ Asks(k, req)
MovesOne == \E t, r, D : Moves(t, r, D) /\ Leaves(t) /\ Resolves(t, r)

LEMMA ReceiveAdds ==
  ASSUME IInv, Receive
  PROVE  Adds(<<received + 1>>, script[received + 1]) /\ received \in Nat
<1> DEFINE k == <<received + 1>>
<1>1. /\ received \in Nat /\ \A t \in DOMAIN task : t[1] \in 1 .. received
  BY DEF IInv, TypeOK
<1>2. k \in TaskIds /\ k[1] = received + 1
  BY <1>1, QuestionFacts
<1>3. k \notin DOMAIN task
  BY <1>1, <1>2
<1>4. Adds(k, script[received + 1])
  BY <1>2, <1>3 DEF Receive, Adds
<1>5. QED
  BY <1>1, <1>4

LEMMA ReceiveKind ==
  ASSUME IInv, Receive
  PROVE  AddsOne
<1>1. Asks(<<received + 1>>, script[received + 1])
  BY DEF Receive, Asks
<1>2. QED
  BY <1>1, ReceiveAdds DEF AddsOne

LEMMA IssueAdds ==
  ASSUME IInv, NEW t \in DOMAIN task, NEW req, Issue(t, req), Child(t) \notin DOMAIN task
  PROVE  Adds(Child(t), req)
<1>1. Child(t) \in TaskIds
  BY ChildFacts DEF IInv, Shapes
<1>2. QED
  BY <1>1 DEF Issue, Adds

LEMMA IssueKind ==
  ASSUME IInv, NEW t \in DOMAIN task, NEW req, Issue(t, req),
         task[t].state = "evaluating", Child(t) \notin DOMAIN task,
         Expr(t).which \in {"previousResult", "call"}, Expr(t).on = req.on
  PROVE  AddsOne
<1>1. Asks(Child(t), req)
  BY DEF Issue, Asks
<1>2. QED
  BY <1>1, IssueAdds DEF AddsOne

\* The first call in a queue has not started.
LEMMA HeadWaits ==
  ASSUME IInv, NEW o \in DOMAIN obj, queue[o] # <<>>
  PROVE  /\ o \in DOMAIN queue /\ Head(queue[o]) \in DOMAIN task
         /\ task[Head(queue[o])].state = "queued"
         /\ task[Head(queue[o])].on.host = "server" /\ task[Head(queue[o])].on.id = o
<1>1. o \in DOMAIN queue /\ queue[o] \in Seq(TaskIds)
  BY DEF IInv, TypeOK, Shapes
<1>2. Head(queue[o]) = queue[o][1] /\ 1 \in 1 .. Len(queue[o])
  BY <1>1, EmptySeq, LenProperties
<1>3. Head(queue[o]) \in DOMAIN task
  BY <1>1, <1>2 DEF IInv, TypeOK
<1>4. QED
  BY <1>1, <1>2, <1>3 DEF IInv, CallsWaitOnce

\* A call starts.
Starting(t) ==
    [on |-> task[t].on, call |-> task[t].call, state |-> "started", acked |-> task[t].acked,
     stack |-> task[t].stack, params |-> task[t].params, result |-> task[t].result]

LEMMA StartMoves ==
  ASSUME IInv, NEW o \in DOMAIN obj, StartCall(o), NEW h, h = Head(queue[o])
  PROVE  /\ Moves(h, Starting(h), DOMAIN task)
         /\ Resolves(h, Starting(h))
<1>1. o \in DOMAIN queue /\ h \in DOMAIN task /\ task[h].state = "queued"
  BY HeadWaits DEF StartCall
<1>2. IsTask(task[h]) /\ task[h].acked \in BOOLEAN /\ task = [x \in DOMAIN task |-> task[x]]
  BY <1>1 DEF IInv, Shapes, TypeOK
<1>3. CanMove(h, DOMAIN task)
  BY <1>1, Alone
<1>4. task' = [x \in DOMAIN task |-> IF x = h THEN Starting(h) ELSE task[x]]
  <2>1. task' = [task EXCEPT ![h].state = "started"]
    BY DEF StartCall
  <2>2. [task[h] EXCEPT !.state = "started"] = Starting(h)
    BY <1>2 DEF IsTask, Starting
  <2>3. QED
    BY <1>1, <1>2, <2>1, <2>2
<1>5. IsTask(Starting(h))
  BY <1>2 DEF IsTask, Starting
<1>6. Moves(h, Starting(h), DOMAIN task)
  BY <1>2, <1>3, <1>4, <1>5 DEF Moves, CanMove, StartCall, Starting
<1>7. Resolves(h, Starting(h))
  BY DEF Resolves, StartCall, Starting
<1>8. QED
  BY <1>6, <1>7

LEMMA StartCallKind ==
  ASSUME IInv, NEW o \in DOMAIN obj, StartCall(o)
  PROVE  MovesOne
<1>1. o \in DOMAIN queue
  BY HeadWaits DEF StartCall
<1>2. Leaves(Head(queue[o]))
  BY <1>1 DEF Leaves, StartCall
<1>3. QED
  BY <1>2, StartMoves DEF MovesOne

\* A call that is alone returns an answer, or an error.
LEMMA ReturnKind ==
  ASSUME IInv, NEW t \in DOMAIN task, CanMove(t, DOMAIN task), Leaves(t),
         NEW res, NEW object, object # Unresolved, Return(task, t, res, object)
  PROVE  MovesOne
<1>1. task = [x \in DOMAIN task |-> task[x]]
  BY DEF IInv, Shapes
<1>2. QED
  BY <1>1, ReturnMoves DEF MovesOne

LEMMA ReturnErrorKind ==
  ASSUME IInv, NEW t \in DOMAIN task, CanMove(t, DOMAIN task), Leaves(t), ReturnError(t)
  PROVE  MovesOne
<1>1. Failed # Unresolved
  BY DEF Failed, Unresolved
<1>2. QED
  BY <1>1, ReturnKind DEF ReturnError

LEMMA RefuseCallKind ==
  ASSUME IInv, NEW o \in DOMAIN obj, RefuseCall(o)
  PROVE  MovesOne
<1>1. /\ o \in DOMAIN queue /\ Head(queue[o]) \in DOMAIN task
      /\ task[Head(queue[o])].state = "queued"
  BY HeadWaits DEF RefuseCall
<1>2. CanMove(Head(queue[o]), DOMAIN task)
  BY <1>1, Alone
<1>3. Leaves(Head(queue[o]))
  BY <1>1 DEF Leaves, RefuseCall
<1>4. QED
  BY <1>1, <1>2, <1>3, ReturnErrorKind DEF RefuseCall

LEMMA ClientReturnKind ==
  ASSUME IInv, NEW t \in DOMAIN task, ClientReturn(t)
  PROVE  MovesOne
<1>1. CanMove(t, DOMAIN task)
  BY Alone DEF ClientReturn
<1>2. Leaves(t)
  BY DEF Leaves, ClientReturn
<1>3. Failed # Unresolved
  BY DEF Failed, Unresolved
<1>4. QED
  BY <1>1, <1>2, <1>3, ReturnKind DEF ClientReturn

\* The four fields that Begin sets.
Edited(old, state, acked, stack, params) ==
    [old EXCEPT !.state = state, !.acked = acked, !.stack = stack, !.params = params]

Rewritten(old, state, acked, stack, params) ==
    [on |-> old.on, call |-> old.call, state |-> state, acked |-> acked,
     stack |-> stack, params |-> params, result |-> old.result]

LEMMA FourFields ==
  ASSUME NEW old, IsTask(old), NEW state, NEW acked, NEW stack, NEW params
  PROVE  Edited(old, state, acked, stack, params)
           = Rewritten(old, state, acked, stack, params)
<1> DEFINE a == [old EXCEPT !.state = state]
           b == [a EXCEPT !.acked = acked]
           c == [b EXCEPT !.stack = stack]
<1>1. a = [on |-> old.on, call |-> old.call, state |-> state, acked |-> old.acked,
           stack |-> old.stack, params |-> old.params, result |-> old.result]
  BY DEF IsTask
<1> HIDE DEF a
<1>2. b = [on |-> old.on, call |-> old.call, state |-> state, acked |-> acked,
           stack |-> old.stack, params |-> old.params, result |-> old.result]
  BY <1>1
<1> HIDE DEF b
<1>3. c = [on |-> old.on, call |-> old.call, state |-> state, acked |-> acked,
           stack |-> stack, params |-> old.params, result |-> old.result]
  BY <1>2
<1> HIDE DEF c
<1>4. [c EXCEPT !.params = params]
        = [on |-> old.on, call |-> old.call, state |-> state, acked |-> acked,
           stack |-> stack, params |-> params, result |-> old.result]
  BY <1>3
<1>5. QED
  BY <1>4 DEF a, b, c, Edited, Rewritten

\* evaluate starts.
Frame(expr) == [expr |-> expr, vals |-> <<>>]

Beginning(t, acked, expr, params) == GoingOn(t, acked, <<Frame(expr)>>, params)

LEMMA BeginMoves ==
  ASSUME IInv, NEW t \in DOMAIN task, task[t].state = "started",
         NEW expr, NEW params, Begin(t, expr, params)
  PROVE  \E acked \in BOOLEAN :
            /\ Moves(t, Beginning(t, acked, expr, params), DOMAIN task)
            /\ Resolves(t, Beginning(t, acked, expr, params))
<1> DEFINE frame == Frame(expr)
<1>1. IsTask(task[t]) /\ task = [x \in DOMAIN task |-> task[x]]
  BY DEF IInv, Shapes
<1>2. CanMove(t, DOMAIN task)
  BY Alone
<1>3. IsSeq(<<frame>>) /\ <<frame>> # <<>>
  BY OneFrame
<1>4. task' = [task EXCEPT ![t].state = "evaluating", ![t].acked = TRUE,
                           ![t].stack = <<frame>>, ![t].params = params]
      /\ UNCHANGED <<script, received, obj>>
  BY DEF Begin, Frame
<1> HIDE DEF frame
<1>5. task' = [x \in DOMAIN task |->
                 IF x = t THEN GoingOn(t, TRUE, <<frame>>, params) ELSE task[x]]
  <2>1. task' = [x \in DOMAIN task |->
                   IF x = t
                   THEN [task[t] EXCEPT !.state = "evaluating", !.acked = TRUE,
                                        !.stack = <<frame>>, !.params = params]
                   ELSE task[x]]
    BY <1>1, <1>4
  <2>2. [task[t] EXCEPT !.state = "evaluating", !.acked = TRUE,
                        !.stack = <<frame>>, !.params = params]
          = GoingOn(t, TRUE, <<frame>>, params)
    <3>1. \A a : Edited(task[t], "evaluating", a, <<frame>>, params)
                   = Rewritten(task[t], "evaluating", a, <<frame>>, params)
      BY <1>1, FourFields
    <3>2. QED
      BY <3>1, Zenon DEF Edited, Rewritten, GoingOn
  <2>3. QED
    BY <2>1, <2>2
<1>6. /\ Moves(t, GoingOn(t, TRUE, <<frame>>, params), DOMAIN task)
      /\ Resolves(t, GoingOn(t, TRUE, <<frame>>, params))
  BY <1>2, <1>3, <1>4, <1>5, EvaluatesMoves
<1>7. QED
  BY <1>6, Zenon DEF Beginning, frame

LEMMA BeginKind ==
  ASSUME IInv, NEW t \in DOMAIN task, task[t].state = "started",
         NEW expr, NEW params, Begin(t, expr, params), UNCHANGED queue
  PROVE  MovesOne
<1>1. Leaves(t)
  BY DEF Leaves
<1>2. QED
  BY <1>1, BeginMoves DEF MovesOne

\* The methods of the server's objects.
LEMMA HandleKind ==
  ASSUME IInv, NEW t \in DOMAIN task, Handle(t)
  PROVE  MovesOne
<1>1. task[t].state = "started" /\ UNCHANGED queue
  BY DEF Handle, Read, DefFunction, GetOperator, Evaluate, CallOperator, CallDefined,
         Running
<1>2. CanMove(t, DOMAIN task) /\ Leaves(t)
  BY <1>1, Alone DEF Leaves
<1>3. Failed # Unresolved
  BY DEF Failed, Unresolved
<1>4. CASE Read(t)
  BY <1>2, <1>3, <1>4, ReturnKind DEF Read
<1>5. CASE DefFunction(t)
  <2>1. Defined(task[t].call.paramCount, task[t].call.body) # Unresolved
    BY DEF Defined, Unresolved
  <2>2. QED
    BY <1>2, <1>5, <2>1, ReturnKind DEF DefFunction
<1>6. CASE GetOperator(t)
  <2>1. Operator(task[t].call.op) # Unresolved
    BY DEF Operator, Unresolved
  <2>2. QED
    BY <1>2, <1>6, <2>1, ReturnKind, ReturnErrorKind DEF GetOperator
<1>7. CASE Evaluate(t)
  BY <1>1, <1>7, BeginKind DEF Evaluate
<1>8. CASE CallOperator(t)
  BY <1>2, <1>3, <1>8, ReturnKind, ReturnErrorKind DEF CallOperator
<1>9. CASE CallDefined(t)
  BY <1>1, <1>2, <1>9, BeginKind, ReturnErrorKind DEF CallDefined
<1>10. QED
  BY <1>4, <1>5, <1>6, <1>7, <1>8, <1>9 DEF Handle

\* evaluate goes on to the next parameter of a call.
Pushing(t, frame) ==
    GoingOn(t, task[t].acked, <<frame>> \o task[t].stack, task[t].params)

LEMMA PushMoves ==
  ASSUME IInv, NEW t \in DOMAIN task, task[t].state = "evaluating",
         Child(t) \notin DOMAIN task, NEW frame,
         task' = [task EXCEPT ![t].stack = <<frame>> \o @],
         UNCHANGED <<script, received, obj>>
  PROVE  Moves(t, Pushing(t, frame), DOMAIN task) /\ Resolves(t, Pushing(t, frame))
<1> DEFINE stack == <<frame>> \o task[t].stack
<1>1. /\ IsTask(task[t]) /\ task = [x \in DOMAIN task |-> task[x]]
      /\ task[t].acked \in BOOLEAN
  BY DEF IInv, Shapes, TypeOK
<1>2. CanMove(t, DOMAIN task)
  BY Alone
<1>3. IsSeq(stack) /\ stack # <<>>
  BY <1>1, PushFrame DEF IsTask
<1> HIDE DEF stack
<1>4. task' = [x \in DOMAIN task |->
                 IF x = t THEN GoingOn(t, task[t].acked, stack, task[t].params)
                 ELSE task[x]]
  <2>1. [task[t] EXCEPT !.stack = stack] = GoingOn(t, task[t].acked, stack, task[t].params)
    BY <1>1 DEF IsTask, GoingOn
  <2>2. task' = [x \in DOMAIN task |->
                   IF x = t THEN [task[t] EXCEPT !.stack = stack] ELSE task[x]]
    BY <1>1 DEF stack
  <2>3. QED
    BY <2>1, <2>2
<1>5. /\ Moves(t, GoingOn(t, task[t].acked, stack, task[t].params), DOMAIN task)
      /\ Resolves(t, GoingOn(t, task[t].acked, stack, task[t].params))
  BY <1>1, <1>2, <1>3, <1>4, EvaluatesMoves
<1>6. QED
  BY <1>5 DEF Pushing, stack

LEMMA PushKind ==
  ASSUME IInv, NEW t \in DOMAIN task, task[t].state = "evaluating",
         Child(t) \notin DOMAIN task, NEW frame,
         task' = [task EXCEPT ![t].stack = <<frame>> \o @],
         UNCHANGED <<script, received, obj, queue>>
  PROVE  MovesOne
<1>1. Leaves(t)
  BY DEF Leaves
<1>2. QED
  BY <1>1, PushMoves DEF MovesOne

LEMMA EvalStepKind ==
  ASSUME IInv, NEW t \in DOMAIN task, EvalStep(t)
  PROVE  AddsOne \/ MovesOne
<1>1. task[t].state = "evaluating" /\ task = [x \in DOMAIN task |-> task[x]]
  BY DEF EvalStep, EvalLiteral, EvalParameter, EvalPreviousResult, EvalCall, EvalDefault,
         Resume, Evaluating, IInv, Shapes
<1>2. UNCHANGED queue => Leaves(t)
  BY <1>1 DEF Leaves
<1>3. Child(t) \notin DOMAIN task => CanMove(t, DOMAIN task)
  BY <1>1, Alone
<1>4. CASE EvalLiteral(t)
  BY <1>1, <1>2, <1>3, <1>4, YieldMoves DEF EvalLiteral, Evaluating, MovesOne
<1>5. CASE EvalParameter(t)
  BY <1>1, <1>2, <1>3, <1>5, YieldMoves DEF EvalParameter, Evaluating, MovesOne
<1>6. CASE EvalPreviousResult(t)
  <2>1. CASE ReturnError(t) /\ UNCHANGED queue
    BY <1>2, <1>3, <1>6, <2>1, ReturnErrorKind DEF EvalPreviousResult, Evaluating
  <2>2. CASE Issue(t, read(Expr(t).on))
    <3>1. read(Expr(t).on).on = Expr(t).on
      BY DEF read, Request
    <3>2. QED
      BY <1>1, <1>6, <2>2, <3>1, IssueKind DEF EvalPreviousResult, Evaluating
  <2>3. QED
    BY <1>6, <2>1, <2>2 DEF EvalPreviousResult
<1>7. CASE EvalCall(t)
  <2>1. CASE ReturnError(t) /\ UNCHANGED queue
    BY <1>2, <1>3, <1>7, <2>1, ReturnErrorKind DEF EvalCall, Evaluating
  <2>2. CASE Issue(t, call(Expr(t).on, Vals(t)))
    <3>1. call(Expr(t).on, Vals(t)).on = Expr(t).on
      BY DEF call, Request
    <3>2. QED
      BY <1>1, <1>7, <2>2, <3>1, IssueKind DEF EvalCall, Evaluating
  <2>3. ASSUME NEW frame, task' = [task EXCEPT ![t].stack = <<frame>> \o @],
               UNCHANGED <<script, received, obj, queue>>
        PROVE  MovesOne
    BY <1>1, <1>7, <2>3, PushKind DEF EvalCall, Evaluating
  <2>4. QED
    BY <1>7, <2>1, <2>2, <2>3 DEF EvalCall
<1>8. CASE EvalDefault(t)
  BY <1>2, <1>3, <1>8, ReturnErrorKind DEF EvalDefault, Evaluating
<1>9. CASE Resume(t)
  <2> DEFINE D == DOMAIN task \ {Child(t)}
  <2>1. Child(t) # t
    BY ChildFacts DEF IInv, Shapes
  <2>2. CanMove(t, D)
    BY <1>1, <1>9, <2>1 DEF Resume, CanMove
  <2>3. Without(task, Child(t)) = [x \in D |-> task[x]]
    BY DEF Without
  <2>4. QED
    BY <1>1, <1>2, <1>9, <2>2, <2>3, YieldMoves DEF Resume, MovesOne
<1>10. QED
  BY <1>4, <1>5, <1>6, <1>7, <1>8, <1>9 DEF EvalStep

LEMMA NextKind ==
  ASSUME IInv, Next
  PROVE  AddsOne \/ MovesOne
  BY ReceiveKind, StartCallKind, RefuseCallKind, ClientReturnKind, HandleKind,
     EvalStepKind DEF Next, ServerNext

-------------------------------------------------------------------------------
(* The theorems *)

LEMMA InitIInv == Init => IInv
<1> SUFFICES ASSUME Init PROVE IInv
  OBVIOUS
<1>1. /\ script \in Scripts /\ Len(script) \in Nat /\ received = 0
      /\ obj = [q \in 0 .. Len(script) |-> IF q = 0 THEN calculatorServer ELSE Unresolved]
      /\ queue = [q \in 0 .. Len(script) |-> <<>>]
      /\ DOMAIN task = {} /\ task = [t \in DOMAIN task |-> task[t]]
  BY ScriptsAssumption DEF Init
<1>2. <<>> \in Seq(TaskIds) /\ Len(<<>>) = 0
  OBVIOUS
<1>3. TypeOK
  BY <1>1, <1>2 DEF TypeOK
<1>4. Shapes
  BY <1>1, <1>2 DEF Shapes
<1>5. ResolvedWhenAnswered
  BY <1>1 DEF ResolvedWhenAnswered, Questions, Answered
<1>6. CallsHaveCallers
  BY <1>1 DEF CallsHaveCallers
<1>7. CallsWaitOnce
  BY <1>1, <1>2 DEF CallsWaitOnce
<1>8. QED
  BY <1>3, <1>4, <1>5, <1>6, <1>7 DEF IInv

LEMMA NextKeepsIInv == IInv /\ [Next]_vars => IInv'
<1> SUFFICES ASSUME IInv, [Next]_vars PROVE IInv'
  OBVIOUS
<1>1. CASE Next
  BY <1>1, NextKind, AddsKeeps, MovesKeeps DEF AddsOne, MovesOne
<1>2. CASE UNCHANGED vars
  <2>1. UNCHANGED <<script, received, obj, queue, task>>
    BY <1>2 DEF vars
  <2>2. TypeOK'
    BY <2>1 DEF IInv, TypeOK
  <2>3. Shapes'
    BY <2>1 DEF IInv, Shapes
  <2>4. ResolvedWhenAnswered'
    BY <2>1 DEF IInv, ResolvedWhenAnswered, Answered, Questions
  <2>5. CallsHaveCallers'
    BY <2>1 DEF IInv, CallsHaveCallers, Expr
  <2>6. CallsWaitOnce'
    BY <2>1 DEF IInv, CallsWaitOnce
  <2>7. QED
    BY <2>2, <2>3, <2>4, <2>5, <2>6 DEF IInv
<1>3. QED
  BY <1>1, <1>2

LEMMA Invariant == Spec => []IInv
  BY InitIInv, NextKeepsIInv, PTL DEF Spec

(***************************************************************************)
(* The state of the server keeps its type, for every script.               *)
(***************************************************************************)
THEOREM TypeCorrect == Spec => []TypeOK
<1>1. IInv => TypeOK
  BY DEF IInv
<1>2. QED
  BY <1>1, Invariant, PTL

(***************************************************************************)
(* The object of a question is there exactly when the question is          *)
(* answered, however calls pipelined on it and calls made by evaluate      *)
(* interleave.                                                             *)
(***************************************************************************)
THEOREM ObjectsWithAnswers == Spec => []ResolvedWhenAnswered
<1>1. IInv => ResolvedWhenAnswered
  BY DEF IInv
<1>2. QED
  BY <1>1, Invariant, PTL

(***************************************************************************)
(* No goroutine that runs evaluate returns while a call it made is under   *)
(* way, and each such call is the one its innermost expression asks for.   *)
(***************************************************************************)
THEOREM CallersStay == Spec => []CallsHaveCallers
<1>1. IInv => CallsHaveCallers
  BY DEF IInv
<1>2. QED
  BY <1>1, Invariant, PTL

(***************************************************************************)
(* A call that has not started waits in exactly one place, in the queue of *)
(* the object it is made on: none is lost and none starts twice.           *)
(***************************************************************************)
THEOREM NoCallLostOrDoubled == Spec => []CallsWaitOnce
<1>1. IInv => CallsWaitOnce
  BY DEF IInv
<1>2. QED
  BY <1>1, Invariant, PTL

LEMMA AnswersStay ==
  ASSUME IInv, Next, NEW q \in Questions, Answered(q)
  PROVE  Answered(q)' /\ task'[<<q>>].result = task[<<q>>].result /\ obj'[q] = obj[q]
<1>1. /\ q \in Nat /\ q \in 0 .. Len(script) /\ <<q>> \in DOMAIN task
      /\ task[<<q>>].state = "done"
      /\ DOMAIN task \subseteq TaskIds
      /\ obj = [p \in 0 .. Len(script) |-> obj[p]]
  BY DEF Questions, Answered, IInv, Shapes
<1>2. ASSUME NEW k, NEW req, Adds(k, req)
      PROVE  <<q>> \in DOMAIN task' /\ task'[<<q>>] = task[<<q>>] /\ obj'[q] = obj[q]
  BY <1>1, <1>2, AddsTask DEF Adds
<1>3. ASSUME NEW t, NEW r, NEW D, Moves(t, r, D), Resolves(t, r)
      PROVE  <<q>> \in DOMAIN task' /\ task'[<<q>>] = task[<<q>>] /\ obj'[q] = obj[q]
  <2>1. t # <<q>> /\ t \in DOMAIN task /\ t \in TaskIds
    BY <1>1, <1>3 DEF Moves
  <2>2. <<q>> \in D
    BY <1>1, <1>3, <2>1, QuestionFacts DEF Moves
  <2>3. DOMAIN task' = D /\ task'[<<q>>] = task[<<q>>]
    BY <1>3, <2>1, <2>2, MovesTask
  <2>4. Len(t) = 1 => t[1] # q
    BY <1>1, <2>1, QuestionFacts
  <2>5. obj'[q] = obj[q]
    BY <1>1, <1>3, <2>4 DEF Resolves
  <2>6. QED
    BY <2>2, <2>3, <2>5
<1>4. <<q>> \in DOMAIN task' /\ task'[<<q>>] = task[<<q>>] /\ obj'[q] = obj[q]
  BY <1>2, <1>3, NextKind DEF AddsOne, MovesOne
<1>5. QED
  BY <1>1, <1>4 DEF Answered

(***************************************************************************)
(* A question is answered once, and the object it made stays what it is.   *)
(***************************************************************************)
THEOREM AnsweredForGood == Spec => AnswersFinal
<1> DEFINE Stay == \A q \in Questions :
                     Answered(q) => /\ Answered(q)'
                                    /\ task'[<<q>>].result = task[<<q>>].result
                                    /\ obj'[q] = obj[q]
<1>1. IInv /\ [Next]_vars => [Stay]_vars
  BY AnswersStay
<1>2. QED
  BY <1>1, Invariant, PTL DEF Spec, AnswersFinal
-------------------------------------------------------------------------------
(***************************************************************************)
(* The second half: the server answers every question with what it means,  *)
(* for every script and every meaning of it.                               *)
(*                                                                         *)
(* The invariant relates each call to its outcome.  For a goroutine in     *)
(* evaluate it says of each level of the recursion, by itself, that the    *)
(* parameters so far are right and that an error of this level would be    *)
(* an error of the whole call; so nothing has to be shown by induction on  *)
(* the depth of the recursion.                                             *)
(***************************************************************************)
(* The invariant of the second half *)

\* A level f of the recursion of a call that should come to out.
FrameRight(s, env, out, f) ==
    /\ f = [expr |-> f.expr, vals |-> f.vals]
    /\ <<f.expr, env>> \in Evaluations(s)
    /\ ~Value(s, f.expr, env).ok => out = Error
    /\ IsSeq(f.vals)
    /\ f.expr.which = "call" =>
          /\ Len(f.vals) <= Len(f.expr.params)
          /\ \A j \in 1 .. Len(f.vals) :
                /\ Value(s, f.expr.params[j], env).ok
                /\ Value(s, f.expr.params[j], env).value = f.vals[j]

\* The level f evaluates the next parameter of the level g around it.
Inside(f, g) ==
    /\ g.expr.which = "call" /\ g.expr.on # NullClient
    /\ Len(g.vals) < Len(g.expr.params)
    /\ f.expr = g.expr.params[Len(g.vals) + 1]

StackRight(s, env, out, stack) ==
    /\ \A i \in 1 .. Len(stack) : FrameRight(s, env, out, stack[i])
    /\ \A i \in 1 .. Len(stack) - 1 : Inside(stack[i], stack[i + 1])
    /\ Value(s, stack[Len(stack)].expr, env) = out

Expected(s, r) == Outcome(s, r.on, r.call)

Startable(s, r) ==
    /\ r.on.host = "server" /\ r.on.id \in 0 .. Len(s)
    /\ r.call.method \in Methods(ObjectOf(s, r.on.id).kind)

TaskRight(s, r) ==
    /\ r.state = "started" => Startable(s, r)
    /\ r.state = "evaluating" =>
          /\ r.call.method \in {"evaluate", "call"}
          /\ StackRight(s, r.params, Expected(s, r), r.stack)
    /\ r.state = "done" => r.result = Expected(s, r)

\* The call c is the one that the innermost expression of r asks for.
AskedBy(s, r, c) == Value(s, Head(r.stack).expr, r.params) = Expected(s, c)

TasksRight ==
    /\ \A t \in DOMAIN task : TaskRight(script, task[t])
    /\ \A t \in DOMAIN task : Covered(script, task[t].on, task[t].call)
    /\ \A t \in DOMAIN task :
          Len(t) = 1 => task[t].on = script[t[1]].on /\ task[t].call = script[t[1]].call

ObjectsRight == \A q \in 0 .. Len(script) :
                   obj[q] # Unresolved => obj[q] = ObjectOf(script, q)

TargetsThere == \A t \in DOMAIN task :
                   task[t].state = "started" => obj[task[t].on.id] # Unresolved

CallsAsked == \A t \in DOMAIN task :
                 Child(t) \in DOMAIN task => AskedBy(script, task[t], task[Child(t)])

MInv ==
    /\ TasksRight
    /\ ObjectsRight
    /\ TargetsThere
    /\ CallsAsked

-------------------------------------------------------------------------------
(* Outcomes and objects *)

LEMMA OutcomeFacts ==
  /\ \A v : Ok(v).ok /\ Ok(v).value = v
  /\ ~Error.ok
  /\ \A v : Ok(v) # Error
<1>1. /\ \A v, a : [ok |-> a, value |-> v].ok = a
      /\ \A v, a : [ok |-> a, value |-> v].value = v
  OBVIOUS
<1>2. \A v : Ok(v).ok
  BY <1>1, Zenon DEF Ok
<1>3. \A v : Ok(v).value = v
  BY <1>1, Zenon DEF Ok
<1>4. ~Error.ok
  BY <1>1, Zenon DEF Error
<1>5. \A v : Ok(v) # Error
  BY <1>2, <1>4, Zenon
<1>6. QED
  BY <1>2, <1>3, <1>4, <1>5, Zenon

LEMMA MadeResolves ==
  ASSUME NEW c, NEW res
  PROVE  Made(c, res) # Unresolved
  BY DEF Made, Failed, valueServer, Defined, Operator, Unresolved

\* What MeaningAssumption says of the script.
LEMMA ScriptMeaning ==
  ASSUME IInv
  PROVE  /\ MeaningOf(script) /\ Len(script) \in Nat
         /\ \A t \in DOMAIN task : t[1] \in 1 .. Len(script)
<1>1. /\ script \in Scripts /\ Len(script) \in Nat
      /\ received \in 0 .. Len(script)
      /\ \A t \in DOMAIN task : t[1] \in 1 .. received
  BY DEF IInv, TypeOK, Shapes
<1>2. QED
  BY <1>1, MeaningAssumption

-------------------------------------------------------------------------------
(* The two kinds of step *)

\* A call is added that the script or an expression asks for.
LEMMA AddsRight ==
  ASSUME IInv, MInv, NEW k, NEW req, Adds(k, req),
         Covered(script, req.on, req.call),
         Len(k) = 1 => req.on = script[k[1]].on /\ req.call = script[k[1]].call,
         \A t \in DOMAIN task : Child(t) = k =>
            Value(script, Head(task[t].stack).expr, task[t].params)
              = Outcome(script, req.on, req.call)
  PROVE  MInv'
<1>1. /\ DOMAIN task' = DOMAIN task \cup {k}
      /\ task'[k] = NewTask(req)
      /\ \A t \in DOMAIN task : t # k /\ task'[t] = task[t]
      /\ script' = script /\ obj' = obj
      /\ k \in TaskIds
  BY AddsTask DEF Adds
<1>2. NewTask(req).on = req.on /\ NewTask(req).call = req.call
      /\ NewTask(req).state = "queued"
  BY DEF NewTask
<1>3. TasksRight'
  <2> SUFFICES ASSUME NEW t \in DOMAIN task'
               PROVE  /\ TaskRight(script, task'[t])
                      /\ Covered(script, task'[t].on, task'[t].call)
                      /\ Len(t) = 1 => /\ task'[t].on = script[t[1]].on
                                       /\ task'[t].call = script[t[1]].call
    BY <1>1 DEF TasksRight
  <2>1. CASE t = k
    BY <1>1, <1>2, <2>1 DEF TaskRight
  <2>2. CASE t # k
    BY <1>1, <2>2 DEF MInv, TasksRight
  <2>3. QED
    BY <2>1, <2>2
<1>4. ObjectsRight'
  BY <1>1 DEF MInv, ObjectsRight
<1>5. TargetsThere'
  BY <1>1, <1>2 DEF MInv, TargetsThere
<1>6. CallsAsked'
  <2> SUFFICES ASSUME NEW t \in DOMAIN task', Child(t) \in DOMAIN task'
               PROVE  AskedBy(script, task'[t], task'[Child(t)])
    BY <1>1 DEF CallsAsked
  <2>1. t \in DOMAIN task
    <3>1. DOMAIN task' \subseteq TaskIds /\ CallersWait
      BY <1>1, CallersSame DEF IInv, Shapes, Numbered
    <3>2. CASE Child(t) \in DOMAIN task
      BY <3>1, <3>2 DEF CallersWait
    <3>3. CASE Child(t) = k
      <4>1. t # k
        <5>1. t \in TaskIds /\ Len(Child(t)) = Len(t) + 1 /\ Len(t) \in Nat
          BY <3>1, ChildFacts, AppendProperties DEF Child, TaskIds
        <5>2. QED
          BY <3>3, <5>1
      <4>2. QED
        BY <1>1, <4>1
    <3>4. QED
      BY <1>1, <3>2, <3>3
  <2>2. CASE Child(t) = k
    BY <1>1, <1>2, <2>1, <2>2 DEF AskedBy, Expected
  <2>3. CASE Child(t) # k
    BY <1>1, <2>1, <2>3 DEF MInv, CallsAsked
  <2>4. QED
    BY <2>2, <2>3
<1>7. QED
  BY <1>3, <1>4, <1>5, <1>6 DEF MInv

\* A call goes on to a task that is right, and a question that is answered to the
\* object it makes.
LEMMA MovesRight ==
  ASSUME IInv, MInv, NEW t, NEW r, NEW D, Moves(t, r, D), Resolves(t, r),
         TaskRight(script, r),
         r.state = "started" => obj[r.on.id] # Unresolved,
         r.state = "done" /\ Len(t) = 1 => obj'[t[1]] = Made(r.call, r.result)
  PROVE  MInv'
<1>1. /\ DOMAIN task' = D /\ D \subseteq DOMAIN task /\ t \in D
      /\ task'[t] = r
      /\ \A x \in D : x # t => task'[x] = task[x]
      /\ script' = script /\ r.on = task[t].on /\ r.call = task[t].call
      /\ Child(t) \notin D
  BY MovesTask DEF Moves
<1>2. TasksRight'
  <2> SUFFICES ASSUME NEW x \in D
               PROVE  /\ TaskRight(script, task'[x])
                      /\ Covered(script, task'[x].on, task'[x].call)
                      /\ Len(x) = 1 => /\ task'[x].on = script[x[1]].on
                                       /\ task'[x].call = script[x[1]].call
    BY <1>1 DEF TasksRight
  <2>1. CASE x = t
    BY <1>1, <2>1 DEF MInv, TasksRight
  <2>2. CASE x # t
    BY <1>1, <2>2 DEF MInv, TasksRight
  <2>3. QED
    BY <2>1, <2>2
<1>3. /\ MeaningOf(script) /\ t[1] \in 1 .. Len(script) /\ Len(script) \in Nat
      /\ obj = [q \in 0 .. Len(script) |-> obj[q]]
  BY <1>1, ScriptMeaning DEF IInv, Shapes
<1>4. \A q \in 0 .. Len(script) :
         \/ obj'[q] = obj[q]
         \/ r.state = "done" /\ Len(t) = 1 /\ q = t[1] /\ obj'[q] # Unresolved
  BY <1>3 DEF Resolves
<1>5. ObjectsRight'
  <2> SUFFICES ASSUME NEW q \in 0 .. Len(script), obj'[q] # Unresolved
               PROVE  obj'[q] = ObjectOf(script, q)
    BY <1>1 DEF ObjectsRight
  <2>1. CASE obj'[q] = obj[q]
    BY <2>1 DEF MInv, ObjectsRight
  <2>2. CASE r.state = "done" /\ Len(t) = 1 /\ q = t[1]
    <3>1. obj'[q] = Made(r.call, r.result)
      BY <2>2
    <3>2. r.result = Outcome(script, r.on, r.call)
      BY <2>2 DEF TaskRight, Expected
    <3>3. r.on = script[q].on /\ r.call = script[q].call
      BY <1>1, <2>2 DEF MInv, TasksRight
    <3>4. ObjectOf(script, q) = Made(script[q].call, AnswerOf(script, q))
      BY <1>3, <2>2 DEF MeaningOf
    <3>5. QED
      BY <3>1, <3>2, <3>3, <3>4 DEF AnswerOf
  <2>3. QED
    BY <1>4, <2>1, <2>2
<1>6. TargetsThere'
  <2> SUFFICES ASSUME NEW x \in D, task'[x].state = "started"
               PROVE  obj'[task'[x].on.id] # Unresolved
    BY <1>1 DEF TargetsThere
  <2>1. obj[task'[x].on.id] # Unresolved
    BY <1>1 DEF MInv, TargetsThere
  <2>2. task'[x].on.id \in 0 .. Len(script)
    BY <1>1, <1>2 DEF TasksRight, TaskRight, Startable
  <2>3. QED
    BY <1>4, <2>1, <2>2
<1>7. CallsAsked'
  <2> SUFFICES ASSUME NEW x \in D, Child(x) \in D
               PROVE  AskedBy(script, task'[x], task'[Child(x)])
    BY <1>1 DEF CallsAsked
  <2>1. x # t /\ task'[x] = task[x]
    BY <1>1
  <2>2. task'[Child(x)].on = task[Child(x)].on /\ task'[Child(x)].call = task[Child(x)].call
    BY <1>1
  <2>3. QED
    BY <1>1, <2>1, <2>2 DEF MInv, CallsAsked, AskedBy, Expected
<1>8. QED
  BY <1>2, <1>5, <1>6, <1>7 DEF MInv

\* A call that returns what it should, with the object it makes, is right.
LEMMA ReturnsRight ==
  ASSUME IInv, MInv, NEW t, NEW D, CanMove(t, D), NEW ts, ts = [x \in D |-> task[x]],
         NEW res, NEW object, Return(ts, t, res, object),
         res = Outcome(script, task[t].on, task[t].call),
         object = Made(task[t].call, res)
  PROVE  MInv'
<1> DEFINE r == Returning(t, res)
<1>1. Moves(t, r, D) /\ Resolves(t, r)
  BY MadeResolves, ReturnMoves
<1>2. /\ r.on = task[t].on /\ r.call = task[t].call /\ r.state = "done"
      /\ r.result = res
  BY DEF Returning
<1>3. Len(t) = 1 => obj'[t[1]] = object
  <2>1. obj = [q \in 0 .. Len(script) |-> obj[q]] /\ t[1] \in 0 .. Len(script)
    BY ScriptMeaning DEF IInv, Shapes, CanMove
  <2>2. QED
    BY <2>1 DEF Return
<1> HIDE DEF r
<1>4. TaskRight(script, r)
  BY <1>2 DEF TaskRight, Expected
<1>5. QED
  BY <1>1, <1>2, <1>3, <1>4, MovesRight

-------------------------------------------------------------------------------
(* The library's steps *)

LEMMA ReceiveRight ==
  ASSUME IInv, MInv, Receive
  PROVE  MInv'
<1> DEFINE k == <<received + 1>>
<1>1. Adds(k, script[received + 1]) /\ received + 1 \in Nat
  BY ReceiveAdds
<1>2. /\ received + 1 \in 1 .. Len(script) /\ MeaningOf(script)
      /\ DOMAIN task \subseteq TaskIds
  BY <1>1, ScriptMeaning DEF Receive, IInv, TypeOK, Shapes
<1>3. k[1] = received + 1 /\ \A t \in TaskIds : Child(t) # k
  BY <1>1, QuestionFacts
<1>4. Covered(script, script[received + 1].on, script[received + 1].call)
  BY <1>2 DEF MeaningOf
<1>5. QED
  BY <1>1, <1>2, <1>3, <1>4, AddsRight

\* The calls on an object that is there, and that it does not have, fail.
LEMMA HeadTarget ==
  ASSUME IInv, MInv, NEW o \in DOMAIN obj, queue[o] # <<>>, obj[o].kind # "unresolved",
         NEW h, h = Head(queue[o])
  PROVE  /\ h \in DOMAIN task /\ task[h].state = "queued"
         /\ task[h].on.host = "server" /\ task[h].on.id = o /\ o \in 0 .. Len(script)
         /\ obj[o] # Unresolved /\ obj[o] = ObjectOf(script, o)
<1>1. /\ h \in DOMAIN task /\ task[h].state = "queued"
      /\ task[h].on.host = "server" /\ task[h].on.id = o /\ o \in 0 .. Len(script)
  BY HeadWaits DEF IInv, TypeOK
<1>2. obj[o] # Unresolved
  BY DEF Unresolved
<1>3. QED
  BY <1>1, <1>2 DEF MInv, ObjectsRight

LEMMA StartCallRight ==
  ASSUME IInv, MInv, NEW o \in DOMAIN obj, StartCall(o)
  PROVE  MInv'
<1> DEFINE h == Head(queue[o])
<1>1. /\ h \in DOMAIN task /\ task[h].state = "queued"
      /\ task[h].on.host = "server" /\ task[h].on.id = o /\ o \in 0 .. Len(script)
      /\ obj[o] # Unresolved /\ obj[o] = ObjectOf(script, o)
  BY HeadTarget DEF StartCall
<1>2. task[h].call.method \in Methods(obj[o].kind)
  BY DEF StartCall
<1>3. Moves(h, Starting(h), DOMAIN task) /\ Resolves(h, Starting(h))
  BY StartMoves
<1> HIDE DEF h
<1>4. /\ Starting(h).on = task[h].on /\ Starting(h).call = task[h].call
      /\ Starting(h).state = "started"
  BY DEF Starting
<1>5. TaskRight(script, Starting(h))
  BY <1>1, <1>2, <1>4 DEF TaskRight, Startable
<1>6. QED
  BY <1>1, <1>3, <1>4, <1>5, MovesRight

LEMMA WholeTask ==
  ASSUME IInv
  PROVE  task = [x \in DOMAIN task |-> task[x]]
  BY DEF IInv, Shapes

\* An error that should be makes no object.
LEMMA ErrorRight ==
  ASSUME IInv, MInv, NEW t, CanMove(t, DOMAIN task), ReturnError(t),
         Outcome(script, task[t].on, task[t].call) = Error
  PROVE  MInv'
<1>1. Made(task[t].call, Error) = Failed
  BY OutcomeFacts DEF Made
<1>2. QED
  BY <1>1, WholeTask, ReturnsRight DEF ReturnError

LEMMA RefuseCallRight ==
  ASSUME IInv, MInv, NEW o \in DOMAIN obj, RefuseCall(o)
  PROVE  MInv'
<1> DEFINE h == Head(queue[o])
<1>1. /\ h \in DOMAIN task /\ task[h].state = "queued"
      /\ task[h].on.host = "server" /\ task[h].on.id = o
      /\ obj[o] = ObjectOf(script, o)
  BY HeadTarget DEF RefuseCall
<1>2. Outcome(script, task[h].on, task[h].call) = Error
  BY <1>1 DEF Outcome, RefuseCall
<1>3. CanMove(h, DOMAIN task)
  BY <1>1, Alone
<1>4. ReturnError(h)
  BY DEF RefuseCall
<1>5. QED
  BY <1>2, <1>3, <1>4, ErrorRight

LEMMA ClientReturnRight ==
  ASSUME IInv, MInv, NEW t \in DOMAIN task, ClientReturn(t)
  PROVE  MInv'
<1>1. CanMove(t, DOMAIN task)
  BY Alone DEF ClientReturn
<1> DEFINE res == ClientAnswer(task[t].on.id, task[t].call)
<1>2. res = Outcome(script, task[t].on, task[t].call)
  BY DEF Outcome, ClientReturn
<1>3. Made(task[t].call, res) = Failed
  <2>1. CASE task[t].call.method = "call"
    BY <2>1 DEF Made
  <2>2. CASE task[t].call.method # "call"
    <3>1. res = Error
      BY <2>2 DEF ClientAnswer
    <3>2. QED
      BY <3>1, OutcomeFacts DEF Made
  <2>3. QED
    BY <2>1, <2>2
<1>4. Return(task, t, res, Failed)
  BY DEF ClientReturn
<1> HIDE DEF res
<1>5. QED
  BY <1>1, <1>2, <1>3, <1>4, WholeTask, ReturnsRight

-------------------------------------------------------------------------------
(* The methods of the server's objects *)

\* What is known of one evaluation.
LEMMA EvaluationFacts ==
  ASSUME NEW s, MeaningOf(s), NEW e, NEW env, <<e, env>> \in Evaluations(s)
  PROVE  /\ Value(s, e, env) = OfParts(s, e, env)
         /\ Value(s, e, env).ok \in BOOLEAN
         /\ ~Value(s, e, env).ok => Value(s, e, env) = Error
         /\ e.which = "call" =>
               /\ Len(e.params) \in Nat
               /\ \A i \in 1 .. Len(e.params) : <<e.params[i], env>> \in Evaluations(s)
               /\ (\A i \in 1 .. Len(e.params) : Value(s, e.params[i], env).ok)
                    => Covered(s, e.on,
                          call(e.on, [i \in 1 .. Len(e.params) |->
                                        Value(s, e.params[i], env).value]).call)
<1> DEFINE ev == <<e, env>>
<1>1. ev \in Evaluations(s) /\ ev[1] = e /\ ev[2] = env
  OBVIOUS
<1> HIDE DEF ev
<1>2. QED
  BY <1>1 DEF MeaningOf

\* evaluate begins with one level that is right.
LEMMA FirstFrame ==
  ASSUME NEW s, MeaningOf(s), NEW e, NEW env, <<e, env>> \in Evaluations(s)
  PROVE  StackRight(s, env, Value(s, e, env), <<Frame(e)>>)
<1> DEFINE f == Frame(e)
<1>1. /\ f = [expr |-> f.expr, vals |-> f.vals] /\ f.expr = e /\ f.vals = <<>>
      /\ Len(f.vals) = 0
  BY DEF Frame
<1>2. IsSeq(<<>>)
  <2>1. <<>> \in Seq({})
    OBVIOUS
  <2>2. QED
    BY <2>1, SeqIsSeq
<1> HIDE DEF f
<1>3. FrameRight(s, env, Value(s, e, env), f)
  <2>1. ~Value(s, e, env).ok => Value(s, e, env) = Error
    BY EvaluationFacts
  <2>2. e.which = "call" => Len(e.params) \in Nat
    BY EvaluationFacts
  <2>3. QED
    BY <1>1, <1>2, <2>1, <2>2 DEF FrameRight
<1>4. Len(<<f>>) = 1 /\ <<f>>[1] = f
  OBVIOUS
<1>5. StackRight(s, env, Value(s, e, env), <<f>>)
  BY <1>1, <1>3, <1>4 DEF StackRight
<1>6. QED
  BY <1>5 DEF f

\* A call that has started is on an object that is there.
LEMMA TargetRight ==
  ASSUME IInv, MInv, NEW t \in DOMAIN task, task[t].state = "started"
  PROVE  /\ CanMove(t, DOMAIN task)
         /\ task[t].on.host = "server" /\ Target(t) = ObjectOf(script, task[t].on.id)
         /\ task[t].call.method \in Methods(Target(t).kind)
         /\ Outcome(script, task[t].on, task[t].call)
              = Result(script, Target(t), task[t].call)
<1>1. CanMove(t, DOMAIN task)
  BY Alone
<1>2. Startable(script, task[t]) /\ obj[task[t].on.id] # Unresolved
  BY DEF MInv, TasksRight, TaskRight, TargetsThere
<1>3. Target(t) = ObjectOf(script, task[t].on.id)
  BY <1>2 DEF Startable, MInv, ObjectsRight, Target
<1>4. QED
  BY <1>1, <1>2, <1>3 DEF Startable, Outcome

\* evaluate begins on what the call should come to.
LEMMA BeginRight ==
  ASSUME IInv, MInv, NEW t \in DOMAIN task, task[t].state = "started",
         NEW expr, NEW params, Begin(t, expr, params),
         task[t].call.method \in {"evaluate", "call"},
         <<expr, params>> \in Evaluations(script),
         Outcome(script, task[t].on, task[t].call) = Value(script, expr, params)
  PROVE  MInv'
<1>1. PICK acked \in BOOLEAN :
         /\ Moves(t, Beginning(t, acked, expr, params), DOMAIN task)
         /\ Resolves(t, Beginning(t, acked, expr, params))
  BY BeginMoves
<1> DEFINE r == Beginning(t, acked, expr, params)
<1>2. /\ r.on = task[t].on /\ r.call = task[t].call /\ r.state = "evaluating"
      /\ r.stack = <<Frame(expr)>> /\ r.params = params
  BY DEF Beginning, GoingOn
<1> HIDE DEF r
<1>3. StackRight(script, params, Value(script, expr, params), <<Frame(expr)>>)
  BY ScriptMeaning, FirstFrame
<1>4. TaskRight(script, r)
  BY <1>2, <1>3 DEF TaskRight, Expected
<1>5. QED
  BY <1>1, <1>2, <1>4, MovesRight DEF r

LEMMA HandleRight ==
  ASSUME IInv, MInv, NEW t \in DOMAIN task, Handle(t)
  PROVE  MInv'
<1>1. task[t].state = "started"
  BY DEF Handle, Read, DefFunction, GetOperator, Evaluate, CallOperator, CallDefined,
         Running
<1>2. /\ CanMove(t, DOMAIN task)
      /\ task[t].on.host = "server" /\ Target(t) = ObjectOf(script, task[t].on.id)
      /\ Outcome(script, task[t].on, task[t].call)
           = Result(script, Target(t), task[t].call)
  BY <1>1, TargetRight
<1> DEFINE c == task[t].call
<1>3. Covered(script, task[t].on, c)
  BY DEF MInv, TasksRight
<1> HIDE DEF c
<1>4. ASSUME NEW v, NEW object, Return(task, t, Ok(v), object),
             Result(script, Target(t), c) = Ok(v), Made(c, Ok(v)) = object
      PROVE  MInv'
  BY <1>2, <1>4, WholeTask, ReturnsRight DEF c
<1>5. ASSUME ReturnError(t), Result(script, Target(t), c) = Error
      PROVE  MInv'
  BY <1>2, <1>5, ErrorRight DEF c
<1>6. \A v : Ok(v).ok
  BY OutcomeFacts
<1>7. CASE Read(t)
  <2>1. c.method = "read" /\ Return(task, t, Ok(Target(t).value), Failed)
    BY <1>7 DEF Read, Running, c
  <2>2. Result(script, Target(t), c) = Ok(Target(t).value)
    BY <2>1 DEF Result
  <2>3. Made(c, Ok(Target(t).value)) = Failed
    BY <1>6, <2>1 DEF Made
  <2>4. QED
    BY <1>4, <2>1, <2>2, <2>3
<1>8. CASE DefFunction(t)
  <2>1. c.method = "defFunction" /\ Return(task, t, Ok(0), Defined(c.paramCount, c.body))
    BY <1>8 DEF DefFunction, Running, c
  <2>2. Result(script, Target(t), c) = Ok(0)
    BY <2>1 DEF Result
  <2>3. Made(c, Ok(0)) = Defined(c.paramCount, c.body)
    BY <1>6, <2>1 DEF Made
  <2>4. QED
    BY <1>4, <2>1, <2>2, <2>3
<1>9. CASE GetOperator(t)
  <2>1. c.method = "getOperator"
    BY <1>9 DEF GetOperator, Running, c
  <2>2. CASE c.op \in operators
    <3>1. Result(script, Target(t), c) = Ok(0)
      BY <2>1, <2>2 DEF Result
    <3>2. Made(c, Ok(0)) = Operator(c.op)
      BY <1>6, <2>1 DEF Made
    <3>3. Return(task, t, Ok(0), Operator(c.op))
      BY <1>9, <2>2 DEF GetOperator, c
    <3>4. QED
      BY <1>4, <3>1, <3>2, <3>3
  <2>3. CASE c.op \notin operators
    <3>1. Result(script, Target(t), c) = Error
      BY <2>1, <2>3 DEF Result
    <3>2. ReturnError(t)
      BY <1>9, <2>3 DEF GetOperator, c
    <3>3. QED
      BY <1>5, <3>1, <3>2
  <2>4. QED
    BY <2>2, <2>3
<1>10. CASE Evaluate(t)
  <2>1. c.method = "evaluate" /\ Begin(t, c.expr, NoParams)
    BY <1>10 DEF Evaluate, Running, c
  <2>2. Result(script, Target(t), c) = Value(script, c.expr, NoParams)
    BY <2>1 DEF Result
  <2>3. <<c.expr, NoParams>> \in Evaluations(script)
    BY <1>2, <1>3, <2>1 DEF Covered
  <2>4. QED
    BY <1>1, <1>2, <2>1, <2>2, <2>3, BeginRight DEF c
<1>11. CASE CallOperator(t)
  <2>1. c.method = "call" /\ Target(t).kind = "operator"
    BY <1>11 DEF CallOperator, Running, c
  <2>2. CASE Len(c.params) = 2
    <3> DEFINE v == Apply(Target(t).op, c.params[1], c.params[2])
    <3>1. Return(task, t, Ok(v), Failed)
      BY <1>11, <2>2 DEF CallOperator, c
    <3>2. Result(script, Target(t), c) = Ok(v)
      BY <2>1, <2>2 DEF Result
    <3> HIDE DEF v
    <3>3. Made(c, Ok(v)) = Failed
      BY <1>6, <2>1 DEF Made
    <3>4. QED
      BY <1>4, <3>1, <3>2, <3>3
  <2>3. CASE Len(c.params) # 2
    <3>1. ReturnError(t)
      BY <1>11, <2>3 DEF CallOperator, c
    <3>2. Result(script, Target(t), c) = Error
      BY <2>1, <2>3 DEF Result
    <3>3. QED
      BY <1>5, <3>1, <3>2
  <2>4. QED
    BY <2>2, <2>3
<1>12. CASE CallDefined(t)
  <2>1. c.method = "call" /\ Target(t).kind = "defined"
    BY <1>12 DEF CallDefined, Running, c
  <2>2. CASE Len(c.params) = Target(t).paramCount
    <3>1. Begin(t, Target(t).body, Params(c.params))
      BY <1>12, <2>2 DEF CallDefined, c
    <3>2. Result(script, Target(t), c) = Value(script, Target(t).body, Params(c.params))
      BY <2>1, <2>2 DEF Result
    <3>3. <<Target(t).body, Params(c.params)>> \in Evaluations(script)
      BY <1>2, <1>3, <2>1, <2>2 DEF Covered
    <3>4. QED
      BY <1>1, <1>2, <2>1, <3>1, <3>2, <3>3, BeginRight DEF c
  <2>3. CASE Len(c.params) # Target(t).paramCount
    <3>1. ReturnError(t)
      BY <1>12, <2>3 DEF CallDefined, c
    <3>2. Result(script, Target(t), c) = Error
      BY <2>1, <2>3 DEF Result
    <3>3. QED
      BY <1>5, <3>1, <3>2
  <2>4. QED
    BY <2>2, <2>3
<1>13. QED
  BY <1>7, <1>8, <1>9, <1>10, <1>11, <1>12 DEF Handle

-------------------------------------------------------------------------------
(* evaluate *)

\* The levels of the recursion, by their places in the stack.
LEMMA OneOrMore ==
  ASSUME NEW n \in Nat, n >= 1
  PROVE  n > 1 \/ n = 1
  OBVIOUS

LEMMA StackIndices ==
  ASSUME NEW stack, IsSeq(stack), stack # <<>>
  PROVE  /\ Len(stack) \in Nat /\ Len(stack) >= 1
         /\ Head(stack) = stack[1]
  BY LenProperties, EmptySeq DEF IsSeq

LEMMA PushIndices ==
  ASSUME NEW stack, IsSeq(stack), NEW f
  PROVE  /\ Len(stack) \in Nat
         /\ Len(<<f>> \o stack) = Len(stack) + 1
         /\ (<<f>> \o stack)[1] = f
         /\ \A i \in 1 .. Len(stack) : (<<f>> \o stack)[i + 1] = stack[i]
<1> DEFINE S == {stack[i] : i \in DOMAIN stack} \cup {f}
<1>1. stack \in Seq(S) /\ <<f>> \in Seq(S)
  <2>1. stack \in Seq({stack[i] : i \in DOMAIN stack})
    BY DEF IsSeq
  <2>2. QED
    BY <2>1, SeqMonotonic
<1> HIDE DEF S
<1>2. Len(<<f>>) = 1 /\ <<f>>[1] = f /\ Len(stack) \in Nat
  BY <1>1, LenProperties
<1>3. /\ Len(<<f>> \o stack) = Len(stack) + 1
      /\ \A i \in 1 .. Len(stack) + 1 :
            (<<f>> \o stack)[i] = IF i <= 1 THEN <<f>>[i] ELSE stack[i - 1]
  BY <1>1, <1>2, ConcatProperties
<1>4. \A i \in 1 .. Len(stack) : (<<f>> \o stack)[i + 1] = stack[i]
  <2> TAKE i \in 1 .. Len(stack)
  <2>1. i + 1 \in 1 .. Len(stack) + 1 /\ ~(i + 1 <= 1) /\ (i + 1) - 1 = i
    BY <1>2
  <2>2. QED
    BY <1>3, <2>1
<1>5. QED
  BY <1>2, <1>3, <1>4

LEMMA PopIndices ==
  ASSUME NEW stack, IsSeq(stack), Len(stack) > 1
  PROVE  /\ Len(Tail(Tail(stack))) = Len(stack) - 2
         /\ \A i \in 1 .. Len(stack) - 2 : Tail(Tail(stack))[i] = stack[i + 2]
<1> DEFINE S == {stack[i] : i \in DOMAIN stack}
<1>1. stack \in Seq(S)
  BY DEF IsSeq
<1> HIDE DEF S
<1>2. Len(stack) \in Nat /\ stack # <<>>
  BY <1>1, LenProperties, EmptySeq
<1>3. /\ Tail(stack) \in Seq(S) /\ Len(Tail(stack)) = Len(stack) - 1
      /\ \A i \in 1 .. Len(stack) - 1 : Tail(stack)[i] = stack[i + 1]
  BY <1>1, <1>2, HeadTailProperties
<1>4. Tail(stack) # <<>>
  <2>1. Len(Tail(stack)) # 0
    BY <1>2, <1>3
  <2>2. QED
    BY <2>1, EmptySeq
<1>5. /\ Len(Tail(Tail(stack))) = Len(stack) - 2
      /\ \A i \in 1 .. Len(stack) - 2 : Tail(Tail(stack))[i] = Tail(stack)[i + 1]
  <2>1. /\ Len(Tail(Tail(stack))) = Len(Tail(stack)) - 1
        /\ \A i \in 1 .. Len(Tail(stack)) - 1 : Tail(Tail(stack))[i] = Tail(stack)[i + 1]
    BY <1>3, <1>4, HeadTailProperties
  <2>2. QED
    BY <1>2, <1>3, <2>1
<1>6. \A i \in 1 .. Len(stack) - 2 : Tail(stack)[i + 1] = stack[i + 2]
  <2> TAKE i \in 1 .. Len(stack) - 2
  <2>1. i + 1 \in 1 .. Len(stack) - 1 /\ (i + 1) + 1 = i + 2
    BY <1>2
  <2>2. QED
    BY <1>3, <2>1
<1>7. QED
  BY <1>5, <1>6

\* One more level, for the next parameter of a call, keeps the stack right.
LEMMA PushRight ==
  ASSUME NEW s, MeaningOf(s), NEW env, NEW out, NEW stack, IsSeq(stack), stack # <<>>,
         StackRight(s, env, out, stack),
         NEW g, g = stack[1], g.expr.which = "call", g.expr.on # NullClient,
         Len(g.vals) < Len(g.expr.params)
  PROVE  StackRight(s, env, out, <<Frame(g.expr.params[Len(g.vals) + 1])>> \o stack)
<1> DEFINE e   == g.expr.params[Len(g.vals) + 1]
           f   == Frame(e)
           new == <<f>> \o stack
<1>1. Len(stack) \in Nat /\ Len(stack) >= 1
  BY StackIndices
<1>2. FrameRight(s, env, out, g)
  BY <1>1 DEF StackRight
<1>3. <<g.expr, env>> \in Evaluations(s) /\ Len(g.vals) \in Nat
  <2>1. IsSeq(g.vals) /\ <<g.expr, env>> \in Evaluations(s)
    BY <1>2 DEF FrameRight
  <2>2. QED
    BY <2>1, LenProperties DEF IsSeq
<1>4. Len(g.expr.params) \in Nat /\ <<e, env>> \in Evaluations(s)
  <2>1. /\ Len(g.expr.params) \in Nat
        /\ \A i \in 1 .. Len(g.expr.params) : <<g.expr.params[i], env>> \in Evaluations(s)
    BY <1>3, EvaluationFacts
  <2>2. Len(g.vals) + 1 \in 1 .. Len(g.expr.params)
    BY <1>3, <2>1
  <2>3. QED
    BY <2>1, <2>2
<1>5. ~Value(s, e, env).ok => out = Error
  <2> SUFFICES ASSUME ~Value(s, e, env).ok PROVE out = Error
    OBVIOUS
  <2>1. Len(g.vals) + 1 \in 1 .. Len(g.expr.params)
    BY <1>3, <1>4
  <2>2. OfParts(s, g.expr, env) = Error
    BY <2>1 DEF OfParts
  <2>3. Value(s, g.expr, env) = Error
    BY <1>3, <2>2, EvaluationFacts
  <2>4. QED
    BY <1>2, <2>3, OutcomeFacts DEF FrameRight
<1>6. StackRight(s, env, Value(s, e, env), <<f>>)
  BY <1>4, FirstFrame
<1>7. f.expr = e
  BY DEF Frame
<1> HIDE DEF f, e
<1>8. FrameRight(s, env, out, f)
  <2>1. Len(<<f>>) = 1 /\ <<f>>[1] = f
    OBVIOUS
  <2>2. FrameRight(s, env, Value(s, e, env), f)
    BY <1>6, <2>1 DEF StackRight
  <2>3. QED
    BY <1>5, <1>7, <2>2 DEF FrameRight
<1>9. /\ Len(new) = Len(stack) + 1 /\ new[1] = f
      /\ \A i \in 1 .. Len(stack) : new[i + 1] = stack[i]
  BY PushIndices
<1> HIDE DEF new
<1>10. \A i \in 1 .. Len(new) : i = 1 \/ (i - 1 \in 1 .. Len(stack) /\ new[i] = stack[i - 1])
  <2> TAKE i \in 1 .. Len(new)
  <2>1. CASE i # 1
    <3>1. i - 1 \in 1 .. Len(stack) /\ (i - 1) + 1 = i
      BY <1>1, <1>9, <2>1
    <3>2. QED
      BY <1>9, <3>1
  <2>2. QED
    BY <2>1
<1>11. \A i \in 1 .. Len(new) : FrameRight(s, env, out, new[i])
  BY <1>8, <1>9, <1>10 DEF StackRight
<1>12. \A i \in 1 .. Len(new) - 1 : Inside(new[i], new[i + 1])
  <2> TAKE i \in 1 .. Len(new) - 1
  <2>1. i \in 1 .. Len(stack) /\ new[i + 1] = stack[i]
    BY <1>1, <1>9
  <2>2. CASE i = 1
    BY <1>7, <1>9, <2>1, <2>2 DEF Inside, e
  <2>3. CASE i # 1
    <3>1. i - 1 \in 1 .. Len(stack) - 1 /\ (i - 1) + 1 = i /\ i \in 1 .. Len(new)
      BY <1>1, <1>9, <2>1, <2>3
    <3>2. Inside(stack[i - 1], stack[(i - 1) + 1])
      BY <3>1 DEF StackRight
    <3>3. new[i] = stack[i - 1]
      BY <1>10, <2>3, <3>1
    <3>4. QED
      BY <2>1, <3>1, <3>2, <3>3
  <2>4. QED
    BY <2>2, <2>3
<1>13. Value(s, new[Len(new)].expr, env) = out
  <2>1. new[Len(new)] = stack[Len(stack)]
    BY <1>1, <1>9
  <2>2. QED
    BY <2>1 DEF StackRight
<1>14. StackRight(s, env, out, new)
  BY <1>11, <1>12, <1>13 DEF StackRight
<1>15. QED
  BY <1>14 DEF new, f, e

\* A level that returns its value leaves the one around it with one more parameter
\* that is right.
LEMMA FrameTakes ==
  ASSUME NEW s, MeaningOf(s), NEW env, NEW out, NEW f, NEW g,
         FrameRight(s, env, out, f), FrameRight(s, env, out, g), Inside(f, g),
         Value(s, f.expr, env).ok,
         NEW v, v = Value(s, f.expr, env).value,
         NEW h, h = [g EXCEPT !.vals = Append(@, v)]
  PROVE  FrameRight(s, env, out, h) /\ h.expr = g.expr
<1>1. /\ g = [expr |-> g.expr, vals |-> g.vals] /\ IsSeq(g.vals)
      /\ <<g.expr, env>> \in Evaluations(s)
      /\ ~Value(s, g.expr, env).ok => out = Error
      /\ \A j \in 1 .. Len(g.vals) : /\ Value(s, g.expr.params[j], env).ok
                                     /\ Value(s, g.expr.params[j], env).value = g.vals[j]
  BY DEF FrameRight, Inside
<1>2. h = [expr |-> g.expr, vals |-> Append(g.vals, v)]
  BY <1>1
<1>3. h.expr = g.expr /\ h.vals = Append(g.vals, v) /\ h = [expr |-> h.expr, vals |-> h.vals]
  BY <1>2
<1>4. /\ Len(g.vals) \in Nat /\ Len(h.vals) = Len(g.vals) + 1 /\ IsSeq(h.vals)
      /\ \A j \in 1 .. Len(g.vals) : h.vals[j] = g.vals[j]
      /\ h.vals[Len(g.vals) + 1] = v
  <2> DEFINE S == {g.vals[i] : i \in DOMAIN g.vals} \cup {v}
  <2>1. g.vals \in Seq(S)
    <3>1. g.vals \in Seq({g.vals[i] : i \in DOMAIN g.vals})
      BY <1>1 DEF IsSeq
    <3>2. QED
      BY <3>1, SeqMonotonic
  <2>2. v \in S
    OBVIOUS
  <2> HIDE DEF S
  <2>3. h.vals \in Seq(S)
    BY <1>3, <2>1, <2>2, AppendProperties
  <2>4. IsSeq(h.vals)
    BY <2>3, SeqIsSeq
  <2>5. Len(g.vals) \in Nat
    BY <2>1, LenProperties
  <2>6. /\ Len(h.vals) = Len(g.vals) + 1
        /\ \A j \in 1 .. Len(g.vals) : h.vals[j] = g.vals[j]
        /\ h.vals[Len(g.vals) + 1] = v
    BY <1>3, <2>1, <2>2, AppendProperties
  <2>7. QED
    BY <2>4, <2>5, <2>6
<1>5. Len(g.expr.params) \in Nat /\ g.expr.which = "call"
      /\ Len(g.vals) < Len(g.expr.params) /\ f.expr = g.expr.params[Len(g.vals) + 1]
  BY <1>1, EvaluationFacts DEF Inside
<1>6. \A j \in 1 .. Len(h.vals) : /\ Value(s, g.expr.params[j], env).ok
                                  /\ Value(s, g.expr.params[j], env).value = h.vals[j]
  <2> TAKE j \in 1 .. Len(h.vals)
  <2>1. j \in 1 .. Len(g.vals) \/ j = Len(g.vals) + 1
    BY <1>4
  <2>2. QED
    BY <1>1, <1>4, <1>5, <2>1
<1>7. Len(h.vals) <= Len(g.expr.params)
  BY <1>4, <1>5
<1>8. QED
  BY <1>1, <1>3, <1>4, <1>6, <1>7 DEF FrameRight

LEMMA PassRight ==
  ASSUME NEW s, MeaningOf(s), NEW env, NEW out, NEW stack, IsSeq(stack), Len(stack) > 1,
         StackRight(s, env, out, stack), Value(s, stack[1].expr, env).ok,
         NEW v, v = Value(s, stack[1].expr, env).value
  PROVE  StackRight(s, env, out, PassOut(stack, v))
<1> DEFINE g    == stack[2]
           h    == [g EXCEPT !.vals = Append(@, v)]
           rest == Tail(Tail(stack))
           new  == <<h>> \o rest
<1>1. Len(stack) \in Nat /\ 1 \in 1 .. Len(stack) - 1 /\ 2 \in 1 .. Len(stack)
      /\ 1 \in 1 .. Len(stack)
  BY LenProperties DEF IsSeq
<1>2. FrameRight(s, env, out, stack[1]) /\ FrameRight(s, env, out, g)
      /\ Inside(stack[1], stack[1 + 1])
  BY <1>1 DEF StackRight
<1>3. Inside(stack[1], g)
  BY <1>2
<1> HIDE DEF g
<1>4. FrameRight(s, env, out, h) /\ h.expr = g.expr
  BY <1>2, <1>3, FrameTakes
<1> HIDE DEF h
<1>5. /\ Len(rest) = Len(stack) - 2 /\ IsSeq(rest)
      /\ \A i \in 1 .. Len(stack) - 2 : rest[i] = stack[i + 2]
  BY PopIndices, PopFrame
<1> HIDE DEF rest
<1>6. /\ Len(new) = Len(rest) + 1 /\ new[1] = h
      /\ \A i \in 1 .. Len(rest) : new[i + 1] = rest[i]
  BY <1>5, PushIndices
<1> HIDE DEF new
<1>7. Len(new) = Len(stack) - 1
  BY <1>1, <1>5, <1>6
<1>8. \A i \in 1 .. Len(new) :
         i + 1 \in 1 .. Len(stack) /\ (i # 1 => new[i] = stack[i + 1])
  <2> TAKE i \in 1 .. Len(new)
  <2>1. i + 1 \in 1 .. Len(stack)
    BY <1>1, <1>7
  <2>2. CASE i # 1
    <3>1. /\ i - 1 \in 1 .. Len(rest) /\ i - 1 \in 1 .. Len(stack) - 2
          /\ (i - 1) + 1 = i /\ (i - 1) + 2 = i + 1
      BY <1>1, <1>5, <1>7, <2>2
    <3>2. new[i] = rest[i - 1] /\ rest[i - 1] = stack[i + 1]
      BY <1>5, <1>6, <3>1
    <3>3. QED
      BY <2>1, <3>2
  <2>3. QED
    BY <2>1, <2>2
<1>9. \A i \in 1 .. Len(new) : FrameRight(s, env, out, new[i])
  BY <1>4, <1>6, <1>8 DEF StackRight
<1>10. \A i \in 1 .. Len(new) : new[i].expr = stack[i + 1].expr
  <2> TAKE i \in 1 .. Len(new)
  <2>1. CASE i = 1
    BY <1>4, <1>6, <2>1 DEF g
  <2>2. QED
    BY <1>8, <2>1
<1>11. \A i \in 1 .. Len(new) - 1 : Inside(new[i], new[i + 1])
  <2> TAKE i \in 1 .. Len(new) - 1
  <2>1. /\ i \in 1 .. Len(new) /\ i + 1 \in 1 .. Len(new) /\ i + 1 # 1
        /\ i + 1 \in 1 .. Len(stack) - 1
    BY <1>1, <1>7
  <2>2. Inside(stack[i + 1], stack[(i + 1) + 1])
    BY <2>1 DEF StackRight
  <2>3. new[i].expr = stack[i + 1].expr /\ new[i + 1] = stack[(i + 1) + 1]
    BY <1>8, <1>10, <2>1
  <2>4. QED
    BY <2>2, <2>3 DEF Inside
<1>12. Value(s, new[Len(new)].expr, env) = out
  <2>1. Len(new) \in 1 .. Len(new) /\ Len(new) + 1 = Len(stack)
    BY <1>1, <1>7
  <2>2. new[Len(new)].expr = stack[Len(stack)].expr
    BY <1>10, <2>1
  <2>3. QED
    BY <2>2 DEF StackRight
<1>13. StackRight(s, env, out, new)
  BY <1>9, <1>11, <1>12 DEF StackRight
<1>14. QED
  BY <1>13 DEF new, rest, h, g, PassOut

\* The innermost level of a goroutine that evaluates.
LEMMA TopFrame ==
  ASSUME IInv, MInv, NEW t \in DOMAIN task, task[t].state = "evaluating"
  PROVE  /\ MeaningOf(script)
         /\ IsSeq(task[t].stack) /\ task[t].stack # <<>>
         /\ Len(task[t].stack) \in Nat /\ Len(task[t].stack) >= 1
         /\ Head(task[t].stack) = task[t].stack[1]
         /\ task[t].call.method \in {"evaluate", "call"}
         /\ StackRight(script, task[t].params, Expected(script, task[t]), task[t].stack)
         /\ FrameRight(script, task[t].params, Expected(script, task[t]), task[t].stack[1])
         /\ <<Expr(t), task[t].params>> \in Evaluations(script)
<1>1. IsSeq(task[t].stack) /\ task[t].stack # <<>>
  BY DEF IInv, Shapes, IsTask, TypeOK
<1>2. /\ Len(task[t].stack) \in Nat /\ Len(task[t].stack) >= 1
      /\ Head(task[t].stack) = task[t].stack[1]
  BY <1>1, StackIndices
<1>3. /\ task[t].call.method \in {"evaluate", "call"}
      /\ StackRight(script, task[t].params, Expected(script, task[t]), task[t].stack)
  BY DEF MInv, TasksRight, TaskRight
<1>4. FrameRight(script, task[t].params, Expected(script, task[t]), task[t].stack[1])
  BY <1>2, <1>3 DEF StackRight
<1>5. <<Expr(t), task[t].params>> \in Evaluations(script)
  BY <1>2, <1>4 DEF FrameRight, Expr
<1>6. QED
  BY <1>1, <1>2, <1>3, <1>4, <1>5, ScriptMeaning

\* The innermost evaluate returns the value of its expression.
LEMMA YieldRight ==
  ASSUME IInv, MInv, NEW t \in DOMAIN task, NEW D, CanMove(t, D),
         NEW ts, ts = [x \in D |-> task[x]], task[t].state = "evaluating",
         NEW res, Yield(ts, t, res), res = Value(script, Expr(t), task[t].params)
  PROVE  MInv'
<1> DEFINE env   == task[t].params
           stack == task[t].stack
           out   == Expected(script, task[t])
<1>1. /\ MeaningOf(script) /\ IsSeq(stack) /\ Len(stack) \in Nat /\ Len(stack) >= 1
      /\ Expr(t) = stack[1].expr
      /\ task[t].call.method \in {"evaluate", "call"}
      /\ StackRight(script, env, out, stack) /\ FrameRight(script, env, out, stack[1])
      /\ <<Expr(t), env>> \in Evaluations(script)
  <2>1. /\ MeaningOf(script) /\ IsSeq(stack) /\ Len(stack) \in Nat /\ Len(stack) >= 1
        /\ Head(stack) = stack[1]
        /\ task[t].call.method \in {"evaluate", "call"}
    BY TopFrame
  <2>2. StackRight(script, env, out, stack) /\ FrameRight(script, env, out, stack[1])
    BY TopFrame
  <2>3. <<Expr(t), env>> \in Evaluations(script)
    BY TopFrame
  <2>4. Expr(t) = stack[1].expr
    BY <2>1 DEF Expr
  <2>5. QED
    BY <2>1, <2>2, <2>3, <2>4
<1>2. res.ok \in BOOLEAN /\ (~res.ok => res = Error)
  <2>1. MeaningOf(script) /\ <<Expr(t), task[t].params>> \in Evaluations(script)
    BY <1>1
  <2>2. QED
    BY <2>1, EvaluationFacts
<1>3. Len(stack) > 1 \/ Len(stack) = 1
  BY <1>1, OneOrMore
<1>4. CASE res.ok /\ Len(stack) > 1
  <2> DEFINE r == Passing(t, res.value)
  <2>1. Moves(t, r, D) /\ Resolves(t, r)
    BY <1>4, PassMoves
  <2>2. /\ r.on = task[t].on /\ r.call = task[t].call /\ r.state = "evaluating"
        /\ r.stack = PassOut(stack, res.value) /\ r.params = env
    BY DEF Passing, GoingOn
  <2> HIDE DEF r
  <2>3. StackRight(script, env, out, PassOut(stack, res.value))
    BY <1>1, <1>4, PassRight
  <2>4. TaskRight(script, r)
    BY <1>1, <2>2, <2>3 DEF TaskRight, Expected
  <2>5. QED
    BY <2>1, <2>2, <2>4, MovesRight
<1>5. CASE ~(res.ok /\ Len(stack) > 1)
  <2> DEFINE object == IF res.ok /\ task[t].call.method = "evaluate"
                       THEN valueServer(res.value) ELSE Failed
  <2>1. Return(ts, t, res, object)
    BY <1>5 DEF Yield
  <2>2. res = out
    <3>1. CASE res.ok
      <4>1. ~(Len(stack) > 1)
        BY <1>5, <3>1, Zenon
      <4>2. Len(stack) = 1
        BY <1>3, <4>1, Zenon
      <4>3. QED
        BY <1>1, <4>2 DEF StackRight
    <3>2. CASE ~res.ok
      BY <1>1, <1>2, <3>2 DEF FrameRight
    <3>3. QED
      BY <3>1, <3>2
  <2>3. object = Made(task[t].call, res)
    BY <1>1 DEF Made
  <2> HIDE DEF object
  <2>4. QED
    BY <2>1, <2>2, <2>3, ReturnsRight DEF Expected
<1>6. QED
  BY <1>4, <1>5

\* A call that evaluate makes is the one its expression asks for.
LEMMA IssueRight ==
  ASSUME IInv, MInv, NEW t \in DOMAIN task, Child(t) \notin DOMAIN task,
         NEW req, Issue(t, req), Covered(script, req.on, req.call),
         Value(script, Expr(t), task[t].params) = Outcome(script, req.on, req.call)
  PROVE  MInv'
<1>1. Adds(Child(t), req)
  BY IssueAdds
<1>2. DOMAIN task \subseteq TaskIds
  BY DEF IInv, Shapes
<1>3. Len(Child(t)) # 1
  BY <1>2, ChildFacts
<1>4. \A x \in DOMAIN task : Child(x) = Child(t) => x = t
  <2> TAKE x \in DOMAIN task
  <2>1. /\ SubSeq(Child(x), 1, Len(Child(x)) - 1) = x
        /\ SubSeq(Child(t), 1, Len(Child(t)) - 1) = t
    BY <1>2, ChildFacts
  <2>2. QED
    BY <2>1
<1>5. QED
  BY <1>1, <1>3, <1>4, AddsRight DEF Expr

\* The parameters of a call are all there.
LEMMA AllThere ==
  ASSUME NEW s, MeaningOf(s), NEW env, NEW out, NEW f, FrameRight(s, env, out, f),
         f.expr.which = "call", f.expr.on # NullClient, Len(f.vals) = Len(f.expr.params)
  PROVE  /\ Value(s, f.expr, env) = Outcome(s, f.expr.on, call(f.expr.on, f.vals).call)
         /\ Covered(s, f.expr.on, call(f.expr.on, f.vals).call)
<1> DEFINE e    == f.expr
           vals == [i \in 1 .. Len(e.params) |-> Value(s, e.params[i], env).value]
<1>1. \A i \in 1 .. Len(e.params) : /\ Value(s, e.params[i], env).ok
                                    /\ Value(s, e.params[i], env).value = f.vals[i]
  BY DEF FrameRight
<1>2. f.vals = [i \in 1 .. Len(e.params) |-> f.vals[i]]
  BY LenProperties DEF FrameRight, IsSeq
<1>3. f.vals = vals
  BY <1>1, <1>2
<1>4. <<e, env>> \in Evaluations(s)
  BY DEF FrameRight
<1>5. OfParts(s, e, env) = Outcome(s, e.on, call(e.on, vals).call)
  BY <1>1 DEF OfParts
<1>6. Covered(s, e.on, call(e.on, vals).call)
  BY <1>1, <1>4, EvaluationFacts
<1>7. Value(s, e, env) = OfParts(s, e, env)
  BY <1>4, EvaluationFacts
<1>8. QED
  BY <1>3, <1>5, <1>6, <1>7

LEMMA EvalStepRight ==
  ASSUME IInv, MInv, NEW t \in DOMAIN task, EvalStep(t)
  PROVE  MInv'
<1> DEFINE env == task[t].params
           e   == Expr(t)
           out == Expected(script, task[t])
<1>1. task[t].state = "evaluating"
  BY DEF EvalStep, EvalLiteral, EvalParameter, EvalPreviousResult, EvalCall, EvalDefault,
         Resume, Evaluating
<1>2. /\ MeaningOf(script)
      /\ IsSeq(task[t].stack) /\ task[t].stack # <<>>
      /\ Head(task[t].stack) = task[t].stack[1]
      /\ task[t].call.method \in {"evaluate", "call"}
      /\ StackRight(script, env, out, task[t].stack)
      /\ FrameRight(script, env, out, task[t].stack[1])
      /\ <<e, env>> \in Evaluations(script)
  BY <1>1, TopFrame
<1>3. e = task[t].stack[1].expr /\ Vals(t) = task[t].stack[1].vals
  BY <1>2 DEF Expr, Vals
<1>4. Value(script, e, env) = OfParts(script, e, env)
  BY <1>2, EvaluationFacts
<1>5. Child(t) \notin DOMAIN task => CanMove(t, DOMAIN task)
  BY <1>1, Alone
<1>6. ASSUME Child(t) \notin DOMAIN task, NEW res, Yield(task, t, res),
             res = OfParts(script, e, env)
      PROVE  MInv'
  BY <1>1, <1>4, <1>5, <1>6, WholeTask, YieldRight
<1>7. ASSUME Child(t) \notin DOMAIN task, ReturnError(t), OfParts(script, e, env) = Error
      PROVE  MInv'
  <2>1. out = Error
    <3>1. ~Value(script, e, env).ok
      BY <1>4, <1>7, OutcomeFacts, Zenon
    <3>2. QED
      BY <1>2, <1>3, <3>1 DEF FrameRight
  <2>2. QED
    BY <1>5, <1>7, <2>1, ErrorRight DEF Expected
<1> HIDE DEF env, out
<1>8. CASE EvalLiteral(t)
  <2>1. e.which = "literal" /\ Child(t) \notin DOMAIN task /\ Yield(task, t, Ok(e.value))
    BY <1>8 DEF EvalLiteral, Evaluating
  <2> HIDE DEF e
  <2>2. OfParts(script, e, env) = Ok(e.value)
    BY <2>1 DEF OfParts
  <2>3. QED
    BY <1>6, <2>1, <2>2
<1>9. CASE EvalParameter(t)
  <2> DEFINE res == IF ~env.given \/ e.index >= Len(env.vals)
                    THEN Error ELSE Ok(env.vals[e.index + 1])
  <2>1. e.which = "parameter" /\ Child(t) \notin DOMAIN task /\ Yield(task, t, res)
    BY <1>9 DEF EvalParameter, Evaluating, env
  <2> HIDE DEF e
  <2>2. OfParts(script, e, env) = res
    BY <2>1 DEF OfParts
  <2> HIDE DEF res
  <2>3. QED
    BY <1>6, <2>1, <2>2
<1>10. CASE EvalPreviousResult(t)
  <2>1. e.which = "previousResult" /\ Child(t) \notin DOMAIN task
    BY <1>10 DEF EvalPreviousResult, Evaluating
  <2>2. CASE e.on = NullClient
    <3>1. ReturnError(t)
      BY <1>10, <2>2 DEF EvalPreviousResult
    <3> HIDE DEF e
    <3>2. OfParts(script, e, env) = Error
      BY <2>1, <2>2 DEF OfParts
    <3>3. QED
      BY <1>7, <2>1, <3>1, <3>2
  <2>3. CASE e.on # NullClient
    <3>1. Issue(t, read(e.on))
      BY <1>10, <2>3 DEF EvalPreviousResult
    <3> HIDE DEF e
    <3>2. OfParts(script, e, env) = Outcome(script, e.on, read(e.on).call)
      BY <2>1, <2>3 DEF OfParts
    <3>3. read(e.on).on = e.on /\ read(e.on).call.method = "read"
      BY DEF read, Request
    <3>4. Covered(script, read(e.on).on, read(e.on).call)
      BY <3>3 DEF Covered
    <3>5. QED
      BY <1>4, <2>1, <3>1, <3>2, <3>3, <3>4, IssueRight DEF e, env
  <2>4. QED
    BY <2>2, <2>3
<1>11. CASE EvalCall(t)
  <2>1. e.which = "call" /\ Child(t) \notin DOMAIN task
    BY <1>11 DEF EvalCall, Evaluating
  <2>2. CASE e.on = NullClient
    <3>1. ReturnError(t)
      BY <1>11, <2>2 DEF EvalCall
    <3> HIDE DEF e
    <3>2. OfParts(script, e, env) = Error
      BY <2>1, <2>2 DEF OfParts
    <3>3. QED
      BY <1>7, <2>1, <3>1, <3>2
  <2>3. CASE e.on # NullClient /\ Len(Vals(t)) < Len(e.params)
    <3> DEFINE f == Frame(e.params[Len(Vals(t)) + 1])
               r == Pushing(t, f)
    <3>1. \/ Len(Vals(t)) = Len(e.params)
          \/ /\ task' = [task EXCEPT ![t].stack = <<f>> \o @]
             /\ UNCHANGED <<script, received, obj>>
      BY <1>11, <2>3 DEF EvalCall, Frame
    <3>2. /\ Len(Vals(t)) # Len(e.params)
      <4>1. Len(Vals(t)) \in Nat /\ Len(e.params) \in Nat
        <5>1. IsSeq(Vals(t))
          BY <1>2, <1>3 DEF FrameRight
        <5>2. Len(Vals(t)) \in Nat
          BY <5>1, LenProperties DEF IsSeq
        <5>3. Len(e.params) \in Nat
          BY <1>2, <2>1, EvaluationFacts
        <5>4. QED
          BY <5>2, <5>3
      <4>2. QED
        BY <2>3, <4>1
    <3>3. Moves(t, r, DOMAIN task) /\ Resolves(t, r)
      <4> HIDE DEF f
      <4> QED  BY <1>1, <2>1, <3>1, <3>2, PushMoves
    <3>4. /\ r.on = task[t].on /\ r.call = task[t].call /\ r.state = "evaluating"
          /\ r.stack = <<f>> \o task[t].stack /\ r.params = env
      <4> HIDE DEF f
      <4> QED  BY DEF Pushing, GoingOn, env
    <3> HIDE DEF r
    <3>5. StackRight(script, env, out, <<f>> \o task[t].stack)
      BY <1>2, <1>3, <2>1, <2>3, PushRight
    <3>6. TaskRight(script, r)
      <4> HIDE DEF f
      <4> QED  BY <1>2, <3>4, <3>5 DEF TaskRight, Expected, out
    <3>7. QED
      BY <3>3, <3>4, <3>6, MovesRight
  <2>4. CASE e.on # NullClient /\ Len(Vals(t)) = Len(e.params) /\ Issue(t, call(e.on, Vals(t)))
    <3>1. call(e.on, Vals(t)).on = e.on
      BY DEF call, Request
    <3>2. /\ Value(script, e, env) = Outcome(script, e.on, call(e.on, Vals(t)).call)
          /\ Covered(script, e.on, call(e.on, Vals(t)).call)
      BY <1>2, <1>3, <2>1, <2>4, AllThere
    <3>3. QED
      BY <2>1, <2>4, <3>1, <3>2, IssueRight DEF env
  <2>5. QED
    BY <1>11, <2>2, <2>3, <2>4 DEF EvalCall
<1>12. CASE EvalDefault(t)
  <2>1. e.which = "unknown" /\ Child(t) \notin DOMAIN task /\ ReturnError(t)
    BY <1>12 DEF EvalDefault, Evaluating
  <2> HIDE DEF e
  <2>2. OfParts(script, e, env) = Error
    BY <2>1 DEF OfParts
  <2>3. QED
    BY <1>7, <2>1, <2>2
<1>13. CASE Resume(t)
  <2> DEFINE D   == DOMAIN task \ {Child(t)}
             res == task[Child(t)].result
  <2>1. Child(t) # t /\ Child(t) \in DOMAIN task /\ task[Child(t)].state = "done"
    BY <1>13, ChildFacts DEF Resume, IInv, Shapes
  <2>2. CanMove(t, D)
    BY <1>1, <2>1 DEF CanMove
  <2>3. Without(task, Child(t)) = [x \in D |-> task[x]]
    BY DEF Without
  <2>4. Yield(Without(task, Child(t)), t, res)
    BY <1>13 DEF Resume
  <2>5. res = Value(script, e, env)
    BY <2>1 DEF MInv, TasksRight, TaskRight, CallsAsked, AskedBy, Expr, env
  <2>6. QED
    BY <1>1, <2>2, <2>3, <2>4, <2>5, YieldRight DEF env
<1>14. QED
  BY <1>8, <1>9, <1>10, <1>11, <1>12, <1>13 DEF EvalStep

-------------------------------------------------------------------------------
(* The theorem *)

LEMMA InitMInv == Init => MInv
<1> SUFFICES ASSUME Init PROVE MInv
  OBVIOUS
<1>1. IInv
  BY InitIInv
<1>2. /\ obj = [q \in 0 .. Len(script) |-> IF q = 0 THEN calculatorServer ELSE Unresolved]
      /\ DOMAIN task = {} /\ MeaningOf(script)
  BY <1>1, ScriptMeaning DEF Init
<1>3. ObjectsRight
  BY <1>2 DEF ObjectsRight, MeaningOf
<1>4. QED
  BY <1>2, <1>3 DEF MInv, TasksRight, TargetsThere, CallsAsked

LEMMA NextKeepsMInv == IInv /\ MInv /\ [Next]_vars => MInv'
<1> SUFFICES ASSUME IInv, MInv, [Next]_vars PROVE MInv'
  OBVIOUS
<1>1. CASE Next
  BY <1>1, ReceiveRight, ClientReturnRight, StartCallRight, RefuseCallRight, HandleRight,
     EvalStepRight DEF Next, ServerNext
<1>2. CASE UNCHANGED vars
  <2>1. UNCHANGED <<script, received, obj, queue, task>>
    BY <1>2 DEF vars
  <2>2. TasksRight' /\ ObjectsRight' /\ TargetsThere' /\ CallsAsked'
    BY <2>1 DEF MInv, TasksRight, ObjectsRight, TargetsThere, CallsAsked
  <2>3. QED
    BY <2>2 DEF MInv
<1>3. QED
  BY <1>1, <1>2

LEMMA MeaningIsAnswered == IInv /\ MInv => AnswersCorrect
<1> SUFFICES ASSUME IInv, MInv, NEW q \in Questions, Answered(q)
             PROVE  /\ task[<<q>>].result = AnswerOf(script, q)
                    /\ obj[q] = ObjectOf(script, q)
  BY DEF AnswersCorrect
<1>1. /\ q \in Nat /\ q \in 0 .. Len(script) /\ <<q>> \in DOMAIN task
      /\ task[<<q>>].state = "done" /\ obj[q] # Unresolved
  <2>1. Len(script) \in Nat /\ ResolvedWhenAnswered
    BY DEF IInv, Shapes
  <2>2. obj[q] # Unresolved
    BY <2>1 DEF ResolvedWhenAnswered
  <2>3. QED
    BY <2>1, <2>2 DEF Questions, Answered
<1>2. obj[q] = ObjectOf(script, q)
  BY <1>1 DEF MInv, ObjectsRight
<1>3. Len(<<q>>) = 1 /\ <<q>>[1] = q
  BY <1>1, QuestionFacts
<1>4. task[<<q>>].on = script[q].on /\ task[<<q>>].call = script[q].call
  BY <1>1, <1>3 DEF MInv, TasksRight
<1>5. task[<<q>>].result = Expected(script, task[<<q>>])
  BY <1>1 DEF MInv, TasksRight, TaskRight
<1>6. QED
  BY <1>2, <1>4, <1>5 DEF Expected, AnswerOf

(***************************************************************************)
(* Whatever is asked, and however calls, callbacks and goroutines          *)
(* interleave, the server answers a question with what it means: the value *)
(* of its expression, or an error where one of its parts is one.           *)
(***************************************************************************)
THEOREM AnswersRight == Spec => []AnswersCorrect
  BY MeaningIsAnswered, InitMInv, NextKeepsMInv, Invariant, PTL DEF Spec
===============================================================================
