----------------------- MODULE CalculatorSession_proofs -----------------------
(***************************************************************************)
(* Proofs about CalculatorSession, for every set of programs: the session  *)
(* implements the server's specification, no assertion of a program fails  *)
(* whose expected values are what its questions mean, and a program with   *)
(* no callbacks takes a round trip for each stretch of questions.          *)
(*                                                                         *)
(* The invariant is about the messages under way.  The questions in the    *)
(* stream to the server are those sent and not received, in order; each    *)
(* call of a function of the client is under way once, as a call or as its *)
(* answer, while the server waits for it; the answers to questions are     *)
(* those the server gave.                                                  *)
(***************************************************************************)
EXTENDS CalculatorSession, CalculatorServer_proofs, FiniteSetTheorems

-------------------------------------------------------------------------------
(* The inductive invariant *)

ClientOK ==
    /\ program \in Programs /\ script = program.calls
    /\ status \in {"running", "done"}
    /\ status = "running" => step \in 1 .. Len(program.awaits)
    /\ sent \in 0 .. Len(script) /\ received \in 0 .. sent
    /\ IsSeq(c2s) /\ IsSeq(s2c)

\* The questions among the messages ms are low + 1, ..., high, in this order.
InOrder(ms, low, high) ==
    /\ \A i \in 1 .. Len(ms) : ms[i].type = "call" => ms[i].id \in low + 1 .. high
    /\ \A i, j \in 1 .. Len(ms) :
          i < j /\ ms[i].type = "call" /\ ms[j].type = "call" => ms[i].id < ms[j].id
    /\ \A q \in low + 1 .. high :
          \E i \in 1 .. Len(ms) : ms[i].type = "call" /\ ms[i].id = q

\* The server waits for the client to answer call t; ts are the calls.
Pending(ts, t) ==
    /\ t \in DOMAIN ts
    /\ ts[t].state = "queued" /\ ts[t].on.host = "client"

\* Question q of s has been answered, with res.
Arrived(s, ts, q, res) ==
    /\ q \in 1 .. Len(s) /\ <<q>> \in DOMAIN ts
    /\ ts[<<q>>].state = "done" /\ ts[<<q>>].result = res

\* What a message to the client says of the server, and what a message to the server
\* says of it.
ToClientOK(s, ts, m) ==
    /\ m.type = "call" => /\ Pending(ts, m.id)
                          /\ m.on = ts[m.id].on.id /\ m.call = ts[m.id].call
    /\ m.type = "return" => Arrived(s, ts, m.id, m.result)

ToServerOK(ts, m) ==
    m.type = "return" => /\ Pending(ts, m.id)
                         /\ m.result = ClientAnswer(ts[m.id].on.id, ts[m.id].call)

\* No two messages of a type are about the same call.
Distinct(ms, type) ==
    \A i, j \in 1 .. Len(ms) :
        ms[i].type = type /\ ms[j].type = type /\ ms[i].id = ms[j].id => i = j

\* No call is both on its way and answered.
Apart(ms, replies) ==
    \A i \in 1 .. Len(ms), j \in 1 .. Len(replies) :
        ms[i].type = "call" /\ replies[j].type = "return" => ms[i].id # replies[j].id

SInv ==
    /\ ClientOK
    /\ InOrder(c2s, received, sent)
    /\ \A i \in 1 .. Len(s2c) : ToClientOK(script, task, s2c[i])
    /\ \A i \in 1 .. Len(c2s) : ToServerOK(task, c2s[i])
    /\ Distinct(s2c, "call") /\ Distinct(c2s, "return") /\ Apart(s2c, c2s)
    /\ \A q \in DOMAIN got : Arrived(script, task, q, got[q])

SessionInv == IInv /\ MInv /\ SInv

-------------------------------------------------------------------------------
(* Streams of messages *)

LEMMA StreamTail ==
  ASSUME NEW ms, IsSeq(ms), ms # <<>>
  PROVE  /\ IsSeq(Tail(ms)) /\ Len(ms) \in Nat /\ Len(ms) >= 1
         /\ Len(Tail(ms)) = Len(ms) - 1 /\ Head(ms) = ms[1]
         /\ \A i \in 1 .. Len(Tail(ms)) : Tail(ms)[i] = ms[i + 1]
<1> DEFINE S == {ms[i] : i \in DOMAIN ms}
<1>1. ms \in Seq(S)
  BY DEF IsSeq
<1> HIDE DEF S
<1>2. Tail(ms) \in Seq(S)
  BY <1>1, HeadTailProperties
<1>3. IsSeq(Tail(ms))
  BY <1>2, SeqIsSeq
<1>4. QED
  BY <1>1, <1>3, HeadTailProperties, LenProperties, EmptySeq

LEMMA StreamAppend ==
  ASSUME NEW ms, IsSeq(ms), NEW m
  PROVE  /\ IsSeq(Append(ms, m)) /\ Len(ms) \in Nat
         /\ Len(Append(ms, m)) = Len(ms) + 1
         /\ \A i \in 1 .. Len(ms) : Append(ms, m)[i] = ms[i]
         /\ Append(ms, m)[Len(ms) + 1] = m
<1> DEFINE S == {ms[i] : i \in DOMAIN ms} \cup {m}
<1>1. ms \in Seq(S) /\ m \in S
  <2>1. ms \in Seq({ms[i] : i \in DOMAIN ms})
    BY DEF IsSeq
  <2>2. QED
    BY <2>1
<1> HIDE DEF S
<1>2. Append(ms, m) \in Seq(S)
  BY <1>1, AppendProperties
<1>3. IsSeq(Append(ms, m))
  BY <1>2, SeqIsSeq
<1>4. QED
  BY <1>1, <1>3, AppendProperties, LenProperties

\* Taking a message from the stream to the server.
LEMMA TailApart ==
  ASSUME NEW to, NEW ms, IsSeq(ms), ms # <<>>, Distinct(ms, "return"), Apart(to, ms)
  PROVE  Distinct(Tail(ms), "return") /\ Apart(to, Tail(ms))
<1>1. /\ Len(ms) \in Nat /\ Len(Tail(ms)) = Len(ms) - 1
      /\ \A i \in 1 .. Len(Tail(ms)) : Tail(ms)[i] = ms[i + 1]
  BY StreamTail
<1>2. \A i \in 1 .. Len(Tail(ms)) : i + 1 \in 1 .. Len(ms)
  BY <1>1
<1>3. ASSUME NEW i \in 1 .. Len(Tail(ms)), NEW j \in 1 .. Len(Tail(ms)),
             Tail(ms)[i].type = "return", Tail(ms)[j].type = "return",
             Tail(ms)[i].id = Tail(ms)[j].id
      PROVE  i = j
  <2>1. i + 1 = j + 1
    BY <1>1, <1>2, <1>3 DEF Distinct
  <2>2. QED
    BY <2>1
<1>4. Apart(to, Tail(ms))
  BY <1>1, <1>2 DEF Apart
<1>5. QED
  BY <1>3, <1>4 DEF Distinct

\* The questions are kept in order when one is taken from the stream, when another
\* message is, and when an answer is put in it.
LEMMA NextQuestion ==
  ASSUME NEW ms, IsSeq(ms), ms # <<>>, NEW low \in Nat, NEW high \in Nat,
         InOrder(ms, low, high), Head(ms).type = "call"
  PROVE  /\ Head(ms).id = low + 1 /\ low < high
         /\ InOrder(Tail(ms), low + 1, high)
<1>1. /\ Len(ms) \in Nat /\ Len(ms) >= 1 /\ Len(Tail(ms)) = Len(ms) - 1
      /\ Head(ms) = ms[1]
      /\ \A i \in 1 .. Len(Tail(ms)) : Tail(ms)[i] = ms[i + 1]
  BY StreamTail
<1>2. ms[1].id \in low + 1 .. high
  BY <1>1 DEF InOrder
<1>3. ms[1].id = low + 1
  <2>1. PICK i \in 1 .. Len(ms) : ms[i].type = "call" /\ ms[i].id = low + 1
    BY <1>2 DEF InOrder
  <2>2. i # 1 => ms[1].id < ms[i].id
    BY <1>1, <2>1 DEF InOrder
  <2>3. QED
    BY <1>2, <2>1, <2>2
<1>4. \A i \in 1 .. Len(Tail(ms)) : Tail(ms)[i].type = "call" =>
         Tail(ms)[i].id \in low + 1 + 1 .. high
  BY <1>1, <1>3 DEF InOrder
<1>5. \A i, j \in 1 .. Len(Tail(ms)) :
         i < j /\ Tail(ms)[i].type = "call" /\ Tail(ms)[j].type = "call"
           => Tail(ms)[i].id < Tail(ms)[j].id
  BY <1>1 DEF InOrder
<1>6. ASSUME NEW q \in low + 1 + 1 .. high
      PROVE  \E i \in 1 .. Len(Tail(ms)) : Tail(ms)[i].type = "call" /\ Tail(ms)[i].id = q
  <2>1. PICK i \in 1 .. Len(ms) : ms[i].type = "call" /\ ms[i].id = q
    BY <1>6 DEF InOrder
  <2>2. i - 1 \in 1 .. Len(Tail(ms)) /\ Tail(ms)[i - 1] = ms[i]
    BY <1>1, <1>3, <2>1
  <2>3. QED
    BY <2>1, <2>2
<1>7. QED
  BY <1>1, <1>2, <1>3, <1>4, <1>5, <1>6 DEF InOrder

LEMMA ReplyTaken ==
  ASSUME NEW ms, IsSeq(ms), ms # <<>>, NEW low \in Nat, NEW high \in Nat,
         InOrder(ms, low, high), Head(ms).type # "call"
  PROVE  InOrder(Tail(ms), low, high)
<1>1. /\ Len(ms) \in Nat /\ Len(ms) >= 1 /\ Len(Tail(ms)) = Len(ms) - 1
      /\ Head(ms) = ms[1]
      /\ \A i \in 1 .. Len(Tail(ms)) : Tail(ms)[i] = ms[i + 1]
  BY StreamTail
<1>2. ASSUME NEW q \in low + 1 .. high
      PROVE  \E i \in 1 .. Len(Tail(ms)) : Tail(ms)[i].type = "call" /\ Tail(ms)[i].id = q
  <2>1. PICK i \in 1 .. Len(ms) : ms[i].type = "call" /\ ms[i].id = q
    BY <1>2 DEF InOrder
  <2>2. i - 1 \in 1 .. Len(Tail(ms)) /\ Tail(ms)[i - 1] = ms[i]
    BY <1>1, <2>1
  <2>3. QED
    BY <2>1, <2>2
<1>3. \A i \in 1 .. Len(Tail(ms)) : Tail(ms)[i].type = "call" =>
         Tail(ms)[i].id \in low + 1 .. high
  BY <1>1 DEF InOrder
<1>4. \A i, j \in 1 .. Len(Tail(ms)) :
         i < j /\ Tail(ms)[i].type = "call" /\ Tail(ms)[j].type = "call"
           => Tail(ms)[i].id < Tail(ms)[j].id
  BY <1>1 DEF InOrder
<1>5. QED
  BY <1>2, <1>3, <1>4 DEF InOrder

LEMMA ReplyPut ==
  ASSUME NEW ms, IsSeq(ms), NEW low \in Nat, NEW high \in Nat,
         InOrder(ms, low, high), NEW m, m.type # "call"
  PROVE  InOrder(Append(ms, m), low, high)
<1> DEFINE new == Append(ms, m)
<1>1. /\ Len(ms) \in Nat /\ Len(new) = Len(ms) + 1
      /\ \A i \in 1 .. Len(ms) : new[i] = ms[i]
      /\ new[Len(ms) + 1] = m
  BY StreamAppend
<1> HIDE DEF new
<1>2. \A i \in 1 .. Len(new) : new[i].type = "call" => i \in 1 .. Len(ms)
  BY <1>1
<1>3. \A i \in 1 .. Len(ms) : i \in 1 .. Len(new)
  BY <1>1
<1>4. InOrder(new, low, high)
  BY <1>1, <1>2, <1>3 DEF InOrder
<1>5. QED
  BY <1>4 DEF new

LEMMA StreamConcat ==
  ASSUME NEW ms, IsSeq(ms), NEW f, IsSeq(f), NEW new, new = ms \o f
  PROVE  /\ IsSeq(new) /\ Len(ms) \in Nat /\ Len(new) = Len(ms) + Len(f)
         /\ \A i \in 1 .. Len(ms) : new[i] = ms[i]
         /\ \A i \in 1 .. Len(f) : new[Len(ms) + i] = f[i]
<1> DEFINE S == {ms[i] : i \in DOMAIN ms} \cup {f[i] : i \in DOMAIN f}
<1>1. ms \in Seq(S) /\ f \in Seq(S)
  <2>1. ms \in Seq({ms[i] : i \in DOMAIN ms}) /\ f \in Seq({f[i] : i \in DOMAIN f})
    BY DEF IsSeq
  <2>2. QED
    BY <2>1
<1> HIDE DEF S
<1>2. Len(f) \in Nat /\ Len(ms) \in Nat
  BY <1>1, LenProperties
<1>3. /\ ms \o f \in Seq(S) /\ Len(ms \o f) = Len(ms) + Len(f)
      /\ \A i \in 1 .. Len(ms) + Len(f) :
            (ms \o f)[i] = IF i <= Len(ms) THEN ms[i] ELSE f[i - Len(ms)]
  BY <1>1, ConcatProperties
<1>4. IsSeq(ms \o f)
  BY <1>3, SeqIsSeq
<1>5. ASSUME NEW i \in 1 .. Len(f) PROVE (ms \o f)[Len(ms) + i] = f[i]
  BY <1>2, <1>3
<1>6. QED
  BY <1>2, <1>3, <1>4, <1>5

LEMMA BurstFacts ==
  ASSUME NEW first \in Nat, NEW last \in Nat, first <= last
  PROVE  /\ IsSeq(Burst(first, last)) /\ Len(Burst(first, last)) = last - first + 1
         /\ \A i \in 1 .. last - first + 1 :
               Burst(first, last)[i] = Question(first + i - 1)
<1> DEFINE n == last - first + 1
           b == Burst(first, last)
           T == {Question(q) : q \in Nat}
<1>1. n \in Nat /\ \A i \in 1 .. n : first + i - 1 \in Nat
  OBVIOUS
<1>2. b = [i \in 1 .. n |-> Question(first + i - 1)]
  BY DEF Burst
<1> HIDE DEF n, b
<1>3. b \in [1 .. n -> T] /\ \A i \in 1 .. n : b[i] = Question(first + i - 1)
  BY <1>1, <1>2
<1> HIDE DEF T
<1>4. b \in Seq(T) /\ DOMAIN b = 1 .. n
  BY <1>1, <1>3, SeqDef
<1>5. IsSeq(b) /\ Len(b) = n
  BY <1>1, <1>4, SeqIsSeq, LenProperties
<1>6. QED
  BY <1>3, <1>5 DEF n, b

\* The messages b are the questions high + 1, ..., last.
IsBurst(b, high, last) ==
    /\ IsSeq(b) /\ Len(b) = last - high
    /\ \A i \in 1 .. last - high : b[i] = Question(high + i)

LEMMA BurstIndices ==
  ASSUME NEW high \in Nat, NEW last \in Nat, high < last
  PROVE  IsBurst(Burst(high + 1, last), high, last)
<1> DEFINE b == Burst(high + 1, last)
<1>1. high + 1 \in Nat /\ high + 1 <= last /\ last - (high + 1) + 1 = last - high
  OBVIOUS
<1>2. \A i \in 1 .. last - high : high + 1 + i - 1 = high + i
  OBVIOUS
<1>3. IsSeq(b) /\ Len(b) = last - (high + 1) + 1
  BY <1>1, BurstFacts
<1>4. \A i \in 1 .. last - (high + 1) + 1 : b[i] = Question(high + 1 + i - 1)
  BY <1>1, BurstFacts
<1> HIDE DEF b
<1>5. IsBurst(b, high, last)
  BY <1>1, <1>2, <1>3, <1>4 DEF IsBurst
<1>6. QED
  BY <1>5 DEF b

LEMMA BurstPut ==
  ASSUME NEW ms, IsSeq(ms), NEW low \in Nat, NEW high \in Nat, NEW last \in Nat,
         low <= high, high < last, InOrder(ms, low, high),
         NEW b, IsBurst(b, high, last), NEW new, new = ms \o b
  PROVE  /\ IsSeq(new) /\ InOrder(new, low, last)
         /\ Len(ms) \in Nat /\ Len(new) \in Nat /\ Len(ms) <= Len(new)
         /\ \A i \in 1 .. Len(ms) : new[i] = ms[i]
<1> DEFINE n == last - high
<1>1. n \in Nat
  OBVIOUS
<1>2. /\ Len(ms) \in Nat /\ IsSeq(new) /\ Len(new) = Len(ms) + n
      /\ \A i \in 1 .. Len(ms) : new[i] = ms[i]
      /\ \A i \in 1 .. n : new[Len(ms) + i] = Question(high + i)
  <2>1. IsSeq(b) /\ Len(b) = n /\ \A i \in 1 .. n : b[i] = Question(high + i)
    BY DEF IsBurst
  <2> HIDE DEF n
  <2>2. Len(ms) \in Nat /\ IsSeq(new) /\ Len(new) = Len(ms) + Len(b)
    BY <2>1, StreamConcat
  <2>3. \A i \in 1 .. Len(ms) : new[i] = ms[i]
    BY <2>1, StreamConcat
  <2>4. \A i \in 1 .. Len(b) : new[Len(ms) + i] = b[i]
    BY <2>1, StreamConcat
  <2>5. QED
    BY <2>1, <2>2, <2>3, <2>4
<1>3. \A q : Question(q).type = "call" /\ Question(q).id = q
  BY DEF Question
<1> HIDE DEF n
<1>4. \A i \in 1 .. Len(new) : i \notin 1 .. Len(ms) =>
         /\ i - Len(ms) \in 1 .. n /\ new[i].type = "call"
         /\ new[i].id = high + (i - Len(ms))
  <2> SUFFICES ASSUME NEW i \in 1 .. Len(new), i \notin 1 .. Len(ms)
               PROVE  /\ i - Len(ms) \in 1 .. n /\ new[i].type = "call"
                      /\ new[i].id = high + (i - Len(ms))
    OBVIOUS
  <2>1. i - Len(ms) \in 1 .. n /\ Len(ms) + (i - Len(ms)) = i
    BY <1>1, <1>2
  <2>2. new[i] = Question(high + (i - Len(ms)))
    BY <1>2, <2>1
  <2>3. QED
    BY <1>3, <2>1, <2>2
<1>5. \A i \in 1 .. Len(new) : new[i].type = "call" => new[i].id \in low + 1 .. last
  <2> SUFFICES ASSUME NEW i \in 1 .. Len(new), new[i].type = "call"
               PROVE  new[i].id \in low + 1 .. last
    OBVIOUS
  <2>1. CASE i \in 1 .. Len(ms)
    <3>1. new[i].id \in low + 1 .. high
      BY <1>2, <2>1 DEF InOrder
    <3>2. QED
      BY <3>1
  <2>2. CASE i \notin 1 .. Len(ms)
    BY <1>4, <2>2 DEF n
  <2>3. QED
    BY <2>1, <2>2
<1>6. \A i, j \in 1 .. Len(new) :
          i < j /\ new[i].type = "call" /\ new[j].type = "call" => new[i].id < new[j].id
  <2> SUFFICES ASSUME NEW i \in 1 .. Len(new), NEW j \in 1 .. Len(new), i < j,
                      new[i].type = "call", new[j].type = "call"
               PROVE  new[i].id < new[j].id
    OBVIOUS
  <2>1. CASE j \in 1 .. Len(ms)
    <3>1. i \in 1 .. Len(ms)
      BY <1>2, <2>1
    <3>2. QED
      BY <1>2, <2>1, <3>1 DEF InOrder
  <2>2. CASE j \notin 1 .. Len(ms) /\ i \in 1 .. Len(ms)
    <3>1. new[i].id \in low + 1 .. high
      BY <1>2, <2>2 DEF InOrder
    <3>2. j - Len(ms) \in 1 .. n /\ new[j].id = high + (j - Len(ms))
      BY <1>4, <2>2
    <3>3. PICK k \in 1 .. n : new[j].id = high + k
      BY <3>2
    <3>4. \A x \in low + 1 .. high : x < high + k
      BY <1>1
    <3>5. QED
      BY <3>1, <3>3, <3>4
  <2>3. CASE j \notin 1 .. Len(ms) /\ i \notin 1 .. Len(ms)
    <3>1. new[i].id = high + (i - Len(ms)) /\ new[j].id = high + (j - Len(ms))
      BY <1>4, <2>3
    <3>2. high + (i - Len(ms)) < high + (j - Len(ms))
      BY <1>2
    <3>3. QED
      BY <3>1, <3>2
  <2>4. QED
    BY <2>1, <2>2, <2>3
<1>7. ASSUME NEW q \in low + 1 .. last
       PROVE  \E i \in 1 .. Len(new) : new[i].type = "call" /\ new[i].id = q
  <2>1. CASE q <= high
    <3>1. q \in low + 1 .. high
      BY <1>7, <2>1
    <3>2. PICK i \in 1 .. Len(ms) : ms[i].type = "call" /\ ms[i].id = q
      BY <3>1 DEF InOrder
    <3>3. i \in 1 .. Len(new) /\ new[i] = ms[i]
      BY <1>1, <1>2, <3>2
    <3>4. QED
      BY <3>2, <3>3
  <2>2. CASE q > high
    <3>1. q - high \in 1 .. n /\ high + (q - high) = q
      BY <1>7, <2>2 DEF n
    <3>2. new[Len(ms) + (q - high)] = Question(q)
      BY <1>2, <3>1
    <3>3. Len(ms) + (q - high) \in 1 .. Len(new)
      BY <1>1, <1>2, <3>1
    <3>4. QED
      BY <1>3, <3>2, <3>3
  <2>3. QED
    BY <1>7, <2>1, <2>2
<1>8. InOrder(new, low, last)
  BY <1>5, <1>6, <1>7 DEF InOrder
<1>9. QED
  BY <1>1, <1>2, <1>4, <1>8

\* What is in the stream and no question was there before.
LEMMA BurstAsks ==
  ASSUME NEW ms, IsSeq(ms), NEW low \in Nat, NEW high \in Nat, NEW last \in Nat,
         low <= high, high < last, InOrder(ms, low, high),
         NEW b, IsBurst(b, high, last), NEW new, new = ms \o b,
         NEW i \in 1 .. Len(new), new[i].type # "call"
  PROVE  i \in 1 .. Len(ms)
<1>1. Len(ms) \in Nat /\ Len(new) = Len(ms) + (last - high)
  <2>1. IsSeq(b) /\ Len(b) = last - high
    BY DEF IsBurst
  <2>2. Len(ms) \in Nat /\ Len(new) = Len(ms) + Len(b)
    <3>1. \A m, f, c : IsSeq(m) /\ IsSeq(f) /\ c = m \o f
                         => Len(m) \in Nat /\ Len(c) = Len(m) + Len(f)
      BY StreamConcat
    <3>2. QED
      BY <2>1, <3>1
  <2>3. QED
    BY <2>1, <2>2
<1>2. \A j \in 1 .. last - high : new[Len(ms) + j] = Question(high + j)
  <2>1. IsSeq(b) /\ Len(b) = last - high
    BY DEF IsBurst
  <2>2. \A j \in 1 .. Len(b) : new[Len(ms) + j] = b[j]
    BY <2>1, StreamConcat
  <2>3. QED
    BY <2>1, <2>2 DEF IsBurst
<1>3. \A q : Question(q).type = "call"
  BY DEF Question
<1>4. i > Len(ms) => i - Len(ms) \in 1 .. last - high /\ Len(ms) + (i - Len(ms)) = i
  BY <1>1
<1>5. ~(i > Len(ms))
  BY <1>2, <1>3, <1>4
<1>6. QED
  BY <1>1, <1>5

-------------------------------------------------------------------------------
(* What a step of the server leaves alone *)

LEMMA ReturnLeaves ==
  ASSUME NEW ts, NEW t, NEW res, NEW object, Return(ts, t, res, object),
         NEW x \in DOMAIN ts, x # t
  PROVE  x \in DOMAIN task' /\ task'[x] = ts[x]
  BY DEF Return

LEMMA YieldLeaves ==
  ASSUME NEW ts, NEW t, NEW res, Yield(ts, t, res), NEW x \in DOMAIN ts, x # t
  PROVE  x \in DOMAIN task' /\ task'[x] = ts[x]
<1>1. CASE res.ok /\ Len(task[t].stack) > 1
  BY <1>1 DEF Yield
<1>2. CASE ~(res.ok /\ Len(task[t].stack) > 1)
  <2>1. Return(ts, t, res, IF res.ok /\ task[t].call.method = "evaluate"
                           THEN valueServer(res.value) ELSE Failed)
    BY <1>2 DEF Yield
  <2>2. QED
    BY <2>1, ReturnLeaves
<1>3. QED
  BY <1>1, <1>2

\* The server neither receives a question nor answers in the client's place.
LEMMA PendingStays ==
  ASSUME IInv, ServerNext, NEW x, Pending(task, x)
  PROVE  x \in DOMAIN task' /\ task'[x] = task[x]
<1>1. x \in DOMAIN task /\ task[x].state = "queued" /\ task[x].on.host = "client"
  BY DEF Pending
<1>2. ASSUME NEW o \in DOMAIN obj, StartCall(o)
      PROVE  x \in DOMAIN task' /\ task'[x] = task[x]
  <2>1. Head(queue[o]) # x
    BY <1>1, <1>2, HeadWaits DEF StartCall
  <2>2. QED
    BY <1>1, <1>2, <2>1 DEF StartCall
<1>3. ASSUME NEW o \in DOMAIN obj, RefuseCall(o)
      PROVE  x \in DOMAIN task' /\ task'[x] = task[x]
  <2>1. Head(queue[o]) # x
    BY <1>1, <1>3, HeadWaits DEF RefuseCall
  <2>2. QED
    BY <1>1, <1>3, <2>1, ReturnLeaves DEF RefuseCall, ReturnError
<1>4. ASSUME NEW t \in DOMAIN task, Handle(t)
      PROVE  x \in DOMAIN task' /\ task'[x] = task[x]
  <2>1. t # x
    BY <1>1, <1>4 DEF Handle, Read, DefFunction, GetOperator, Evaluate, CallOperator,
                      CallDefined, Running
  <2>2. ASSUME NEW expr, NEW params, Begin(t, expr, params)
        PROVE  x \in DOMAIN task' /\ task'[x] = task[x]
    BY <1>1, <2>1, <2>2 DEF Begin
  <2>3. ASSUME NEW res, NEW object, Return(task, t, res, object)
        PROVE  x \in DOMAIN task' /\ task'[x] = task[x]
    BY <1>1, <2>1, <2>3, ReturnLeaves
  <2>4. (\E expr, params : Begin(t, expr, params))
          \/ \E res, object : Return(task, t, res, object)
    BY <1>4 DEF Handle, Read, DefFunction, GetOperator, Evaluate, CallOperator,
                CallDefined, ReturnError
  <2>5. QED
    BY <2>2, <2>3, <2>4
<1>5. ASSUME NEW t \in DOMAIN task, EvalStep(t)
      PROVE  x \in DOMAIN task' /\ task'[x] = task[x]
  <2>1. t # x /\ task[t].state = "evaluating"
    BY <1>1, <1>5 DEF EvalStep, EvalLiteral, EvalParameter, EvalPreviousResult, EvalCall,
                      EvalDefault, Resume, Evaluating
  <2>2. ASSUME NEW res, Yield(task, t, res)
        PROVE  x \in DOMAIN task' /\ task'[x] = task[x]
    BY <1>1, <2>1, <2>2, YieldLeaves
  <2>3. ASSUME ReturnError(t)
        PROVE  x \in DOMAIN task' /\ task'[x] = task[x]
    BY <1>1, <2>1, <2>3, ReturnLeaves DEF ReturnError
  <2>4. ASSUME NEW req, Issue(t, req), Child(t) \notin DOMAIN task
        PROVE  x \in DOMAIN task' /\ task'[x] = task[x]
    BY <1>1, <2>4 DEF Issue, Deliver, Put
  <2>5. ASSUME NEW frame, task' = [task EXCEPT ![t].stack = <<frame>> \o @]
        PROVE  x \in DOMAIN task' /\ task'[x] = task[x]
    BY <1>1, <2>1, <2>5
  <2>6. CASE EvalLiteral(t)
    BY <2>2, <2>6 DEF EvalLiteral
  <2>7. CASE EvalParameter(t)
    BY <2>2, <2>7 DEF EvalParameter
  <2>8. CASE EvalPreviousResult(t)
    BY <2>3, <2>4, <2>8 DEF EvalPreviousResult, Evaluating
  <2>9. CASE EvalCall(t)
    BY <2>3, <2>4, <2>5, <2>9 DEF EvalCall, Evaluating
  <2>10. CASE EvalDefault(t)
    BY <2>3, <2>10 DEF EvalDefault
  <2>11. CASE Resume(t)
    <3> DEFINE ts == Without(task, Child(t))
    <3>1. Yield(ts, t, task[Child(t)].result) /\ Child(t) # x
      BY <1>1, <2>11 DEF Resume
    <3>2. x \in DOMAIN ts /\ ts[x] = task[x]
      BY <1>1, <3>1 DEF Without
    <3> HIDE DEF ts
    <3>3. QED
      BY <2>1, <3>1, <3>2, YieldLeaves
  <2>12. QED
    BY <1>5, <2>6, <2>7, <2>8, <2>9, <2>10, <2>11 DEF EvalStep
<1>6. QED
  BY <1>2, <1>3, <1>4, <1>5 DEF ServerNext

LEMMA ServerKeeps ==
  ASSUME ServerNext
  PROVE  UNCHANGED <<script, received>>
<1>1. ASSUME NEW o \in DOMAIN obj, StartCall(o) \/ RefuseCall(o)
      PROVE  UNCHANGED <<script, received>>
  BY <1>1 DEF StartCall, RefuseCall, ReturnError, Return
<1>2. ASSUME NEW t \in DOMAIN task, Handle(t)
      PROVE  UNCHANGED <<script, received>>
  BY <1>2 DEF Handle, Read, DefFunction, GetOperator, Evaluate, CallOperator, CallDefined,
              ReturnError, Return, Begin
<1>3. ASSUME NEW t \in DOMAIN task, EvalStep(t)
      PROVE  UNCHANGED <<script, received>>
  <2>1. ASSUME NEW ts, NEW res, Yield(ts, t, res) PROVE UNCHANGED <<script, received>>
    BY <2>1 DEF Yield, Return
  <2>2. ASSUME NEW req, Issue(t, req) PROVE UNCHANGED <<script, received>>
    BY <2>2 DEF Issue
  <2>3. ASSUME ReturnError(t) PROVE UNCHANGED <<script, received>>
    BY <2>3 DEF ReturnError, Return
  <2>4. QED
    BY <1>3, <2>1, <2>2, <2>3 DEF EvalStep, EvalLiteral, EvalParameter, EvalPreviousResult,
                                  EvalCall, EvalDefault, Resume
<1>4. QED
  BY <1>1, <1>2, <1>3 DEF ServerNext

\* A call that was not there has just been made.
LEMMA NewCall ==
  ASSUME IInv, Next, NEW t \in DOMAIN task', t \notin DOMAIN task
  PROVE  task'[t].state = "queued"
<1>1. ASSUME NEW k, NEW req, Adds(k, req)
      PROVE  task'[t].state = "queued"
  <2>1. t = k /\ task'[k] = NewTask(req)
    BY <1>1, AddsTask
  <2>2. QED
    BY <2>1, NewTaskIsTask
<1>2. ASSUME NEW x, NEW r, NEW D, Moves(x, r, D)
      PROVE  FALSE
  BY <1>2, MovesTask
<1>3. QED
  BY <1>1, <1>2, NextKind DEF AddsOne, MovesOne

\* What has been answered remains so.
LEMMA ArrivedStays ==
  ASSUME IInv, [Next]_vars, NEW q, NEW res, Arrived(script, task, q, res)
  PROVE  Arrived(script', task', q, res)
<1>1. CASE Next
  <2>1. q \in Questions /\ Answered(q)
    BY DEF Arrived, Questions, Answered
  <2>2. Answered(q)' /\ task'[<<q>>].result = task[<<q>>].result
    BY <1>1, <2>1, AnswersStay
  <2>3. script' = script
    BY <1>1, NextKind DEF AddsOne, MovesOne, Adds, Moves
  <2>4. QED
    BY <2>2, <2>3 DEF Arrived, Answered
<1>2. CASE UNCHANGED vars
  BY <1>2 DEF vars
<1>3. QED
  BY <1>1, <1>2

\* A message stays right while the call it is about stays as it is.
LEMMA ToClientStays ==
  ASSUME IInv, [Next]_vars, NEW m, ToClientOK(script, task, m),
         m.type = "call" => m.id \in DOMAIN task' /\ task'[m.id] = task[m.id]
  PROVE  ToClientOK(script', task', m)
<1>1. m.type = "return" => Arrived(script', task', m.id, m.result)
  BY ArrivedStays DEF ToClientOK
<1>2. QED
  BY <1>1 DEF ToClientOK, Pending

LEMMA ToServerStays ==
  ASSUME NEW m, ToServerOK(task, m),
         m.type = "return" => m.id \in DOMAIN task' /\ task'[m.id] = task[m.id]
  PROVE  ToServerOK(task', m)
  BY DEF ToServerOK, Pending

-------------------------------------------------------------------------------
(* The steps of the client *)

LEMMA ClientRunKeeps ==
  ASSUME IInv, SInv, ClientRun
  PROVE  SInv'
<1> DEFINE last == program.awaits[step].sent
<1>1. /\ UNCHANGED <<script, received, task, program, status, step, got, s2c>>
      /\ sent' = last /\ sent < last /\ c2s' = c2s \o Burst(sent + 1, last)
      /\ status = "running"
  BY DEF ClientRun, ClientSends, vars
<1>2. /\ program \in Programs /\ script = program.calls
      /\ step \in 1 .. Len(program.awaits)
      /\ Len(script) \in Nat /\ sent \in 0 .. Len(script) /\ received \in 0 .. sent
      /\ IsSeq(c2s) /\ IsSeq(s2c) /\ InOrder(c2s, received, sent)
  BY <1>1 DEF SInv, ClientOK, IInv, Shapes
<1>3. last \in 0 .. Len(script)
  BY <1>2, ProgramsAssumption
<1> HIDE DEF last
<1>4. /\ sent \in Nat /\ received \in Nat /\ last \in Nat /\ received <= sent
      /\ received \in 0 .. last
  BY <1>1, <1>2, <1>3
<1>5. PICK b : b = Burst(sent + 1, last) /\ IsBurst(b, sent, last)
  BY <1>1, <1>4, BurstIndices
<1>6. IsSeq(c2s') /\ InOrder(c2s', received, last)
  BY <1>1, <1>2, <1>4, <1>5, BurstPut
<1>7. \A i \in 1 .. Len(c2s') : c2s'[i].type = "return" =>
         i \in 1 .. Len(c2s) /\ c2s'[i] = c2s[i]
  <2> SUFFICES ASSUME NEW i \in 1 .. Len(c2s'), c2s'[i].type = "return"
               PROVE  i \in 1 .. Len(c2s) /\ c2s'[i] = c2s[i]
    OBVIOUS
  <2>1. i \in 1 .. Len(c2s)
    BY <1>1, <1>2, <1>4, <1>5, BurstAsks
  <2>2. c2s'[i] = c2s[i]
    BY <1>1, <1>2, <1>5, <2>1, StreamConcat DEF IsBurst
  <2>3. QED
    BY <2>1, <2>2
<1>8. ClientOK'
  BY <1>1, <1>2, <1>3, <1>4, <1>6 DEF ClientOK
<1>9. \A i \in 1 .. Len(c2s') : ToServerOK(task', c2s'[i])
  BY <1>1, <1>7 DEF SInv, ToServerOK
<1>10. Distinct(c2s', "return") /\ Apart(s2c', c2s')
  BY <1>1, <1>7 DEF SInv, Distinct, Apart
<1>11. QED
  BY <1>1, <1>6, <1>8, <1>9, <1>10 DEF SInv

\* What the client has got is what the question means, and so what it expects.
LEMMA assertEqKeeps ==
  ASSUME IInv, MInv, SInv, assertEq
  PROVE  SInv'
<1> DEFINE await == program.awaits[step]
<1>1. /\ UNCHANGED <<script, received, task, program, sent, got, c2s, s2c>>
      /\ status = "running" /\ await.q \in DOMAIN got
  BY DEF assertEq, vars, netVars
<1>2. /\ program \in Programs /\ script = program.calls
      /\ step \in 1 .. Len(program.awaits) /\ Len(program.awaits) \in Nat
  BY <1>1, ProgramsAssumption DEF SInv, ClientOK
<1>3. await.q \in 1 .. Len(script) /\ AnswerOf(script, await.q) = Ok(await.value)
  BY <1>2, ProgramsAssumption
<1>4. Arrived(script, task, await.q, got[await.q])
  BY <1>1 DEF SInv
<1>5. got[await.q] = AnswerOf(script, await.q)
  BY <1>3, <1>4, MeaningIsAnswered DEF AnswersCorrect, Arrived, Answered, Questions
<1>6. /\ step' = step + 1
      /\ status' = IF step = Len(program.awaits) THEN "done" ELSE status
  BY <1>3, <1>5 DEF assertEq
<1>7. /\ status' \in {"running", "done"}
      /\ status' = "running" => step' \in 1 .. Len(program.awaits)
  BY <1>1, <1>2, <1>6
<1>8. ClientOK'
  BY <1>1, <1>7 DEF SInv, ClientOK
<1>9. QED
  BY <1>1, <1>8 DEF SInv

LEMMA ReceiveAnswerKeeps ==
  ASSUME IInv, SInv, ClientReceive, ReceiveAnswer
  PROVE  SInv'
<1>1. /\ UNCHANGED <<script, received, task, program, status, step, sent, c2s>>
      /\ s2c # <<>> /\ s2c' = Tail(s2c) /\ Head(s2c).type = "return"
      /\ got' = Put(got, Head(s2c).id, Head(s2c).result)
  BY DEF ClientReceive, ReceiveAnswer, vars
<1>2. /\ IsSeq(s2c') /\ Len(s2c) \in Nat /\ Len(s2c) >= 1 /\ Head(s2c) = s2c[1]
      /\ Len(s2c') = Len(s2c) - 1
      /\ \A i \in 1 .. Len(s2c') : s2c'[i] = s2c[i + 1]
  BY <1>1, StreamTail DEF SInv, ClientOK
<1>3. \A i \in 1 .. Len(s2c') : i + 1 \in 1 .. Len(s2c)
  BY <1>2
<1>4. \A i \in 1 .. Len(s2c') : ToClientOK(script', task', s2c'[i])
  BY <1>1, <1>2, <1>3 DEF SInv
<1>5. Distinct(s2c', "call") /\ Apart(s2c', c2s')
  <2>1. Distinct(s2c, "call") /\ Apart(s2c, c2s)
    BY DEF SInv
  <2>2. ASSUME NEW i \in 1 .. Len(s2c'), NEW j \in 1 .. Len(s2c'),
               s2c'[i].type = "call", s2c'[j].type = "call", s2c'[i].id = s2c'[j].id
        PROVE  i = j
    <3>1. i + 1 = j + 1
      BY <1>2, <1>3, <2>1, <2>2 DEF Distinct
    <3>2. QED
      BY <3>1
  <2>3. Apart(s2c', c2s')
    BY <1>1, <1>2, <1>3, <2>1 DEF Apart
  <2>4. QED
    BY <2>2, <2>3 DEF Distinct
<1>6. ASSUME NEW q \in DOMAIN got' PROVE Arrived(script', task', q, got'[q])
  <2>1. Arrived(script, task, s2c[1].id, s2c[1].result)
    BY <1>1, <1>2 DEF SInv, ToClientOK
  <2>2. CASE q = s2c[1].id
    BY <1>1, <1>2, <2>1, <2>2 DEF Put
  <2>3. CASE q # s2c[1].id
    <3>1. q \in DOMAIN got /\ got'[q] = got[q]
      BY <1>1, <1>2, <1>6, <2>3 DEF Put
    <3>2. QED
      BY <1>1, <3>1 DEF SInv
  <2>4. QED
    BY <2>2, <2>3
<1>7. ClientOK'
  BY <1>1, <1>2 DEF SInv, ClientOK
<1>8. QED
  BY <1>1, <1>4, <1>5, <1>6, <1>7 DEF SInv

LEMMA ReceiveCallKeeps ==
  ASSUME IInv, SInv, ClientReceive, ReceiveCall
  PROVE  SInv'
<1> DEFINE h == Head(s2c)
           m == Answer(h.id, ClientAnswer(h.on, h.call))
<1>1. /\ UNCHANGED <<script, received, task, program, status, step, sent, got>>
      /\ s2c # <<>> /\ s2c' = Tail(s2c) /\ h.type = "call" /\ c2s' = Append(c2s, m)
  BY DEF ClientReceive, ReceiveCall, vars
<1>2. /\ IsSeq(s2c') /\ Len(s2c) \in Nat /\ Len(s2c) >= 1 /\ h = s2c[1]
      /\ Len(s2c') = Len(s2c) - 1
      /\ \A i \in 1 .. Len(s2c') : s2c'[i] = s2c[i + 1]
  BY <1>1, StreamTail DEF SInv, ClientOK
<1>3. m.type = "return" /\ m.id = h.id /\ m.result = ClientAnswer(h.on, h.call)
  BY DEF Answer
<1> HIDE DEF h, m
<1>4. /\ IsSeq(c2s') /\ Len(c2s) \in Nat /\ Len(c2s') = Len(c2s) + 1
      /\ \A i \in 1 .. Len(c2s) : c2s'[i] = c2s[i]
      /\ c2s'[Len(c2s) + 1] = m
  BY <1>1, StreamAppend DEF SInv, ClientOK
<1>5. /\ \A i \in 1 .. Len(s2c') : i + 1 \in 1 .. Len(s2c) /\ i + 1 # 1
      /\ \A i \in 1 .. Len(c2s') : i \in 1 .. Len(c2s) \/ i = Len(c2s) + 1
      /\ 1 \in 1 .. Len(s2c)
  BY <1>2, <1>4
<1>6. \A i \in 1 .. Len(s2c') : ToClientOK(script', task', s2c'[i])
  BY <1>1, <1>2, <1>5 DEF SInv
<1>7. \A i \in 1 .. Len(c2s') : ToServerOK(task', c2s'[i])
  <2>1. ToClientOK(script, task, h)
    BY <1>2, <1>5 DEF SInv
  <2>2. ToServerOK(task, m)
    BY <1>1, <1>3, <2>1 DEF ToClientOK, ToServerOK
  <2>3. QED
    BY <1>1, <1>4, <1>5, <2>2 DEF SInv
<1>8. Distinct(s2c, "call") /\ Distinct(c2s, "return") /\ Apart(s2c, c2s)
  BY DEF SInv
<1>9. Distinct(s2c', "call")
  <2>1. ASSUME NEW i \in 1 .. Len(s2c'), NEW j \in 1 .. Len(s2c'),
               s2c'[i].type = "call", s2c'[j].type = "call", s2c'[i].id = s2c'[j].id
        PROVE  i = j
    <3>1. i + 1 = j + 1
      BY <1>2, <1>5, <1>8, <2>1 DEF Distinct
    <3>2. QED
      BY <3>1
  <2>2. QED
    BY <2>1 DEF Distinct
<1>10. \A j \in 1 .. Len(c2s) : c2s[j].type = "return" => c2s[j].id # h.id
  BY <1>1, <1>2, <1>5, <1>8 DEF Apart
<1>11. Distinct(c2s', "return")
  BY <1>3, <1>4, <1>5, <1>8, <1>10 DEF Distinct
<1>12. Apart(s2c', c2s')
  <2> SUFFICES ASSUME NEW i \in 1 .. Len(s2c'), NEW j \in 1 .. Len(c2s'),
                      s2c'[i].type = "call", c2s'[j].type = "return"
               PROVE  s2c'[i].id # c2s'[j].id
    BY DEF Apart
  <2>1. CASE j \in 1 .. Len(c2s)
    BY <1>2, <1>4, <1>5, <1>8, <2>1 DEF Apart
  <2>2. CASE j = Len(c2s) + 1
    <3>1. s2c'[i] = s2c[i + 1] /\ i + 1 \in 1 .. Len(s2c) /\ i + 1 # 1
      BY <1>2, <1>5
    <3>2. s2c[i + 1].id # s2c[1].id
      BY <1>1, <1>2, <1>5, <1>8, <3>1 DEF Distinct
    <3>3. QED
      BY <1>2, <1>3, <1>4, <2>2, <3>1, <3>2
  <2>3. QED
    BY <1>5, <2>1, <2>2
<1>13. InOrder(c2s', received, sent)
  <2>1. received \in Nat /\ sent \in Nat /\ IsSeq(c2s) /\ InOrder(c2s, received, sent)
    BY DEF SInv, ClientOK, IInv, Shapes
  <2>2. QED
    BY <1>1, <1>3, <2>1, ReplyPut
<1>14. ClientOK'
  BY <1>1, <1>2, <1>4 DEF SInv, ClientOK
<1>15. QED
  BY <1>1, <1>6, <1>7, <1>9, <1>11, <1>12, <1>13, <1>14 DEF SInv
-------------------------------------------------------------------------------
(* The steps of the server *)

LEMMA QuestionComes ==
  ASSUME IInv, SInv, ServerReceive, Head(c2s).type = "call"
  PROVE  Receive /\ SInv'
<1>1. /\ c2s # <<>> /\ c2s' = Tail(c2s)
      /\ UNCHANGED <<program, status, step, sent, got, s2c>>
      /\ received' = received + 1 /\ UNCHANGED <<script, obj>>
      /\ Deliver(<<Head(c2s).id>>, script[Head(c2s).id])
  BY DEF ServerReceive, clientVars
<1>2. /\ received \in Nat /\ sent \in Nat /\ sent \in 0 .. Len(script)
      /\ Len(script) \in Nat
      /\ IsSeq(c2s) /\ InOrder(c2s, received, sent)
  BY DEF SInv, ClientOK, IInv, Shapes
<1>3. /\ Head(c2s).id = received + 1 /\ received < sent
      /\ InOrder(Tail(c2s), received + 1, sent)
  BY <1>1, <1>2, NextQuestion
<1>4. Receive
  BY <1>1, <1>2, <1>3 DEF Receive
<1>5. \A t \in DOMAIN task : t \in DOMAIN task' /\ task'[t] = task[t]
  BY <1>4, ReceiveAdds, AddsTask
<1>6. /\ IsSeq(c2s') /\ Len(c2s) \in Nat /\ Len(c2s') = Len(c2s) - 1
      /\ \A i \in 1 .. Len(c2s') : c2s'[i] = c2s[i + 1]
  BY <1>1, <1>2, StreamTail
<1>7. \A i \in 1 .. Len(c2s') : i + 1 \in 1 .. Len(c2s)
  BY <1>6
<1>8. [Next]_vars
  BY <1>4 DEF Next
<1>9. ASSUME NEW i \in 1 .. Len(s2c') PROVE ToClientOK(script', task', s2c'[i])
  <2>1. ToClientOK(script, task, s2c'[i])
    BY <1>1 DEF SInv
  <2>2. s2c'[i].type = "call" => s2c'[i].id \in DOMAIN task
    BY <2>1 DEF ToClientOK, Pending
  <2>3. QED
    BY <1>5, <1>8, <2>1, <2>2, ToClientStays
<1>10. ASSUME NEW i \in 1 .. Len(c2s') PROVE ToServerOK(task', c2s'[i])
  <2>1. ToServerOK(task, c2s'[i])
    BY <1>6, <1>7 DEF SInv
  <2>2. c2s'[i].type = "return" => c2s'[i].id \in DOMAIN task
    BY <2>1 DEF ToServerOK, Pending
  <2>3. QED
    BY <1>5, <2>1, <2>2, ToServerStays
<1>11. Distinct(s2c', "call") /\ Distinct(c2s', "return") /\ Apart(s2c', c2s')
  BY <1>1, <1>2, TailApart DEF SInv
<1>12. ASSUME NEW q \in DOMAIN got' PROVE Arrived(script', task', q, got'[q])
  <2>1. Arrived(script, task, q, got'[q])
    BY <1>1 DEF SInv
  <2>2. QED
    BY <1>8, <2>1, ArrivedStays
<1>13. ClientOK'
  BY <1>1, <1>2, <1>3, <1>6 DEF SInv, ClientOK
<1>14. InOrder(c2s', received', sent')
  BY <1>1, <1>3
<1>15. QED
  BY <1>4, <1>9, <1>10, <1>11, <1>12, <1>13, <1>14 DEF SInv

LEMMA ReplyComes ==
  ASSUME IInv, SInv, ServerReceive, Head(c2s).type = "return"
  PROVE  /\ Head(c2s).id \in DOMAIN task /\ ClientReturn(Head(c2s).id)
         /\ SInv'
<1> DEFINE t == Head(c2s).id
<1>1. /\ c2s # <<>> /\ c2s' = Tail(c2s)
      /\ UNCHANGED <<program, status, step, sent, got, s2c>>
      /\ Return(task, t, Head(c2s).result, Failed) /\ UNCHANGED queue
      /\ UNCHANGED <<script, received>>
  BY DEF ServerReceive, clientVars, Return
<1>2. /\ received \in Nat /\ sent \in Nat
      /\ IsSeq(c2s) /\ InOrder(c2s, received, sent)
  BY DEF SInv, ClientOK, IInv, Shapes
<1>3. /\ IsSeq(c2s') /\ Len(c2s) \in Nat /\ Len(c2s') = Len(c2s) - 1 /\ Len(c2s) >= 1
      /\ Head(c2s) = c2s[1]
      /\ \A i \in 1 .. Len(c2s') : c2s'[i] = c2s[i + 1]
  BY <1>1, <1>2, StreamTail
<1>4. /\ \A i \in 1 .. Len(c2s') : i + 1 \in 1 .. Len(c2s) /\ i + 1 # 1
      /\ 1 \in 1 .. Len(c2s)
  BY <1>3
<1>5. /\ Pending(task, t)
      /\ Head(c2s).result = ClientAnswer(task[t].on.id, task[t].call)
  BY <1>3, <1>4 DEF SInv, ToServerOK
<1>6. t \in DOMAIN task /\ ClientReturn(t)
  BY <1>1, <1>5, AwaitsAssumption DEF ClientReturn, Pending
<1>7. [Next]_vars
  BY <1>6 DEF Next
<1>8. \A x \in DOMAIN task : x # t => x \in DOMAIN task' /\ task'[x] = task[x]
  BY <1>1, ReturnLeaves
<1>9. Distinct(s2c, "call") /\ Distinct(c2s, "return") /\ Apart(s2c, c2s)
  BY DEF SInv
<1> HIDE DEF t
<1>10. ASSUME NEW i \in 1 .. Len(s2c') PROVE ToClientOK(script', task', s2c'[i])
  <2>1. ToClientOK(script, task, s2c'[i])
    BY <1>1 DEF SInv
  <2>2. s2c'[i].type = "call" => s2c'[i].id \in DOMAIN task /\ s2c'[i].id # t
    <3>1. s2c'[i].type = "call" => s2c'[i].id \in DOMAIN task
      BY <2>1 DEF ToClientOK, Pending
    <3>2. s2c'[i].type = "call" => s2c'[i].id # t
      BY <1>1, <1>3, <1>4, <1>9 DEF Apart, t
    <3>3. QED
      BY <3>1, <3>2
  <2>3. QED
    BY <1>7, <1>8, <2>1, <2>2, ToClientStays
<1>11. ASSUME NEW i \in 1 .. Len(c2s') PROVE ToServerOK(task', c2s'[i])
  <2>1. ToServerOK(task, c2s'[i])
    BY <1>3, <1>4 DEF SInv
  <2>2. c2s'[i].type = "return" => c2s'[i].id \in DOMAIN task
    BY <2>1 DEF ToServerOK, Pending
  <2>3. c2s'[i].type = "return" => c2s'[i].id # t
    BY <1>3, <1>4, <1>9 DEF Distinct, t
  <2>4. QED
    BY <1>8, <2>1, <2>2, <2>3, ToServerStays
<1>12. Distinct(s2c', "call") /\ Distinct(c2s', "return") /\ Apart(s2c', c2s')
  BY <1>1, <1>2, <1>9, TailApart
<1>13. ASSUME NEW q \in DOMAIN got' PROVE Arrived(script', task', q, got'[q])
  <2>1. Arrived(script, task, q, got'[q])
    BY <1>1 DEF SInv
  <2>2. QED
    BY <1>7, <2>1, ArrivedStays
<1>14. ClientOK'
  BY <1>1, <1>3 DEF SInv, ClientOK
<1>15. InOrder(c2s', received', sent')
  BY <1>1, <1>2, <1>3, ReplyTaken
<1>16. QED
  BY <1>6, <1>10, <1>11, <1>12, <1>13, <1>14, <1>15 DEF SInv, t

\* What the server sends: nothing, or a message that is right and new.
LEMMA ServerSendsRight ==
  ASSUME IInv, IInv', SInv, ServerNext, ServerSends
  PROVE  \/ s2c' = s2c
         \/ \E m : /\ s2c' = Append(s2c, m)
                   /\ ToClientOK(script', task', m)
                   /\ m.type = "call" => m.id \notin DOMAIN task
<1>1. CASE ~\E t \in DOMAIN task' : Returned(t) \/ CalledOut(t)
  BY <1>1 DEF ServerSends
<1>2. CASE \E t \in DOMAIN task' : Returned(t) \/ CalledOut(t)
  <2> DEFINE t == CHOOSE t \in DOMAIN task' : Returned(t) \/ CalledOut(t)
             m == IF Returned(t) THEN Answer(t[1], task'[t].result)
                  ELSE CallOut(t, task'[t])
  <2>1. t \in DOMAIN task' /\ (Returned(t) \/ CalledOut(t))
    BY <1>2
  <2>2. s2c' = Append(s2c, m)
    BY <1>2 DEF ServerSends
  <2> HIDE DEF t
  <2>3. CASE Returned(t)
    <3>1. m = Answer(t[1], task'[t].result)
      BY <2>3
    <3>2. m.type = "return" /\ m.id = t[1] /\ m.result = task'[t].result
      BY <3>1 DEF Answer
    <3>3. /\ t \in TaskIds /\ t[1] \in 1 .. received' /\ received' \in 0 .. Len(script')
          /\ Len(script') \in Nat
      BY <2>1 DEF IInv, Shapes, TypeOK
    <3>4. t[1] \in Nat /\ t[1] \in 1 .. Len(script')
      BY <3>3
    <3>5. t = <<t[1]>> /\ task'[t].state = "done"
      BY <2>3, <3>3, <3>4, QuestionFacts DEF Returned
    <3>6. Arrived(script', task', t[1], task'[t].result)
      BY <2>1, <3>4, <3>5 DEF Arrived
    <3> HIDE DEF m
    <3>7. ToClientOK(script', task', m)
      BY <3>2, <3>6 DEF ToClientOK
    <3>8. QED
      BY <2>2, <3>2, <3>7
  <2>4. CASE ~Returned(t)
    <3>1. t \notin DOMAIN task /\ task'[t].on.host = "client"
      BY <2>1, <2>4 DEF CalledOut
    <3>2. m = CallOut(t, task'[t])
      BY <2>4
    <3>3. m.type = "call" /\ m.id = t /\ m.on = task'[t].on.id /\ m.call = task'[t].call
      BY <3>2 DEF CallOut
    <3>4. task'[t].state = "queued"
      BY <2>1, <3>1, NewCall DEF Next
    <3> HIDE DEF m
    <3>5. ToClientOK(script', task', m)
      BY <2>1, <3>1, <3>3, <3>4 DEF ToClientOK, Pending
    <3>6. QED
      BY <2>2, <3>1, <3>3, <3>5
  <2>5. QED
    BY <2>3, <2>4
<1>3. QED
  BY <1>1, <1>2

LEMMA ServerRunKeeps ==
  ASSUME IInv, IInv', SInv, ServerRun
  PROVE  SInv'
<1>1. /\ UNCHANGED <<program, status, step, sent, got, c2s>>
      /\ ServerNext /\ ServerSends
  BY DEF ServerRun, clientVars
<1>2. UNCHANGED <<script, received>>
  BY <1>1, ServerKeeps
<1>3. [Next]_vars
  BY <1>1 DEF Next
<1>4. \A x : Pending(task, x) => x \in DOMAIN task' /\ task'[x] = task[x]
  BY <1>1, PendingStays
<1>5. ASSUME NEW i \in 1 .. Len(s2c) PROVE ToClientOK(script', task', s2c[i])
  <2>1. ToClientOK(script, task, s2c[i])
    BY DEF SInv
  <2>2. s2c[i].type = "call" => Pending(task, s2c[i].id)
    BY <2>1 DEF ToClientOK
  <2>3. QED
    BY <1>3, <1>4, <2>1, <2>2, ToClientStays
<1>6. ASSUME NEW i \in 1 .. Len(c2s) PROVE ToServerOK(task', c2s[i])
  <2>1. ToServerOK(task, c2s[i])
    BY DEF SInv
  <2>2. c2s[i].type = "return" => Pending(task, c2s[i].id)
    BY <2>1 DEF ToServerOK
  <2>3. QED
    BY <1>4, <2>1, <2>2, ToServerStays
<1>7. ASSUME NEW q \in DOMAIN got' PROVE Arrived(script', task', q, got'[q])
  <2>1. Arrived(script, task, q, got'[q])
    BY <1>1 DEF SInv
  <2>2. QED
    BY <1>3, <2>1, ArrivedStays
<1>8. /\ Distinct(s2c, "call") /\ Distinct(c2s, "return") /\ Apart(s2c, c2s)
      /\ IsSeq(s2c) /\ IsSeq(c2s)
  BY DEF SInv, ClientOK
<1>9. CASE s2c' = s2c
  <2>1. ClientOK'
    BY <1>1, <1>2, <1>9 DEF SInv, ClientOK
  <2>2. QED
    BY <1>1, <1>2, <1>5, <1>6, <1>7, <1>8, <1>9, <2>1 DEF SInv
<1>10. ASSUME NEW m, s2c' = Append(s2c, m), ToClientOK(script', task', m),
              m.type = "call" => m.id \notin DOMAIN task
       PROVE  SInv'
  <2>1. /\ IsSeq(s2c') /\ Len(s2c) \in Nat /\ Len(s2c') = Len(s2c) + 1
        /\ \A i \in 1 .. Len(s2c) : s2c'[i] = s2c[i]
        /\ s2c'[Len(s2c) + 1] = m
    BY <1>8, <1>10, StreamAppend
  <2>2. \A i \in 1 .. Len(s2c') : i \in 1 .. Len(s2c) \/ i = Len(s2c) + 1
    BY <2>1
  <2>3. \A i \in 1 .. Len(s2c') : ToClientOK(script', task', s2c'[i])
    BY <1>5, <1>10, <2>1, <2>2
  <2>4. \A i \in 1 .. Len(s2c) : s2c[i].type = "call" => s2c[i].id \in DOMAIN task
    BY DEF SInv, ToClientOK, Pending
  <2>5. \A i \in 1 .. Len(c2s) : c2s[i].type = "return" => c2s[i].id \in DOMAIN task
    BY DEF SInv, ToServerOK, Pending
  <2>6. Distinct(s2c', "call")
    BY <1>8, <1>10, <2>1, <2>2, <2>4 DEF Distinct
  <2>7. Apart(s2c', c2s')
    BY <1>1, <1>8, <1>10, <2>1, <2>2, <2>5 DEF Apart
  <2>8. ClientOK'
    BY <1>1, <1>2, <2>1 DEF SInv, ClientOK
  <2>9. QED
    BY <1>1, <1>2, <1>6, <1>7, <1>8, <2>3, <2>6, <2>7, <2>8 DEF SInv
<1>11. QED
  BY <1>1, <1>9, <1>10, ServerSendsRight

-------------------------------------------------------------------------------
(* The theorems *)

\* Seen from the server a step of the session is a step of its own, or none.
LEMMA SessionStep ==
  ASSUME SessionInv, [SessionNext]_sessionVars
  PROVE  [Next]_vars
<1>1. IInv /\ SInv
  BY DEF SessionInv
<1>2. CASE ClientRun \/ assertEq \/ ClientReceive
  BY <1>2 DEF ClientRun, assertEq, ClientReceive
<1>3. CASE ServerReceive
  <2>1. Head(c2s).type = "call" \/ Head(c2s).type = "return"
    BY <1>3 DEF ServerReceive
  <2>2. QED
    BY <1>1, <1>3, <2>1, QuestionComes, ReplyComes DEF Next
<1>4. CASE ServerRun
  BY <1>4 DEF ServerRun, Next
<1>5. CASE UNCHANGED sessionVars
  BY <1>5 DEF sessionVars
<1>6. QED
  BY <1>2, <1>3, <1>4, <1>5 DEF SessionNext

LEMMA SessionKeeps ==
  ASSUME SessionInv, [SessionNext]_sessionVars
  PROVE  SessionInv'
<1>1. IInv /\ MInv /\ SInv
  BY DEF SessionInv
<1>2. [Next]_vars
  BY SessionStep
<1>3. IInv' /\ MInv'
  BY <1>1, <1>2, NextKeepsIInv, NextKeepsMInv
<1> SUFFICES SInv'
  BY <1>3 DEF SessionInv
<1>4. CASE ClientRun
  BY <1>1, <1>4, ClientRunKeeps
<1>5. CASE assertEq
  BY <1>1, <1>5, assertEqKeeps
<1>6. CASE ClientReceive
  BY <1>1, <1>6, ReceiveAnswerKeeps, ReceiveCallKeeps DEF ClientReceive
<1>7. CASE ServerReceive
  <2>1. Head(c2s).type = "call" \/ Head(c2s).type = "return"
    BY <1>7 DEF ServerReceive
  <2>2. QED
    BY <1>1, <1>7, <2>1, QuestionComes, ReplyComes
<1>8. CASE ServerRun
  BY <1>1, <1>3, <1>8, ServerRunKeeps
<1>9. CASE UNCHANGED sessionVars
  <2>1. UNCHANGED <<script, received, task, program, status, step, sent, got, c2s, s2c>>
    BY <1>9 DEF sessionVars, vars, clientVars, netVars
  <2>2. ClientOK'
    BY <1>1, <2>1 DEF SInv, ClientOK
  <2>3. QED
    BY <1>1, <2>1, <2>2 DEF SInv
<1>10. QED
  BY <1>4, <1>5, <1>6, <1>7, <1>8, <1>9 DEF SessionNext

LEMMA SessionInitially == SessionInit => Init /\ SessionInv
<1> SUFFICES ASSUME SessionInit PROVE Init /\ SessionInv
  OBVIOUS
<1>1. Init
  BY DEF SessionInit
<1>2. IInv /\ MInv
  BY <1>1, InitIInv, InitMInv
<1>3. /\ program \in Programs /\ status = "running" /\ step = 1 /\ sent = 0
      /\ DOMAIN got = {} /\ c2s = <<>> /\ s2c = <<>> /\ script = program.calls
      /\ received = 0 /\ Len(script) \in Nat
  BY <1>1, <1>2 DEF SessionInit, Init, IInv, Shapes
<1>4. Len(program.awaits) \in Nat \ {0}
  BY <1>3, ProgramsAssumption
<1>5. IsSeq(<<>>) /\ Len(<<>>) = 0
  <2>1. <<>> \in Seq({}) /\ Len(<<>>) = 0
    OBVIOUS
  <2>2. QED
    BY <2>1, SeqIsSeq
<1>6. ClientOK
  BY <1>3, <1>4, <1>5 DEF ClientOK
<1>7. InOrder(c2s, received, sent)
  BY <1>3, <1>5 DEF InOrder
<1>8. SInv
  BY <1>3, <1>5, <1>6, <1>7 DEF SInv, Distinct, Apart
<1>9. QED
  BY <1>1, <1>2, <1>8 DEF SessionInv

LEMMA SessionInvariant == SessionSpec => []SessionInv
<1>1. SessionInv /\ [SessionNext]_sessionVars => SessionInv'
  BY SessionKeeps
<1>2. QED
  BY <1>1, SessionInitially, PTL DEF SessionSpec

(***************************************************************************)
(* A session is a run of the server that receives the client's questions   *)
(* one after the other and the answers of its functions once each, however *)
(* questions, callbacks and answers cross on the connection.               *)
(***************************************************************************)
THEOREM SessionServes == SessionSpec => ServesScript
<1>1. SessionInv /\ [SessionNext]_sessionVars => [Next]_vars
  BY SessionStep
<1>2. QED
  BY <1>1, SessionInitially, SessionInvariant, PTL DEF SessionSpec, ServesScript, Spec

(***************************************************************************)
(* No assertion of a program fails that expects what its questions mean.   *)
(***************************************************************************)
THEOREM AssertionsNeverFail == SessionSpec => []AssertionsHold
<1>1. SessionInv => AssertionsHold
  BY DEF SessionInv, SInv, ClientOK, AssertionsHold
<1>2. QED
  BY <1>1, SessionInvariant, PTL

-------------------------------------------------------------------------------
(* Round trips *)

\* The stretches whose questions are sent.
Behind(n) == {i \in Stretches(program) : program.awaits[i].sent <= n}

\* Where the client is in its program.
PlaceOK ==
    /\ step \in 1 .. Len(program.awaits) + 1
    /\ status = "done" => step = Len(program.awaits) + 1
    /\ \A i \in 1 .. step - 1 : program.awaits[i].sent <= sent
    /\ sent = 0 \/ \E i \in 1 .. Len(program.awaits) :
                      i <= step /\ sent = program.awaits[i].sent

\* Each stretch cost one round trip, and the client that has heard nothing since the
\* last waits for one of its questions.
TripsInv ==
    /\ PlaceOK
    /\ Plain(program) =>
         /\ trips = Cardinality(Behind(sent))
         /\ status = "running" /\ ~turned =>
              /\ program.awaits[step].sent <= sent
              /\ program.awaits[step].q \notin DOMAIN got

LEMMA StretchesFinite ==
  ASSUME program \in Programs
  PROVE  /\ Len(program.awaits) \in Nat \ {0}
         /\ \A i \in 1 .. Len(program.awaits) :
               program.awaits[i].sent \in Nat /\ program.awaits[i].q \in Nat \ {0}
         /\ IsFiniteSet(Stretches(program))
         /\ \A n : IsFiniteSet(Behind(n)) /\ Behind(n) \subseteq Stretches(program)
<1>1. Len(program.awaits) \in Nat \ {0}
  BY ProgramsAssumption
<1>2. \A i \in 1 .. Len(program.awaits) :
         program.awaits[i].sent \in Nat /\ program.awaits[i].q \in Nat \ {0}
  BY ProgramsAssumption
<1>3. IsFiniteSet(1 .. Len(program.awaits))
  BY <1>1, FS_Interval
<1>4. Stretches(program) \subseteq 1 .. Len(program.awaits)
  BY DEF Stretches
<1>5. IsFiniteSet(Stretches(program))
  BY <1>3, <1>4, FS_Subset
<1>6. \A n : Behind(n) \subseteq Stretches(program)
  BY DEF Behind
<1>7. \A n : IsFiniteSet(Behind(n))
  BY <1>5, <1>6, FS_Subset
<1>8. QED
  BY <1>1, <1>2, <1>5, <1>6, <1>7

\* No call that a plain program gives rise to is for the client.
LEMMA NoneForClient ==
  ASSUME SessionInv, Plain(program), NEW t \in DOMAIN task
  PROVE  task[t].on.host # "client"
<1>1. /\ IInv /\ MInv /\ script = program.calls /\ t \in TaskIds
      /\ DOMAIN task \subseteq TaskIds /\ received \in 0 .. Len(script) /\ Len(script) \in Nat
  BY DEF SessionInv, SInv, ClientOK, IInv, Shapes, TypeOK
<1>2. t \in Seq(Nat) /\ Len(t) \in Nat /\ Len(t) # 0
  BY <1>1, LenProperties DEF TaskIds
<1>3. CASE Len(t) = 1
  <2>1. t[1] \in 1 .. Len(script)
    BY <1>1 DEF IInv, TypeOK
  <2>2. task[t].on = script[t[1]].on
    BY <1>1, <1>3 DEF MInv, TasksRight
  <2>3. QED
    BY <1>1, <2>1, <2>2 DEF Plain
<1>4. CASE Len(t) > 1
  <2> DEFINE c == SubSeq(t, 1, Len(t) - 1)
  <2>1. /\ c \in DOMAIN task /\ task[c].state = "evaluating"
        /\ Expr(c).which \in {"previousResult", "call"} /\ Expr(c).on = task[t].on
    BY <1>1, <1>4 DEF IInv, CallsHaveCallers
  <2> HIDE DEF c
  <2>2. task[c].stack # <<>> /\ IsSeq(task[c].stack)
    BY <1>1, <2>1 DEF IInv, TypeOK, Shapes, IsTask
  <2>3. Len(task[c].stack) \in Nat /\ Len(task[c].stack) # 0
        /\ Head(task[c].stack) = task[c].stack[1]
    BY <2>2 DEF IsSeq
  <2>4. TaskRight(script, task[c])
    BY <1>1, <2>1 DEF MInv, TasksRight
  <2>5. FrameRight(script, task[c].params, Expected(script, task[c]), task[c].stack[1])
    BY <2>1, <2>3, <2>4 DEF TaskRight, StackRight
  <2>6. <<Expr(c), task[c].params>> \in Evaluations(script)
    BY <2>3, <2>5 DEF FrameRight, Expr
  <2>7. \A e, env : <<e, env>>[1] = e
    OBVIOUS
  <2>8. Expr(c).on.host # "client"
    BY <1>1, <2>1, <2>6, <2>7 DEF Plain
  <2>9. QED
    BY <2>1, <2>8
<1>5. \A n \in Nat : n # 0 => n = 1 \/ n > 1
  OBVIOUS
<1>6. QED
  BY <1>2, <1>3, <1>4, <1>5

\* So none of its functions is called.
LEMMA NoCallOut ==
  ASSUME SessionInv, Plain(program), s2c # <<>>
  PROVE  Head(s2c).type # "call"
<1>1. IsSeq(s2c) /\ \A i \in 1 .. Len(s2c) : ToClientOK(script, task, s2c[i])
  BY DEF SessionInv, SInv, ClientOK
<1>2. 1 \in 1 .. Len(s2c) /\ Head(s2c) = s2c[1]
  BY <1>1 DEF IsSeq
<1>3. ToClientOK(script, task, Head(s2c))
  BY <1>1, <1>2
<1>4. QED
  BY <1>3, NoneForClient DEF ToClientOK, Pending

\* The client has answers to questions it has sent.
LEMMA GotSent ==
  ASSUME SessionInv, NEW q \in DOMAIN got
  PROVE  q \in Nat /\ q <= sent
<1>1. <<q>> \in DOMAIN task /\ q \in 1 .. Len(script) /\ Len(script) \in Nat
  BY DEF SessionInv, SInv, Arrived, IInv, Shapes
<1>2. <<q>>[1] = q
  OBVIOUS
<1>3. q \in 1 .. received
  BY <1>1, <1>2 DEF SessionInv, IInv, TypeOK
<1>4. QED
  BY <1>1, <1>3 DEF SessionInv, SInv, ClientOK

\* The client's next stretch is sent: one more.
LEMMA StretchSent ==
  ASSUME program \in Programs, PlaceOK, sent \in Nat, step \in 1 .. Len(program.awaits),
         sent < program.awaits[step].sent
  PROVE  /\ step \in Stretches(program) /\ step \notin Behind(sent)
         /\ Behind(program.awaits[step].sent) = Behind(sent) \cup {step}
<1> DEFINE n == program.awaits[step].sent
<1>1. /\ Len(program.awaits) \in Nat \ {0}
      /\ \A i \in 1 .. Len(program.awaits) : program.awaits[i].sent \in Nat
  BY StretchesFinite
<1>2. \A j \in 1 .. step - 1 : program.awaits[j].sent <= sent
  BY DEF PlaceOK
<1>3. step \in Stretches(program)
  <2>1. \A j \in 1 .. step - 1 : program.awaits[j].sent < program.awaits[step].sent
    BY <1>1, <1>2
  <2>2. QED
    BY <1>1, <2>1 DEF Stretches
<1>4. step \notin Behind(sent)
  BY <1>1 DEF Behind
<1>5. ASSUME NEW i \in Behind(n), i # step PROVE i \in Behind(sent)
  <2>1. i \in Stretches(program) /\ i \in 1 .. Len(program.awaits) /\ program.awaits[i].sent <= n
    BY DEF Behind, Stretches
  <2>2. CASE i < step
    BY <1>1, <1>2, <2>1, <2>2 DEF Behind
  <2>3. CASE i > step
    <3>1. step \in 1 .. i - 1
      BY <1>1, <2>1, <2>3
    <3>2. program.awaits[step].sent < program.awaits[i].sent
      BY <2>1, <3>1 DEF Stretches
    <3>3. QED
      BY <1>1, <2>1, <3>2
  <2>4. QED
    BY <1>1, <1>5, <2>1, <2>2, <2>3
<1>6. ASSUME NEW i \in Behind(sent) PROVE i \in Behind(n)
  <2>1. i \in Stretches(program) /\ i \in 1 .. Len(program.awaits) /\ program.awaits[i].sent <= sent
    BY DEF Behind, Stretches
  <2>2. program.awaits[i].sent <= n
    BY <1>1, <2>1
  <2>3. QED
    BY <2>1, <2>2 DEF Behind
<1>7. step \in Behind(n)
  BY <1>1, <1>3 DEF Behind
<1> HIDE DEF n
<1>8. Behind(n) = Behind(sent) \cup {step}
  BY <1>5, <1>6, <1>7
<1>9. QED
  BY <1>3, <1>4, <1>8 DEF n

LEMMA ClientRunTrips ==
  ASSUME SessionInv, TripsInv, ClientRun
  PROVE  TripsInv'
<1>1. /\ program' = program /\ status' = status /\ step' = step /\ got' = got
      /\ status = "running" /\ sent < program.awaits[step].sent
      /\ sent' = program.awaits[step].sent
      /\ turned' = FALSE /\ trips' = IF turned THEN trips + 1 ELSE trips
  BY DEF ClientRun, ClientSends
<1>2. /\ program \in Programs /\ step \in 1 .. Len(program.awaits) /\ sent \in Nat
      /\ Len(script) \in Nat
  BY <1>1 DEF SessionInv, SInv, ClientOK, IInv, Shapes
<1>3. /\ Len(program.awaits) \in Nat \ {0}
      /\ \A i \in 1 .. Len(program.awaits) :
            program.awaits[i].sent \in Nat /\ program.awaits[i].q \in Nat \ {0}
  BY <1>2, StretchesFinite
<1>4. PlaceOK
  BY DEF TripsInv
<1>5. PlaceOK'
  <2>1. ASSUME NEW i \in 1 .. step - 1 PROVE program.awaits[i].sent <= sent'
    <3>1. program.awaits[i].sent <= sent
      BY <1>4 DEF PlaceOK
    <3>2. i \in 1 .. Len(program.awaits)
      BY <1>2, <1>3
    <3>3. QED
      BY <1>1, <1>2, <1>3, <3>1, <3>2
  <2>2. \E i \in 1 .. Len(program.awaits) : i <= step /\ sent' = program.awaits[i].sent
    BY <1>1, <1>2, <1>3
  <2>3. QED
    BY <1>1, <1>4, <2>1, <2>2 DEF PlaceOK
<1>6. ASSUME Plain(program)
      PROVE  /\ trips' = Cardinality(Behind(sent'))
             /\ program.awaits[step].sent <= sent'
             /\ program.awaits[step].q \notin DOMAIN got
  <2>1. trips = Cardinality(Behind(sent)) /\ turned
    BY <1>1, <1>2, <1>3, <1>6 DEF TripsInv
  <2>2. /\ step \in Stretches(program) /\ step \notin Behind(sent)
        /\ Behind(sent') = Behind(sent) \cup {step}
    BY <1>1, <1>2, <1>4, StretchSent
  <2>3. IsFiniteSet(Behind(sent))
    BY <1>2, StretchesFinite
  <2>4. Cardinality(Behind(sent')) = Cardinality(Behind(sent)) + 1
    BY <2>2, <2>3, FS_AddElement
  <2>5. program.awaits[step].q > sent
    <3>1. CASE sent = 0
      BY <1>2, <1>3, <3>1
    <3>2. CASE sent # 0
      <4>1. PICK i \in 1 .. Len(program.awaits) : i <= step /\ sent = program.awaits[i].sent
        BY <1>4, <3>2 DEF PlaceOK
      <4>2. i \in 1 .. step - 1
        BY <1>1, <1>2, <1>3, <4>1
      <4>3. QED
        BY <1>6, <2>2, <4>1, <4>2 DEF Plain
    <3>3. QED
      BY <3>1, <3>2
  <2>6. program.awaits[step].q \notin DOMAIN got
    BY <1>2, <1>3, <2>5, GotSent
  <2>7. QED
    BY <1>1, <1>2, <1>3, <2>1, <2>4, <2>6
<1>7. QED
  BY <1>1, <1>5, <1>6 DEF TripsInv, Behind

LEMMA assertEqTrips ==
  ASSUME SessionInv, SessionInv', TripsInv, assertEq
  PROVE  TripsInv'
<1>1. /\ program' = program /\ sent' = sent /\ got' = got /\ turned' = turned /\ trips' = trips
      /\ status = "running" /\ sent >= program.awaits[step].sent
      /\ program.awaits[step].q \in DOMAIN got
  BY DEF assertEq, netVars
<1>2. /\ program \in Programs /\ step \in 1 .. Len(program.awaits) /\ sent \in Nat
      /\ status' # "failed" /\ Len(script) \in Nat
      /\ status' = "running" => step' \in 1 .. Len(program.awaits)
  BY <1>1 DEF SessionInv, SInv, ClientOK, IInv, Shapes
<1>3. /\ step' = step + 1
      /\ status' = IF step = Len(program.awaits) THEN "done" ELSE status
  BY <1>2 DEF assertEq
<1>4. /\ Len(program.awaits) \in Nat \ {0}
      /\ \A i \in 1 .. Len(program.awaits) : program.awaits[i].sent \in Nat
  BY <1>2, StretchesFinite
<1>5. PlaceOK
  BY DEF TripsInv
<1>6. PlaceOK'
  <2>1. step' \in 1 .. Len(program.awaits) + 1
    BY <1>2, <1>3, <1>4
  <2>2. status' = "done" => step' = Len(program.awaits) + 1
    BY <1>1, <1>3
  <2>3. ASSUME NEW i \in 1 .. step' - 1 PROVE program.awaits[i].sent <= sent
    <3>1. i \in 1 .. step - 1 \/ i = step
      BY <1>2, <1>3, <1>4
    <3>2. CASE i \in 1 .. step - 1
      BY <1>5, <3>2 DEF PlaceOK
    <3>3. CASE i = step
      BY <1>1, <1>2, <1>4, <3>3
    <3>4. QED
      BY <3>1, <3>2, <3>3
  <2>4. sent = 0 \/ \E i \in 1 .. Len(program.awaits) :
                       i <= step' /\ sent = program.awaits[i].sent
    <3>1. \A i \in 1 .. Len(program.awaits) : i <= step => i <= step'
      BY <1>2, <1>3, <1>4
    <3>2. QED
      BY <1>5, <3>1 DEF PlaceOK
  <2>5. QED
    BY <1>1, <2>1, <2>2, <2>3, <2>4 DEF PlaceOK
<1>7. Plain(program) => trips = Cardinality(Behind(sent)) /\ turned
  BY <1>1 DEF TripsInv
<1>8. QED
  BY <1>1, <1>6, <1>7 DEF TripsInv, Behind

LEMMA ReceiveTrips ==
  ASSUME SessionInv, TripsInv, ClientReceive
  PROVE  TripsInv'
<1>1. /\ program' = program /\ status' = status /\ step' = step /\ sent' = sent
      /\ s2c # <<>>
  BY DEF ClientReceive
<1>2. PlaceOK'
  BY <1>1 DEF TripsInv, PlaceOK
<1>3. Plain(program) => turned' = TRUE /\ trips' = trips
  BY <1>1, NoCallOut DEF ClientReceive, ReceiveAnswer, ReceiveCall
<1>4. QED
  BY <1>1, <1>2, <1>3 DEF TripsInv, Behind

LEMMA TripsKept ==
  ASSUME SessionInv, SessionInv', TripsInv, [SessionNext]_sessionVars
  PROVE  TripsInv'
<1>1. CASE ClientRun
  BY <1>1, ClientRunTrips
<1>2. CASE assertEq
  BY <1>2, assertEqTrips
<1>3. CASE ClientReceive
  BY <1>3, ReceiveTrips
<1>4. CASE UNCHANGED <<program, status, step, sent, got, turned, trips>>
  BY <1>4 DEF TripsInv, PlaceOK, Behind
<1>5. CASE ServerReceive \/ ServerRun \/ UNCHANGED sessionVars
  BY <1>4, <1>5 DEF ServerReceive, ServerRun, sessionVars, clientVars, netVars
<1>6. QED
  BY <1>1, <1>2, <1>3, <1>5 DEF SessionNext

LEMMA TripsInitially == SessionInit => TripsInv
<1> SUFFICES ASSUME SessionInit PROVE TripsInv
  OBVIOUS
<1>1. program \in Programs /\ status = "running" /\ step = 1 /\ sent = 0 /\ turned /\ trips = 0
  BY DEF SessionInit
<1>2. /\ Len(program.awaits) \in Nat \ {0}
      /\ \A i \in 1 .. Len(program.awaits) : program.awaits[i].sent \in Nat
  BY <1>1, StretchesFinite
<1>3. PlaceOK
  BY <1>1, <1>2 DEF PlaceOK
<1>4. Behind(sent) = {}
  BY <1>1, <1>2 DEF Behind, Stretches
<1>5. QED
  BY <1>1, <1>3, <1>4, FS_EmptySet DEF TripsInv

LEMMA TripsInvariant == SessionSpec => []TripsInv
<1>1. SessionInv /\ SessionInv' /\ TripsInv /\ [SessionNext]_sessionVars => TripsInv'
  BY TripsKept
<1>2. QED
  BY <1>1, TripsInitially, SessionInvariant, PTL DEF SessionSpec

(***************************************************************************)
(* A program that passes the server no function that is called takes one   *)
(* round trip for each stretch of questions it sends, however many calls   *)
(* are pipelined on unanswered questions in it and in whatever order they  *)
(* are evaluated and answered.                                             *)
(***************************************************************************)
THEOREM PipeliningCostsNothing == SessionSpec => [](Plain(program) => RoundTripsAsNeeded)
<1>1. SessionInv /\ TripsInv => (Plain(program) => RoundTripsAsNeeded)
  <2> SUFFICES ASSUME SessionInv, TripsInv, Plain(program) PROVE RoundTripsAsNeeded
    OBVIOUS
  <2>1. program \in Programs /\ sent \in Nat
    BY DEF SessionInv, SInv, ClientOK, IInv, Shapes
  <2>2. /\ Len(program.awaits) \in Nat \ {0}
        /\ IsFiniteSet(Stretches(program)) /\ Behind(sent) \subseteq Stretches(program)
    BY <2>1, StretchesFinite
  <2>3. trips = Cardinality(Behind(sent)) /\ program.needs = Cardinality(Stretches(program))
    BY DEF TripsInv, Plain
  <2>4. Cardinality(Behind(sent)) <= Cardinality(Stretches(program))
    BY <2>2, FS_Subset
  <2>5. status = "done" => Behind(sent) = Stretches(program)
    BY <2>1, <2>2 DEF TripsInv, PlaceOK, Behind, Stretches
  <2>6. QED
    BY <2>3, <2>4, <2>5 DEF RoundTripsAsNeeded
<1>2. QED
  BY <1>1, SessionInvariant, TripsInvariant, PTL
===============================================================================
