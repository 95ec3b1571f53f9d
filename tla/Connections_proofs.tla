--------------------------- MODULE Connections_proofs --------------------------
(***************************************************************************)
(* Proofs about Connections, for any finite sets of clients and any number *)
(* of connections that the server's process may hold open.                 *)
(***************************************************************************)
EXTENDS Connections, FiniteSetTheorems, SequenceTheorems, TLAPS

-------------------------------------------------------------------------------
(***************************************************************************)
(* TypeOK says that no connection is queued twice, or queued and served.   *)
(* This is kept because a connection comes to the server once: when it     *)
(* does, its socket stops connecting, and a client connects only once.     *)
(***************************************************************************)
ComesOnce ==
  /\ \A c \in Clients : proc[c] = "start" => link[c] = "none"
  /\ \A c \in served \cup ToSet(queue) : link[c] \in {"open", "broken", "closed"}

IInv == TypeOK /\ ComesOnce

-------------------------------------------------------------------------------
(* The queue of the listener *)

LEMMA AppendQueue ==
  ASSUME NEW S, NEW q \in Seq(S), IsInjective(q), NEW c \in S, c \notin ToSet(q)
  PROVE  /\ Append(q, c) \in Seq(S) /\ IsInjective(Append(q, c))
         /\ ToSet(Append(q, c)) = ToSet(q) \cup {c}
<1>1. /\ Append(q, c) \in Seq(S) /\ Len(Append(q, c)) = Len(q) + 1
      /\ \A i \in 1 .. Len(q) : Append(q, c)[i] = q[i]
      /\ Append(q, c)[Len(q) + 1] = c
  BY AppendProperties
<1>2. /\ Len(q) \in Nat /\ DOMAIN q = 1 .. Len(q)
      /\ DOMAIN Append(q, c) = 1 .. (Len(q) + 1)
  BY <1>1, LenProperties
<1>3. \A i \in 1 .. (Len(q) + 1) : i \in 1 .. Len(q) \/ i = Len(q) + 1
  BY <1>2
<1>4. IsInjective(Append(q, c))
  BY <1>1, <1>2, <1>3 DEF IsInjective, ToSet
<1>5. ToSet(Append(q, c)) = ToSet(q) \cup {c}
  <2>1. Len(q) + 1 \in 1 .. (Len(q) + 1) /\ 1 .. Len(q) \subseteq 1 .. (Len(q) + 1)
    BY <1>2
  <2>2. QED
    BY <1>1, <1>2, <1>3, <2>1 DEF ToSet
<1>6. QED
  BY <1>1, <1>4, <1>5

LEMMA TailQueue ==
  ASSUME NEW S, NEW q \in Seq(S), IsInjective(q), q # <<>>
  PROVE  /\ Tail(q) \in Seq(S) /\ IsInjective(Tail(q))
         /\ Head(q) \in ToSet(q) /\ Head(q) \in S
         /\ ToSet(Tail(q)) = ToSet(q) \ {Head(q)}
<1>1. /\ Head(q) \in S /\ Tail(q) \in Seq(S) /\ Len(Tail(q)) = Len(q) - 1
      /\ \A i \in 1 .. Len(Tail(q)) : Tail(q)[i] = q[i + 1]
  BY HeadTailProperties
<1>2. /\ Len(q) \in Nat /\ Len(q) >= 1 /\ DOMAIN q = 1 .. Len(q) /\ Head(q) = q[1]
      /\ DOMAIN Tail(q) = 1 .. (Len(q) - 1)
  BY <1>1, LenProperties, EmptySeq
<1>3. /\ \A i \in 1 .. (Len(q) - 1) : i + 1 \in 1 .. Len(q) /\ i + 1 # 1
      /\ \A i \in 1 .. Len(q) : i = 1 \/ (i - 1 \in 1 .. (Len(q) - 1) /\ (i - 1) + 1 = i)
      /\ 1 \in 1 .. Len(q)
  BY <1>2
<1>4. IsInjective(Tail(q))
  <2> SUFFICES ASSUME NEW i \in 1 .. (Len(q) - 1), NEW j \in 1 .. (Len(q) - 1),
                      Tail(q)[i] = Tail(q)[j]
               PROVE  i = j
    BY <1>2 DEF IsInjective
  <2>1. i + 1 = j + 1
    BY <1>1, <1>2, <1>3 DEF IsInjective
  <2>2. QED
    BY <2>1, <1>2
<1>5. ToSet(Tail(q)) = ToSet(q) \ {Head(q)}
  <2>1. ASSUME NEW x \in ToSet(Tail(q)) PROVE x \in ToSet(q) \ {Head(q)}
    <3>1. PICK i \in 1 .. (Len(q) - 1) : x = Tail(q)[i]
      BY <1>2 DEF ToSet
    <3>2. x = q[i + 1] /\ i + 1 \in 1 .. Len(q) /\ i + 1 # 1
      BY <1>1, <1>2, <1>3, <3>1
    <3>3. QED
      BY <1>2, <1>3, <3>2 DEF ToSet, IsInjective
  <2>2. ASSUME NEW x \in ToSet(q) \ {Head(q)} PROVE x \in ToSet(Tail(q))
    <3>1. PICK i \in 1 .. Len(q) : x = q[i] /\ i # 1
      BY <1>2 DEF ToSet
    <3>2. i - 1 \in 1 .. (Len(q) - 1) /\ Tail(q)[i - 1] = x
      BY <1>1, <1>2, <1>3, <3>1
    <3>3. QED
      BY <1>2, <3>2 DEF ToSet
  <2>3. QED
    BY <2>1, <2>2
<1>6. Head(q) \in ToSet(q)
  BY <1>2, <1>3 DEF ToSet
<1>7. QED
  BY <1>1, <1>4, <1>5, <1>6

-------------------------------------------------------------------------------
(* The inductive invariant *)

\* The parts of it that are about one client's process, and about the server.
Processes ==
  /\ proc \in [Clients -> {"start", "awaiting", "using", "failed", "exited"}]
  /\ due \in [Clients -> SUBSET {"connect", "error"}]
  /\ timer \in [Clients -> {"none", "armed", "fired"}]

Listener ==
  /\ server \in {"up", "dead"}
  /\ queue \in Seq(Clients) /\ served \subseteq Clients \ ToSet(queue)
  /\ IsInjective(queue)
  /\ Cardinality(served) <= MaxFiles

Links ==
  /\ link \in [Clients -> {"none", "connecting", "open", "broken", "closed"}]
  /\ server = "dead" => served = {} /\ queue = <<>> /\ \A c \in Clients : link[c] # "open"

LEMMA Parts == IInv <=> Processes /\ Listener /\ Links /\ ComesOnce
  BY DEF IInv, TypeOK, Processes, Listener, Links

LEMMA PartsNext == IInv' <=> Processes' /\ Listener' /\ Links' /\ ComesOnce'
  BY DEF IInv, TypeOK, Processes, Listener, Links

\* The empty queue, and no connection served.
LEMMA Nothing ==
  /\ <<>> \in Seq(Clients) /\ ToSet(<<>>) = {} /\ IsInjective(<<>>)
  /\ Cardinality({}) <= MaxFiles
<1>1. DOMAIN <<>> = {}
  OBVIOUS
<1>2. Cardinality({}) = 0
  BY FS_EmptySet
<1>3. Cardinality({}) <= MaxFiles
  BY <1>2, MaxFilesAssumption
<1>4. QED
  BY <1>1, <1>3 DEF ToSet, IsInjective

LEMMA InitIInv == Init => IInv
<1> SUFFICES ASSUME Init PROVE IInv
  OBVIOUS
<1>1. Processes
  BY DEF Init, Processes
<1>2. Listener
  BY Nothing DEF Init, Listener
<1>3. Links /\ ComesOnce
  BY Nothing DEF Init, Links, ComesOnce
<1>4. QED
  BY <1>1, <1>2, <1>3, Parts

\* A step that leaves the listener as it was, and opens no connection, keeps the
\* invariant if a client that is past its start stays so and keeps its socket, or
\* has it broken or closed.
LEMMA ClientKeeps ==
  ASSUME IInv, UNCHANGED <<server, queue, served>>, Processes', NEW c \in Clients,
         link' \in [Clients -> {"none", "connecting", "open", "broken", "closed"}],
         \A d \in Clients : d # c => proc'[d] = proc[d] /\ link'[d] = link[d],
         proc'[c] = "start" => proc[c] = "start" /\ link'[c] = link[c],
         \/ link'[c] = link[c]
         \/ link'[c] \in {"broken", "closed"}
         \/ proc[c] = "start" /\ link'[c] = "connecting"
  PROVE  IInv'
<1>1. Listener' /\ served \cup ToSet(queue) \subseteq Clients
  <2>1. Listener
    BY Parts
  <2>2. ToSet(queue) \subseteq Clients
    BY <2>1, ElementOfSeq DEF Listener, ToSet
  <2>3. QED
    BY <2>1, <2>2 DEF Listener
<1>2. Links'
  BY Parts DEF Links
<1>3. ComesOnce'
  <2>1. ComesOnce
    BY Parts
  <2>2. \A d \in Clients : proc'[d] = "start" => link'[d] = "none"
    BY <2>1 DEF ComesOnce
  <2>3. \A d \in served \cup ToSet(queue) : link'[d] \in {"open", "broken", "closed"}
    BY <1>1, <2>1 DEF ComesOnce
  <2>4. QED
    BY <2>2, <2>3 DEF ComesOnce
<1>4. QED
  BY <1>1, <1>2, <1>3, PartsNext

LEMMA ExitKeeps ==
  ASSUME IInv, NEW c \in Clients, Exit(c), UNCHANGED <<server, queue, served>>
  PROVE  IInv'
<1>1. Processes /\ Links
  BY Parts
<1>2. /\ Processes'
      /\ link' \in [Clients -> {"none", "connecting", "open", "broken", "closed"}]
      /\ proc'[c] = "exited" /\ link'[c] = "closed"
      /\ \A d \in Clients : d # c => proc'[d] = proc[d] /\ link'[d] = link[d]
  BY <1>1 DEF Exit, Become, Processes, Links
<1>3. QED
  BY <1>2, ClientKeeps

LEMMA connectKeeps ==
  ASSUME IInv, NEW c \in Clients, NEW host, NEW port, connect(c, host, port)
  PROVE  IInv'
<1>1. Processes /\ Links
  BY Parts
<1>2. /\ Processes' /\ UNCHANGED <<server, queue, served>>
      /\ link' \in [Clients -> {"none", "connecting", "open", "broken", "closed"}]
      /\ \A d \in Clients : d # c => proc'[d] = proc[d] /\ link'[d] = link[d]
      /\ proc'[c] # "start"
      /\ link'[c] = link[c] \/ (proc[c] = "start" /\ link'[c] = "connecting")
  BY <1>1 DEF connect, Become, Processes, Links
<1>3. QED
  BY <1>2, ClientKeeps

\* A new connection is in the queue for the first time.
LEMMA EstablishedKeeps ==
  ASSUME IInv, NEW c \in Clients, Established(c)
  PROVE  IInv'
<1>1. Processes /\ Links /\ Listener /\ ComesOnce
  BY Parts
<1>2. c \notin served /\ c \notin ToSet(queue)
  BY <1>1 DEF Established, ComesOnce
<1>3. /\ queue' \in Seq(Clients) /\ IsInjective(queue')
      /\ ToSet(queue') = ToSet(queue) \cup {c}
  BY <1>1, <1>2, AppendQueue DEF Established, Listener
<1>4. Processes'
  BY <1>1 DEF Established, Processes
<1>5. Listener'
  BY <1>1, <1>2, <1>3 DEF Established, Listener
<1>6. Links'
  BY <1>1 DEF Established, Links
<1>7. ComesOnce'
  <2>1. /\ link[c] = "connecting" /\ link'[c] = "open" /\ proc' = proc /\ served' = served
        /\ \A d \in Clients : d # c => link'[d] = link[d]
        /\ served \subseteq Clients /\ ToSet(queue) \subseteq Clients
    <3>1. ToSet(queue) \subseteq Clients
      BY <1>1, ElementOfSeq DEF Listener, ToSet
    <3>2. QED
      BY <1>1, <3>1 DEF Established, Links, Listener
  <2>2. QED
    BY <1>1, <1>3, <2>1 DEF ComesOnce
<1>8. QED
  BY <1>4, <1>5, <1>6, <1>7, PartsNext

LEMMA SocketKeeps ==
  ASSUME IInv, NEW c \in Clients, NotEstablished(c) \/ Break(c)
  PROVE  IInv'
<1>1. Processes /\ Links /\ ComesOnce
  BY Parts
<1>2. PICK events \in SUBSET {"connect", "error"} :
        due' = [due EXCEPT ![c] = @ \cup events]
  BY DEF NotEstablished, Break
<1>3. /\ UNCHANGED <<proc, timer, server, queue, served>>
      /\ link[c] \in {"connecting", "open"}
      /\ link' = [link EXCEPT ![c] = "broken"]
  BY DEF NotEstablished, Break
<1>4. Processes'
  BY <1>1, <1>2, <1>3 DEF Processes
<1>5. proc'[c] # "start"
  BY <1>1, <1>3 DEF ComesOnce
<1>6. /\ link' \in [Clients -> {"none", "connecting", "open", "broken", "closed"}]
      /\ link'[c] = "broken"
      /\ \A d \in Clients : d # c => proc'[d] = proc[d] /\ link'[d] = link[d]
  BY <1>1, <1>3 DEF Links
<1>7. QED
  BY <1>3, <1>4, <1>5, <1>6, ClientKeeps

LEMMA ListenersKeep ==
  ASSUME IInv, NEW c \in Clients, OnConnect(c) \/ OnError(c) \/ OnTimer(c)
  PROVE  IInv'
<1>1. Processes /\ Links
  BY Parts
<1>2. UNCHANGED <<link, server, queue, served>>
  BY DEF OnConnect, OnError, OnTimer
<1>3. Settle(c, "using") \/ Settle(c, "failed")
  BY DEF OnConnect, OnError, OnTimer
<1>4. /\ proc' \in [Clients -> {"start", "awaiting", "using", "failed", "exited"}]
      /\ \A d \in Clients : d # c => proc'[d] = proc[d]
      /\ proc'[c] = "start" => proc[c] = "start"
  BY <1>1, <1>3 DEF Settle, Processes
<1>5. /\ due' \in [Clients -> SUBSET {"connect", "error"}]
      /\ timer' \in [Clients -> {"none", "armed", "fired"}]
  BY <1>1 DEF OnConnect, OnError, OnTimer, Processes
<1>6. QED
  BY <1>1, <1>2, <1>4, <1>5, ClientKeeps DEF Links, Processes

LEMMA AcceptKeeps ==
  ASSUME IInv, Accept
  PROVE  IInv'
<1>1. Processes /\ Links /\ Listener /\ ComesOnce
  BY Parts
<1>2. /\ queue # <<>> /\ Cardinality(served) < MaxFiles
      /\ served' = served \cup {Head(queue)} /\ queue' = Tail(queue)
      /\ UNCHANGED <<proc, link, due, timer, server>> /\ server = "up"
  BY DEF Accept, CanAccept
<1>3. /\ queue' \in Seq(Clients) /\ IsInjective(queue')
      /\ Head(queue) \in ToSet(queue) /\ Head(queue) \in Clients
      /\ ToSet(queue') = ToSet(queue) \ {Head(queue)}
  BY <1>1, <1>2, TailQueue DEF Listener
<1>4. Cardinality(served') <= MaxFiles
  <2>1. IsFiniteSet(Clients)
    BY ClientsAssumption, FS_Union DEF Clients
  <2>2. IsFiniteSet(served)
    BY <1>1, <2>1, FS_Subset DEF Listener
  <2>3. Head(queue) \notin served
    BY <1>1, <1>3 DEF Listener
  <2>4. Cardinality(served') = Cardinality(served) + 1 /\ Cardinality(served) \in Nat
    BY <1>2, <2>2, <2>3, FS_AddElement, FS_CardinalityType
  <2>5. QED
    BY <1>2, <2>4, MaxFilesAssumption
<1>5. Processes'
  BY <1>1, <1>2 DEF Processes
<1>6. Listener'
  BY <1>1, <1>2, <1>3, <1>4 DEF Listener
<1>7. Links' /\ ComesOnce'
  BY <1>1, <1>2, <1>3 DEF Links, ComesOnce
<1>8. QED
  BY <1>5, <1>6, <1>7, PartsNext

LEMMA AcceptFailsKeeps ==
  ASSUME IInv, AcceptFails
  PROVE  IInv'
<1>1. Processes /\ Links /\ Listener /\ ComesOnce
  BY Parts
<1>2. /\ server' = "dead" /\ queue' = <<>> /\ served' = {} /\ UNCHANGED <<proc, timer>>
      /\ link' = [d \in Clients |-> IF link[d] = "open" THEN "broken" ELSE link[d]]
      /\ due' = [d \in Clients |->
                   IF link[d] = "open" THEN due[d] \cup {"error"} ELSE due[d]]
  BY DEF AcceptFails
<1>3. Processes'
  BY <1>1, <1>2 DEF Processes
<1>4. Listener'
  BY <1>2, Nothing DEF Listener
<1>5. Links'
  BY <1>1, <1>2 DEF Links
<1>6. ComesOnce'
  BY <1>1, <1>2, Nothing DEF ComesOnce
<1>7. QED
  BY <1>3, <1>4, <1>5, <1>6, PartsNext

LEMMA handleConnReturnsKeeps ==
  ASSUME IInv, NEW c \in Clients, handleConnReturns(c)
  PROVE  IInv'
<1>1. Processes /\ Links /\ Listener /\ ComesOnce
  BY Parts
<1>2. /\ c \in served /\ served' = served \ {c}
      /\ UNCHANGED <<proc, link, due, timer, server, queue>>
  BY DEF handleConnReturns
<1>3. Cardinality(served') <= MaxFiles
  <2>1. IsFiniteSet(served)
    BY <1>1, ClientsAssumption, FS_Union, FS_Subset DEF Listener, Clients
  <2>2. /\ Cardinality(served') = Cardinality(served) - 1
        /\ Cardinality(served) \in Nat
    BY <1>2, <2>1, FS_RemoveElement, FS_CardinalityType
  <2>3. Cardinality(served) <= MaxFiles
    BY <1>1 DEF Listener
  <2>4. QED
    BY <2>2, <2>3, MaxFilesAssumption
<1>4. Processes'
  BY <1>1, <1>2 DEF Processes
<1>5. Listener'
  BY <1>1, <1>2, <1>3 DEF Listener
<1>6. Links' /\ ComesOnce'
  BY <1>1, <1>2 DEF Links, ComesOnce
<1>7. QED
  BY <1>4, <1>5, <1>6, PartsNext

LEMMA NextKeepsIInv == IInv /\ [Next]_vars => IInv'
<1> SUFFICES ASSUME IInv, [Next]_vars PROVE IInv'
  OBVIOUS
<1>1. CASE UNCHANGED vars
  <2>1. UNCHANGED <<proc, link, due, timer, server, queue, served>>
    BY <1>1 DEF vars
  <2>2. QED
    BY <2>1 DEF IInv, TypeOK, ComesOnce
<1>2. ASSUME NEW c \in Clients, Finish(c) \/ EmptyLoop(c) \/ Panic(c) PROVE IInv'
  BY <1>2, ExitKeeps DEF Finish, EmptyLoop, Panic
<1>3. QED
  BY <1>1, <1>2, connectKeeps, EstablishedKeeps, SocketKeeps, ListenersKeep, AcceptKeeps,
     AcceptFailsKeeps, handleConnReturnsKeeps DEF Next, Network

LEMMA Invariant == Spec => []IInv
  BY InitIInv, NextKeepsIInv, PTL DEF Spec

-------------------------------------------------------------------------------
(* The theorems *)

(***************************************************************************)
(* A connection is queued once and never queued and served at the same     *)
(* time, the server holds MaxFiles connections at most, and none outlives  *)
(* its process.                                                            *)
(***************************************************************************)
THEOREM TypeCorrect == Spec => []TypeOK
<1>1. IInv => TypeOK
  BY DEF IInv
<1>2. QED
  BY <1>1, Invariant, PTL

(***************************************************************************)
(* What comes after connect() is settled does not change how it was: a     *)
(* failed client does not go on to use the socket, and one that uses it    *)
(* does not fail by the timer or an error.                                 *)
(***************************************************************************)
THEOREM LateEventsAreIgnored == Spec => LateEventsIgnored
<1> DEFINE Ignored == \A c \in Clients :
                        /\ proc[c] = "failed" => proc'[c] \in {"failed", "exited"}
                        /\ proc[c] = "using" => proc'[c] \in {"using", "exited"}
<1>1. IInv /\ [Next]_vars => [Ignored]_vars
  <2> SUFFICES ASSUME IInv, Next PROVE Ignored
    OBVIOUS
  <2>1. proc \in [Clients -> {"start", "awaiting", "using", "failed", "exited"}]
    BY DEF IInv, TypeOK
  <2>2. ASSUME NEW c \in Clients, NEW p, Settle(c, p) PROVE Ignored
    BY <2>1, <2>2 DEF Settle
  <2>3. ASSUME NEW c \in Clients, Exit(c) PROVE Ignored
    BY <2>1, <2>3 DEF Exit, Become
  <2>4. ASSUME NEW c \in Clients, NEW host, NEW port, connect(c, host, port) PROVE Ignored
    BY <2>1, <2>4 DEF connect, Become
  <2>5. ASSUME UNCHANGED proc PROVE Ignored
    BY <2>5
  <2> HIDE DEF Ignored
  <2>6. ASSUME NEW c \in Clients,
               Network(c) \/ Break(c) \/ handleConnReturns(c)
        PROVE  UNCHANGED proc
    BY <2>6 DEF Network, Established, NotEstablished, Break, handleConnReturns
  <2>7. Accept \/ AcceptFails => UNCHANGED proc
    BY DEF Accept, AcceptFails
  <2>8. ASSUME NEW c \in Clients, OnConnect(c) \/ OnError(c) \/ OnTimer(c)
        PROVE  \E p : Settle(c, p)
    BY <2>8 DEF OnConnect, OnError, OnTimer
  <2>9. ASSUME NEW c \in Clients, Finish(c) \/ EmptyLoop(c) \/ Panic(c)
        PROVE  Exit(c)
    BY <2>9 DEF Finish, EmptyLoop, Panic
  <2>10. QED
    BY <2>2, <2>3, <2>4, <2>5, <2>6, <2>7, <2>8, <2>9 DEF Next
<1>2. QED
  BY <1>1, Invariant, PTL DEF Spec, LateEventsIgnored
===============================================================================
