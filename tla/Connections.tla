------------------------------ MODULE Connections -----------------------------
(***************************************************************************)
(* Clients that connect to the calculator and the server that accepts      *)
(* them: connect() of ts/src/connect.ts, the connection set-up of          *)
(* client_main in rust/src/main.rs, and doServer of go/main.go.  What goes *)
(* over a connection is CalculatorSession's; here a client only ends, with *)
(* process.exit or by returning, or its connection breaks.                 *)
(*                                                                         *)
(* A callback of Node and the continuation of an await that it settles are *)
(* one step.  A Node process ends by itself when its event loop has        *)
(* nothing to wait for: no timer and no socket.  (The versions of Node     *)
(* that the package is built for report an unhandled rejection and go on.) *)
(***************************************************************************)
EXTENDS Integers, FiniteSets, Sequences, SequencesExt

CONSTANTS TS,          \* the TypeScript clients
          Rust,        \* the Rust clients
          MaxFiles     \* the connections the server's process may hold open

ASSUME ClientsAssumption == IsFiniteSet(TS) /\ IsFiniteSet(Rust) /\ TS \cap Rust = {}
ASSUME MaxFilesAssumption == MaxFiles \in Nat

Clients == TS \cup Rust

VARIABLES proc,        \* where a client's process is
          link,        \* its TCP connection
          due,         \* the events of its socket that are still to be delivered
          timer,       \* the 5 s timer of connect()
          server,      \* the server's process
          queue,       \* the connections that wait to be accepted
          served       \* the connections that have a goroutine in handleConn

vars == <<proc, link, due, timer, server, queue, served>>

TypeOK ==
  /\ proc \in [Clients -> {"start", "awaiting", "using", "failed", "exited"}]
  /\ link \in [Clients -> {"none", "connecting", "open", "broken", "closed"}]
  /\ due \in [Clients -> SUBSET {"connect", "error"}]
  /\ timer \in [Clients -> {"none", "armed", "fired"}]
  /\ server \in {"up", "dead"}
  /\ queue \in Seq(Clients) /\ served \subseteq Clients \ ToSet(queue)
  /\ IsInjective(queue)
  /\ Cardinality(served) <= MaxFiles
  /\ server = "dead" => served = {} /\ queue = <<>> /\ \A c \in Clients : link[c] # "open"

Init ==
  /\ proc = [c \in Clients |-> "start"]
  /\ link = [c \in Clients |-> "none"]
  /\ due = [c \in Clients |-> {}]
  /\ timer = [c \in Clients |-> "none"]
  /\ server = "up"
  /\ queue = <<>>
  /\ served = {}

Become(c, p) == proc' = [proc EXCEPT ![c] = p]

\* The process ends and the kernel closes its socket.
Exit(c) ==
  /\ Become(c, "exited")
  /\ link' = [link EXCEPT ![c] = "closed"]
  /\ due' = [due EXCEPT ![c] = {}]
  /\ timer' = [timer EXCEPT ![c] = "none"]

(***************************************************************************)
(* connect(): an address without a host, or whose port is 0 or no number   *)
(* (0 too, here), is refused before there is a socket.  The address of     *)
(* client_main is a literal.                                               *)
(***************************************************************************)
connect(c, host, port) ==
  /\ proc[c] = "start" /\ (c \in Rust => host /\ port # 0)
  /\ IF host /\ port # 0
       THEN /\ Become(c, "awaiting")
            /\ link' = [link EXCEPT ![c] = "connecting"]
            /\ timer' = [timer EXCEPT ![c] = IF c \in TS THEN "armed" ELSE "none"]
       ELSE Become(c, "failed") /\ UNCHANGED <<link, timer>>
  /\ UNCHANGED <<due, server, queue, served>>

\* The network and the kernels at both ends.
Established(c) ==
  /\ link[c] = "connecting" /\ server = "up"
  /\ link' = [link EXCEPT ![c] = "open"]
  /\ due' = [due EXCEPT ![c] = @ \cup {"connect"}]
  /\ queue' = Append(queue, c)
  /\ UNCHANGED <<proc, timer, server, served>>

NotEstablished(c) ==
  /\ link[c] = "connecting"
  /\ link' = [link EXCEPT ![c] = "broken"]
  /\ due' = [due EXCEPT ![c] = @ \cup {"error"}]
  /\ UNCHANGED <<proc, timer, server, queue, served>>

\* A reset is an error of the socket, an end of the stream is not.
Break(c) ==
  /\ link[c] = "open"
  /\ link' = [link EXCEPT ![c] = "broken"]
  /\ \E events \in {{}, {"error"}} : due' = [due EXCEPT ![c] = @ \cup events]
  /\ UNCHANGED <<proc, timer, server, queue, served>>

(***************************************************************************)
(* The listeners: the first event settles the promise, later ones do not   *)
(* count.  Neither the timer nor the listeners are ever removed.           *)
(***************************************************************************)
Settle(c, p) == proc' = IF proc[c] = "awaiting" THEN [proc EXCEPT ![c] = p] ELSE proc

\* The socket is used whenever it connects.
OnConnectLate(c) ==
  /\ "connect" \in due[c]
  /\ due' = [due EXCEPT ![c] = @ \ {"connect"}]
  /\ proc' = IF proc[c] \in {"awaiting", "failed"} THEN [proc EXCEPT ![c] = "using"] ELSE proc
  /\ UNCHANGED <<link, timer, server, queue, served>>
OnConnect(c) ==
  /\ "connect" \in due[c]
  /\ due' = [due EXCEPT ![c] = @ \ {"connect"}]
  /\ Settle(c, "using")
  /\ UNCHANGED <<link, timer, server, queue, served>>

OnError(c) ==
  /\ "error" \in due[c]
  /\ due' = [due EXCEPT ![c] = @ \ {"error"}]
  /\ Settle(c, "failed")
  /\ UNCHANGED <<link, timer, server, queue, served>>

\* A timer that only reports.
OnTimerReporting(c) ==
  /\ timer[c] = "armed"
  /\ timer' = [timer EXCEPT ![c] = "fired"]
  /\ UNCHANGED <<proc, link, due, server, queue, served>>
\* setInterval in the place of setTimeout.
OnTimerAgain(c) ==
  /\ timer[c] = "armed"
  /\ Settle(c, "failed")
  /\ UNCHANGED <<link, due, timer, server, queue, served>>
OnTimer(c) ==
  /\ timer[c] = "armed"
  /\ timer' = [timer EXCEPT ![c] = "fired"]
  /\ Settle(c, "failed")
  /\ UNCHANGED <<link, due, server, queue, served>>

\* doClient reaches process.exit(0), or client_main returns.
Finish(c) ==
  /\ proc[c] = "using" /\ c \in served /\ link[c] = "open"
  /\ Exit(c)
  /\ UNCHANGED <<server, queue, served>>

\* Nothing is left to wait for: connect() has thrown, or the connection is gone and
\* with it whatever would have settled a recvMessage under way.
EmptyLoop(c) ==
  /\ c \in TS /\ proc[c] \in {"using", "failed"}
  /\ timer[c] # "armed" /\ due[c] = {} /\ link[c] \notin {"connecting", "open"}
  /\ Exit(c)
  /\ UNCHANGED <<server, queue, served>>

\* client_main returns the error of its connection, on which main panics.
Panic(c) ==
  /\ c \in Rust
  /\ \/ proc[c] = "failed"
     \/ proc[c] = "using" /\ link[c] = "broken"
  /\ Exit(c)
  /\ UNCHANGED <<server, queue, served>>

(***************************************************************************)
(* The server.  Connections wait in the listener's queue until they are    *)
(* accepted, even those that have ended meanwhile.                         *)
(***************************************************************************)
CanAccept == server = "up" /\ queue # <<>>

\* handleConn without its goroutine: one connection at a time.
AcceptInTurn ==
  /\ CanAccept /\ served = {}
  /\ served' = {Head(queue)}
  /\ queue' = Tail(queue)
  /\ UNCHANGED <<proc, link, due, timer, server>>
Accept ==
  /\ CanAccept /\ Cardinality(served) < MaxFiles
  /\ served' = served \cup {Head(queue)}
  /\ queue' = Tail(queue)
  /\ UNCHANGED <<proc, link, due, timer, server>>

\* must() that ends the loop and not the process.
AcceptFailsOn ==
  /\ CanAccept /\ Cardinality(served) >= MaxFiles
  /\ server' = "dead"
  /\ UNCHANGED <<proc, link, due, timer, queue, served>>
\* Accept fails when the process has no descriptor left, must() ends the process
\* and every connection goes with it.
AcceptFails ==
  /\ CanAccept /\ Cardinality(served) >= MaxFiles
  /\ server' = "dead"
  /\ queue' = <<>> /\ served' = {}
  /\ link' = [d \in Clients |-> IF link[d] = "open" THEN "broken" ELSE link[d]]
  /\ due' = [d \in Clients |-> IF link[d] = "open" THEN due[d] \cup {"error"} ELSE due[d]]
  /\ UNCHANGED <<proc, timer>>

\* conn.Wait() returns when the connection breaks, and not when the client closes it.
handleConnBroken(c) ==
  /\ c \in served /\ link[c] = "broken"
  /\ served' = served \ {c}
  /\ UNCHANGED <<proc, link, due, timer, server, queue>>
\* conn.Wait() returns: the connection has ended, one way or the other.
handleConnReturns(c) ==
  /\ c \in served /\ link[c] # "open"
  /\ served' = served \ {c}
  /\ UNCHANGED <<proc, link, due, timer, server, queue>>

Network(c) == Established(c) \/ NotEstablished(c)

Next ==
  \/ \E c \in Clients :
       \/ \E host \in BOOLEAN, port \in {0, 9494} : connect(c, host, port)
       \/ Network(c) \/ Break(c)
       \/ OnConnect(c) \/ OnError(c) \/ OnTimer(c)
       \/ Finish(c) \/ EmptyLoop(c) \/ Panic(c)
       \/ handleConnReturns(c)
  \/ Accept \/ AcceptFails

Spec == Init /\ [][Next]_vars

(***************************************************************************)
(* The event loop runs what is due and the timer fires, the accept loop    *)
(* accepts, goroutines go on.  The kernel gives up an attempt to connect   *)
(* in the end, which is all that a Rust client relies on; a TypeScript one *)
(* has its timer, and nothing is assumed of the network.                   *)
(***************************************************************************)
FairSpec ==
  /\ Spec
  /\ \A c \in Clients :
       /\ WF_vars(OnConnect(c)) /\ WF_vars(OnError(c)) /\ WF_vars(OnTimer(c))
       /\ WF_vars(Finish(c)) /\ WF_vars(EmptyLoop(c)) /\ WF_vars(Panic(c))
       /\ WF_vars(handleConnReturns(c))
  /\ WF_vars(Accept \/ AcceptFails)
  /\ \A c \in Rust : WF_vars(Network(c))

-------------------------------------------------------------------------------
(***************************************************************************)
(* A socket that connects after connect() has failed is not used, and one  *)
(* that is in use is not given up because an error or the timer comes      *)
(* after it.                                                               *)
(***************************************************************************)
LateEventsIgnored ==
  [][\A c \in Clients :
       /\ proc[c] = "failed" => proc'[c] \in {"failed", "exited"}
       /\ proc[c] = "using" => proc'[c] \in {"using", "exited"}]_vars

(***************************************************************************)
(* connect() ends, with a socket or an error, even if the network never    *)
(* answers.                                                                *)
(***************************************************************************)
ConnectSettles == \A c \in Clients : proc[c] = "awaiting" ~> proc[c] # "awaiting"

\* A client that gave up while its socket went on connecting: nothing closes it.
Abandoned(c) ==
  c \in TS /\ proc[c] = "failed" /\ timer[c] = "fired" /\ link[c] \in {"connecting", "open"}

(***************************************************************************)
(* A client that has started ends.  One that loses its connection does not *)
(* wait for ever although its recvMessage never settles; the exception is  *)
(* a client that timed out and whose socket is still there.                *)
(***************************************************************************)
ClientsEnd ==
  \A c \in Clients : proc[c] \notin {"start", "exited"} ~> proc[c] = "exited" \/ Abandoned(c)

(***************************************************************************)
(* Every connection that waits is taken up by a goroutine of its own,      *)
(* however long the others last, unless the server has ended.  MaxFiles is *)
(* the only limit, and running into it ends the server.                    *)
(***************************************************************************)
EveryConnectionServed ==
  \A c \in Clients : c \in ToSet(queue) ~> c \in served \/ server = "dead"

(***************************************************************************)
(* The server lets go of every connection that has ended, for good, even   *)
(* if it ended before it was accepted.                                     *)
(***************************************************************************)
ServerLetsGo ==
  \A c \in Clients : link[c] \in {"broken", "closed"} ~> [](c \notin served)
===============================================================================
