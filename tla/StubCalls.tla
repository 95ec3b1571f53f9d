------------------------------- MODULE StubCalls ------------------------------
(***************************************************************************)
(* One call through the generated interface stubs: a client written in one *)
(* language fills in the parameters and sends the call, an object written  *)
(* in another dispatches it, reads the parameters and returns results, and *)
(* the client uses the result, perhaps before it has come.                 *)
(*                                                                         *)
(* A capability carries no type on the wire: bootstrap() and the cast of   *)
(* its result (client.ts 44-45) may give a client of one interface for an  *)
(* object of another.                                                      *)
(***************************************************************************)
EXTENDS StubTables

CONSTANTS Numbers,     \* for each width, the numbers that setters are given
          Pointers,    \* the capabilities and structs they are given
          None

\* A number is its lanes of 16 bits.
ASSUME NumbersAssumption ==
  \A w \in {U16, U32, F64} : Numbers[w] \subseteq [0 .. (w - 1) -> Lanes]

\* The one parameter of 16 bits is an Operator, and programs pass its constants
\* (add, subtract, multiply, divide).
ASSUME OperatorsAssumption == \A v \in Numbers[U16] : v[0] \in 0 .. 3

VARIABLES client,      \* the language of the calling stub
          server,      \* the language of the called one
          object,      \* the interface of the called object
          methods,     \* the methods its implementation has
          phase, 
          asked,       \* the interface and the method the program calls
          given,       \* the parameters it sets
          params,      \* the struct they are set in
          message,     \* the call as sent
          ran,         \* the method run and the parameters it saw
          results,     \* the struct of its results
          pipelined    \* the promised result the client uses

vars == <<client, server, object, methods, phase, asked, given, params, message,
          ran, results, pipelined>>

Languages == {"rust", "ts", "go"}

interfaces_ts ==
  [calculator |-> Interface("97983392df35cc36",
     [evaluate |-> 0, def_function |-> 1, get_operator |-> 2],
     [m \in 0 .. 2 |-> <<"evaluate", "def_function", "get_operator">>[m + 1]]),
   value |-> Interface("c3e69d34d3ee48d2", [read |-> 0], [m \in 0 .. 0 |-> "read"]),
   function |-> Interface("ede83a3d96840394", [call |-> 0], [m \in 0 .. 0 |-> "call"])]

interfaces_go ==
  [calculator |-> Interface("97983392df35cc36",
     [evaluate |-> 0, def_function |-> 1, get_operator |-> 2],
     [m \in 0 .. 2 |-> <<"evaluate", "def_function", "get_operator">>[m + 1]]),
   value |-> Interface("c3e69d34d3ee48d2", [read |-> 0], [m \in 0 .. 0 |-> "read"]),
   function |-> Interface("ede83a3d96840394", [call |-> 0], [m \in 0 .. 0 |-> "call"])]

Interfaces == [rust |-> interfaces, ts |-> interfaces_ts, go |-> interfaces_go]

ParamsOf == [evaluate |-> "evaluate_params", def_function |-> "def_function_params",
             get_operator |-> "get_operator_params", read |-> "read_params",
             call |-> "call_params"]

ResultsOf == [evaluate |-> "evaluate_results", def_function |-> "def_function_results",
              get_operator |-> "get_operator_results", read |-> "read_results",
              call |-> "call_results"]

ParamsType(l, method) == Stubs[l].calculator[ParamsOf[method]]
ResultsType(l, method) == Stubs[l].calculator[ResultsOf[method]]

AllMethods == DOMAIN ParamsOf

Settable(f) ==
  IF f.section = "pointers" THEN {Lane(p) : p \in Pointers}
  ELSE {v \in Numbers[f.width] : f.variants # 0 => v[0] < f.variants}

\* What a getter of the stub returns: the Rust one turns a number into a variant.
Seen(l, t, s) ==
  [f \in FieldNames(t) |->
     LET v == get(t, s, f)
     IN  IF l = "rust" /\ t.fields[f].variants # 0
           THEN Lane(from_u16(t.fields[f].variants, v[0])) ELSE v]

\* The trait Server of Rust has a default for every method, which refuses; the
\* Go and TypeScript compilers ask for all of them.
Init ==
  /\ client \in Languages /\ server \in Languages
  /\ object \in DOMAIN interfaces
  /\ methods \in IF server = "rust" THEN {AllMethods, {"evaluate", "read"}}
                                    ELSE {AllMethods}
  /\ phase = "idle"
  /\ asked = None /\ given = None /\ params = None /\ message = None
  /\ ran = None /\ results = None /\ pipelined = None

request(i, m) ==
  LET t == ParamsType(client, m)
  IN  /\ phase = "idle"
      /\ phase' = "building"
      /\ asked' = [interface |-> i, method |-> m]
      /\ params' = init_struct(t.size)
      /\ given' = [f \in FieldNames(t) |-> Default(t.fields[f])]
      /\ UNCHANGED <<client, server, object, methods, message, ran, results, pipelined>>

SetParam(f, v) ==
  /\ phase = "building"
  /\ params' = set(ParamsType(client, asked.method), params, f, v)
  /\ given' = [given EXCEPT ![f] = v]
  /\ UNCHANGED <<client, server, object, methods, phase, asked, message, ran, results,
                 pipelined>>

send ==
  LET i == Interfaces[client][asked.interface]
  IN  /\ phase = "building"
      /\ phase' = "sent"
      /\ message' = [interface_id |-> i.id, method_id |-> i.requests[asked.method],
                     params |-> params]
      /\ UNCHANGED <<client, server, object, methods, asked, given, params, ran, results,
                     pipelined>>

\* The Pipeline of the results, used as soon as the call is sent.
GetPromised(f) ==
  /\ phase \in {"sent", "running"} /\ pipelined = None
  /\ pipelined' = [field |-> f,
                   pointer |-> ResultsType(client, asked.method).pipeline[f]]
  /\ UNCHANGED <<client, server, object, methods, phase, asked, given, params, message,
                 ran, results>>

\* dispatch_call without its look at the interface.
dispatch_any_interface ==
  LET dispatch == Interfaces[server][object].dispatch
      method   == dispatch[message.method_id]
      accepted == message.method_id \in DOMAIN dispatch /\ method \in methods
  IN  /\ phase = "sent"
      /\ phase' = IF accepted THEN "running" ELSE "refused"
      /\ ran' = IF accepted
                  THEN [method |-> method,
                        params |-> Seen(server, ParamsType(server, method), message.params)]
                  ELSE None
      /\ results' = IF accepted THEN init_struct(ResultsType(server, method).size) ELSE None
      /\ UNCHANGED <<client, server, object, methods, asked, given, params, message,
                     pipelined>>
\* dispatch_call and dispatch_call_internal: the interface, then the method, then
\* the implementation, each of which may refuse.
dispatch_call ==
  LET i        == Interfaces[server][object]
      method   == i.dispatch[message.method_id]
      accepted == /\ message.interface_id = i.id
                  /\ message.method_id \in DOMAIN i.dispatch
                  /\ method \in methods
  IN  /\ phase = "sent"
      /\ phase' = IF accepted THEN "running" ELSE "refused"
      /\ ran' = IF accepted
                  THEN [method |-> method,
                        params |-> Seen(server, ParamsType(server, method), message.params)]
                  ELSE None
      /\ results' = IF accepted THEN init_struct(ResultsType(server, method).size) ELSE None
      /\ UNCHANGED <<client, server, object, methods, asked, given, params, message,
                     pipelined>>

SetResult(f, v) ==
  /\ phase = "running"
  /\ results' = set(ResultsType(server, ran.method), results, f, v)
  /\ UNCHANGED <<client, server, object, methods, phase, asked, given, params, message,
                 ran, pipelined>>

Return ==
  /\ phase = "running"
  /\ phase' = "answered"
  /\ UNCHANGED <<client, server, object, methods, asked, given, params, message, ran,
                 results, pipelined>>

Next ==
  \/ \E i \in DOMAIN interfaces : \E m \in DOMAIN interfaces[i].requests : request(i, m)
  \/ /\ phase = "building"
     /\ LET t == ParamsType(client, asked.method)
        IN  \E f \in FieldNames(t) : \E v \in Settable(t.fields[f]) : SetParam(f, v)
  \/ send
  \/ /\ phase \in {"sent", "running"}
     /\ \E f \in DOMAIN ResultsType(client, asked.method).pipeline : GetPromised(f)
  \/ dispatch_call
  \/ /\ phase = "running"
     /\ LET t == ResultsType(server, ran.method)
        IN  \E f \in FieldNames(t) : \E v \in Settable(t.fields[f]) : SetResult(f, v)
  \/ Return

Spec == Init /\ [][Next]_vars

-------------------------------------------------------------------------------
(***************************************************************************)
(* A method runs only for the program that asked for it, of an object that *)
(* has it: a client of the wrong interface is refused, never served by a   *)
(* method that happens to have the same number.                            *)
(***************************************************************************)
RunsMethodAsked ==
  /\ phase \in {"running", "answered"} =>
       ran.method = asked.method /\ object = asked.interface
  /\ phase = "refused" => object # asked.interface \/ asked.method \notin methods

(***************************************************************************)
(* The method sees each parameter as the client set it, in whatever        *)
(* languages the two are written.                                          *)
(***************************************************************************)
ParamsArrive ==
  phase \in {"running", "answered"} => ran.params = given

(***************************************************************************)
(* A promised capability that was used before the answer is the capability *)
(* that the answer's getter returns.                                       *)
(***************************************************************************)
PromiseIsResult ==
  phase = "answered" /\ pipelined # None =>
    /\ pipelined.pointer \in DOMAIN results["pointers"]
    /\ Lane(results["pointers"][pipelined.pointer])
         = get(ResultsType(client, asked.method), results, pipelined.field)
===============================================================================
