--------------------------- MODULE StubCalls_proofs ---------------------------
(***************************************************************************)
(* Proofs about StubCalls, for all values that programs set: whatever two  *)
(* languages meet, the method asked for runs, sees the parameters as they  *)
(* were set, and its result is the one that was promised.                  *)
(***************************************************************************)
EXTENDS StubCalls, StructLayout_proofs

-------------------------------------------------------------------------------
(* The tables of the three stubs *)

(***************************************************************************)
(* The interfaces have the same numbers in all stubs, no two of them the   *)
(* same identifier, and a server runs for a number the method whose        *)
(* request carries it.                                                     *)
(***************************************************************************)
LEMMA SameInterfaces == \A l \in Languages : Interfaces[l] = interfaces
  BY DEF Languages, Interfaces, interfaces, interfaces_ts, interfaces_go, calculator,
         value, function

LEMMA InterfaceTable ==
  /\ \A i, j \in DOMAIN interfaces : interfaces[i].id = interfaces[j].id => i = j
  /\ \A i \in DOMAIN interfaces : \A m \in DOMAIN interfaces[i].requests :
       /\ m \in AllMethods
       /\ interfaces[i].requests[m] \in DOMAIN interfaces[i].dispatch
       /\ interfaces[i].dispatch[interfaces[i].requests[m]] = m
<1>1. DOMAIN interfaces = {"calculator", "value", "function"}
  BY DEF interfaces
<1>2. /\ interfaces["calculator"] = calculator /\ interfaces["value"] = value
      /\ interfaces["function"] = function
  BY DEF interfaces
<1>3. calculator.id # value.id /\ calculator.id # function.id /\ value.id # function.id
  BY DEF calculator, value, function, Interface
<1>4. \A m \in DOMAIN calculator.requests :
        /\ m \in AllMethods /\ calculator.requests[m] \in DOMAIN calculator.dispatch
        /\ calculator.dispatch[calculator.requests[m]] = m
  BY DEF calculator, Interface, AllMethods, ParamsOf
<1>5. \A m \in DOMAIN value.requests :
        /\ m \in AllMethods /\ value.requests[m] \in DOMAIN value.dispatch
        /\ value.dispatch[value.requests[m]] = m
  BY DEF value, Interface, AllMethods, ParamsOf
<1>6. \A m \in DOMAIN function.requests :
        /\ m \in AllMethods /\ function.requests[m] \in DOMAIN function.dispatch
        /\ function.dispatch[function.requests[m]] = m
  BY DEF function, Interface, AllMethods, ParamsOf
<1>7. QED
  BY <1>1, <1>2, <1>3, <1>4, <1>5, <1>6

\* The struct type t has this size and its fields have these places, whatever its
\* getters make of numbers, and it is no union.
Laid(t, size, fields) ==
  /\ t.size = size
  /\ DOMAIN t.tags = {}
  /\ DOMAIN t.fields = DOMAIN fields
  /\ \A f \in DOMAIN fields :
       /\ t.fields[f].section = fields[f].section
       /\ t.fields[f].start = fields[f].start /\ t.fields[f].width = fields[f].width
       /\ t.fields[f].variants \in {0, fields[f].variants}

LEMMA LaidStruct ==
  ASSUME NEW lang, NEW size, NEW fields, NEW pipeline
  PROVE  Laid(Struct(lang, size, fields, pipeline), size, fields)
  BY DEF Laid, Struct, NoTags

\* Offsets and sizes in the units of each language come to the same places.
LEMMA Units ==
  /\ \A p \in {0, 1} : STRUCT_SIZE(0, p) = [data |-> 0, pointers |-> p]
  /\ \A p \in {0, 1} : STRUCT_SIZE(1, p) = [data |-> 4, pointers |-> p]
  /\ \A p \in {0, 1} : ObjectSize(0, p) = [data |-> 0, pointers |-> p]
  /\ \A p \in {0, 1} : ObjectSize(8, p) = [data |-> 4, pointers |-> p]
  /\ Bytes(U16, 0) = Data(U16, 0) /\ Bytes(U32, 0) = Data(U32, 0)
  /\ Bytes(F64, 0) = Data(F64, 0)
  BY DEF STRUCT_SIZE, ObjectSize, Bytes, Data, U16, U32, F64

\* What each method's parameters look like, in any stub.
Size(data, pointers) == [data |-> data, pointers |-> pointers]

ParamsSize ==
  [evaluate |-> Size(0, 1), def_function |-> Size(4, 1), get_operator |-> Size(4, 0),
   read |-> Size(0, 0), call |-> Size(0, 1)]

ParamsFields ==
  [evaluate |-> [expression |-> Pointer(0)],
   def_function |-> [param_count |-> Data(U32, 0), body |-> Pointer(0)],
   get_operator |-> [op |-> Enum(Data(U16, 0), 4)],
   read |-> NoFields,
   call |-> [params |-> Pointer(0)]]

LEMMA ParamTables ==
  ASSUME NEW l \in Languages, NEW m \in AllMethods
  PROVE  Laid(ParamsType(l, m), ParamsSize[m], ParamsFields[m])
<1>1. /\ Stubs["rust"].calculator = CalculatorStructs
      /\ Stubs["ts"].calculator = CalculatorStructs_ts
      /\ Stubs["go"].calculator = CalculatorStructs_go
  BY DEF Stubs
<1>2. CASE m = "evaluate"
  <2>1. \E p : ParamsType(l, m) = Struct(l, Size(0, 1), [expression |-> Pointer(0)], p)
    BY <1>1, <1>2, Units DEF Languages, ParamsType, ParamsOf, CalculatorStructs,
        CalculatorStructs_ts, CalculatorStructs_go, evaluate_params, evaluate_params_ts,
        evaluate_params_go, Size
  <2>2. QED
    BY <1>2, <2>1, LaidStruct DEF ParamsSize, ParamsFields
<1>3. CASE m = "def_function"
  <2>1. \E p : ParamsType(l, m) =
                 Struct(l, Size(4, 1), [param_count |-> Data(U32, 0), body |-> Pointer(0)], p)
    BY <1>1, <1>3, Units DEF Languages, ParamsType, ParamsOf, CalculatorStructs,
        CalculatorStructs_ts, CalculatorStructs_go, def_function_params, def_function_params_ts,
        def_function_params_go, Size
  <2>2. QED
    BY <1>3, <2>1, LaidStruct DEF ParamsSize, ParamsFields
<1>4. CASE m = "get_operator"
  <2>1. \/ ParamsType(l, m) =
             Struct(l, Size(4, 0), [op |-> Enum(Data(U16, 0), 4)], NoPipeline)
        \/ ParamsType(l, m) = Struct(l, Size(4, 0), [op |-> Data(U16, 0)], NoPipeline)
    BY <1>1, <1>4, Units DEF Languages, ParamsType, ParamsOf, CalculatorStructs,
        CalculatorStructs_ts, CalculatorStructs_go, get_operator_params, get_operator_params_ts,
        get_operator_params_go, Size,
        OperatorVariants
  <2>2. Laid(Struct(l, Size(4, 0), [op |-> Data(U16, 0)], NoPipeline), Size(4, 0),
             [op |-> Enum(Data(U16, 0), 4)])
    <3>1. /\ Enum(Data(U16, 0), 4) = Field("data", 0, 1, 4)
          /\ Data(U16, 0) = Field("data", 0, 1, 0)
      BY DEF Enum, Data, Field, U16
    <3>2. QED
      BY <3>1 DEF Laid, Struct, NoTags, Field
  <2>3. QED
    BY <1>4, <2>1, <2>2, LaidStruct DEF ParamsSize, ParamsFields
<1>5. CASE m = "read"
  <2>1. \E p : ParamsType(l, m) = Struct(l, Size(0, 0), NoFields, p)
    BY <1>1, <1>5, Units DEF Languages, ParamsType, ParamsOf, CalculatorStructs,
        CalculatorStructs_ts, CalculatorStructs_go, read_params, read_params_ts,
        read_params_go, Size
  <2>2. QED
    BY <1>5, <2>1, LaidStruct DEF ParamsSize, ParamsFields
<1>6. CASE m = "call"
  <2>1. \E p : ParamsType(l, m) = Struct(l, Size(0, 1), [params |-> Pointer(0)], p)
    BY <1>1, <1>6, Units DEF Languages, ParamsType, ParamsOf, CalculatorStructs,
        CalculatorStructs_ts, CalculatorStructs_go, call_params, call_params_ts,
        call_params_go, Size
  <2>2. QED
    BY <1>6, <2>1, LaidStruct DEF ParamsSize, ParamsFields
<1>7. QED
  BY <1>2, <1>3, <1>4, <1>5, <1>6 DEF AllMethods, ParamsOf

ResultsSize ==
  [evaluate |-> Size(0, 1), def_function |-> Size(0, 1), get_operator |-> Size(0, 1),
   read |-> Size(4, 0), call |-> Size(4, 0)]

ResultsFields ==
  [evaluate |-> [value |-> Pointer(0)], def_function |-> [func |-> Pointer(0)],
   get_operator |-> [func |-> Pointer(0)],
   read |-> [value |-> Data(F64, 0)], call |-> [value |-> Data(F64, 0)]]

ResultsPromised ==
  [evaluate |-> [value |-> 0], def_function |-> [func |-> 0],
   get_operator |-> [func |-> 0], read |-> NoPipeline, call |-> NoPipeline]

LEMMA ResultTables ==
  ASSUME NEW l \in Languages, NEW m \in AllMethods
  PROVE  ResultsType(l, m) = Struct(l, ResultsSize[m], ResultsFields[m], ResultsPromised[m])
<1>1. /\ Stubs["rust"].calculator = CalculatorStructs
      /\ Stubs["ts"].calculator = CalculatorStructs_ts
      /\ Stubs["go"].calculator = CalculatorStructs_go
  BY DEF Stubs
<1>2. CASE m = "evaluate"
  BY <1>1, <1>2, Units DEF Languages, ResultsType, ResultsOf, CalculatorStructs,
      CalculatorStructs_ts, CalculatorStructs_go, evaluate_results, evaluate_results_ts,
      evaluate_results_go, Size, ResultsSize,
      ResultsFields, ResultsPromised
<1>3. CASE m = "def_function"
  BY <1>1, <1>3, Units DEF Languages, ResultsType, ResultsOf, CalculatorStructs,
      CalculatorStructs_ts, CalculatorStructs_go, def_function_results, def_function_results_ts,
      def_function_results_go, Size, ResultsSize,
      ResultsFields, ResultsPromised
<1>4. CASE m = "get_operator"
  BY <1>1, <1>4, Units DEF Languages, ResultsType, ResultsOf, CalculatorStructs,
      CalculatorStructs_ts, CalculatorStructs_go, get_operator_results, get_operator_results_ts,
      get_operator_results_go, Size, ResultsSize,
      ResultsFields, ResultsPromised
<1>5. CASE m = "read"
  BY <1>1, <1>5, Units DEF Languages, ResultsType, ResultsOf, CalculatorStructs,
      CalculatorStructs_ts, CalculatorStructs_go, read_results, read_results_ts,
      read_results_go, Size, ResultsSize,
      ResultsFields, ResultsPromised
<1>6. CASE m = "call"
  BY <1>1, <1>6, Units DEF Languages, ResultsType, ResultsOf, CalculatorStructs,
      CalculatorStructs_ts, CalculatorStructs_go, call_results, call_results_ts,
      call_results_go, Size, ResultsSize,
      ResultsFields, ResultsPromised
<1>7. QED
  BY <1>2, <1>3, <1>4, <1>5, <1>6 DEF AllMethods, ParamsOf

(***************************************************************************)
(* The fields of the parameters lie in the struct and clear of each other. *)
(***************************************************************************)
LEMMA ParamPlaces ==
  ASSUME NEW m \in AllMethods, NEW f \in DOMAIN ParamsFields[m]
  PROVE  LET p == ParamsFields[m][f]
         IN  /\ IsPlace(p) /\ p.width \in {U16, U32, F64}
             /\ Slots(p) \subseteq 0 .. (ParamsSize[m][p.section] - 1)
             /\ p.section = "pointers" => p.width = 1
             /\ p.variants # 0 => p.section = "data" /\ p.width = U16 /\ p.variants = 4
             /\ \A g \in DOMAIN ParamsFields[m] \ {f} : ~Overlap(p, ParamsFields[m][g])
<1>1. /\ Pointer(0) = Field("pointers", 0, 1, 0) /\ Data(U32, 0) = Field("data", 0, 2, 0)
      /\ Enum(Data(U16, 0), 4) = Field("data", 0, 1, 4)
      /\ Slots(Pointer(0)) = 0 .. 0 /\ Slots(Data(U32, 0)) = 0 .. 1
      /\ Slots(Enum(Data(U16, 0), 4)) = 0 .. 0
  BY DEF Pointer, Data, Enum, Field, U16, U32, Slots
<1>2. /\ Pointer(0).section = "pointers" /\ Data(U32, 0).section = "data"
      /\ Enum(Data(U16, 0), 4).section = "data"
  BY <1>1 DEF Field
<1>3. /\ IsPlace(Pointer(0)) /\ IsPlace(Data(U32, 0)) /\ IsPlace(Enum(Data(U16, 0), 4))
      /\ Pointer(0).width = 1 /\ Pointer(0).variants = 0
      /\ Data(U32, 0).width = 2 /\ Data(U32, 0).variants = 0
      /\ Enum(Data(U16, 0), 4).width = 1 /\ Enum(Data(U16, 0), 4).variants = 4
  BY <1>1 DEF Field, IsPlace, Sections
<1>4. CASE m \in {"evaluate", "call"}
  BY <1>1, <1>2, <1>3, <1>4 DEF ParamsFields, ParamsSize, Size, U16
<1>5. CASE m = "def_function"
  BY <1>1, <1>2, <1>3, <1>5 DEF ParamsFields, ParamsSize, Size, U16, U32, Overlap
<1>6. CASE m = "get_operator"
  BY <1>1, <1>2, <1>3, <1>6 DEF ParamsFields, ParamsSize, Size, U16
<1>7. CASE m = "read"
  BY <1>7 DEF ParamsFields, NoFields
<1>8. QED
  BY <1>4, <1>5, <1>6, <1>7 DEF AllMethods, ParamsOf

-------------------------------------------------------------------------------
(* The invariant *)

\* The struct s has exactly this size.
OfSize(s, size) ==
  /\ DOMAIN s = Sections
  /\ \A c \in Sections : DOMAIN s[c] = 0 .. (size[c] - 1)

\* The program asked for a method of some interface.
Asks ==
  /\ asked.interface \in DOMAIN interfaces
  /\ asked.method \in DOMAIN interfaces[asked.interface].requests

\* The struct of the parameters reads as the program set them, by the places that
\* all stubs share; what was set where an enumeration is expected is one of its
\* variants.
Built ==
  /\ OfSize(params, ParamsSize[asked.method])
  /\ given = [f \in DOMAIN ParamsFields[asked.method] |->
                get_field(params, ParamsFields[asked.method][f])]
  /\ \A f \in DOMAIN ParamsFields[asked.method] :
       ParamsFields[asked.method][f].variants # 0 => \E x \in 0 .. 3 : given[f] = Lane(x)

\* The message says what was asked, and holds the struct that was built.
Says ==
  /\ message.interface_id = interfaces[asked.interface].id
  /\ message.method_id = interfaces[asked.interface].requests[asked.method]
  /\ message.params = params

\* The method runs, or has run.
Runs ==
  /\ ran.method = asked.method /\ object = asked.interface
  /\ ran.params = given
  /\ OfSize(results, ResultsSize[asked.method])

Promised ==
  /\ phase # "idle"
  /\ pipelined.field \in DOMAIN ResultsPromised[asked.method]
  /\ pipelined.pointer = ResultsPromised[asked.method][pipelined.field]

IInv ==
  /\ client \in Languages /\ server \in Languages /\ object \in DOMAIN interfaces
  /\ phase # "idle" => Asks /\ Built
  /\ phase \notin {"idle", "building"} => Says
  /\ phase \in {"running", "answered"} => Runs
  /\ phase = "refused" => object # asked.interface \/ asked.method \notin methods
  /\ phase \in {"idle", "building", "sent", "running", "answered", "refused"}
  /\ pipelined = None \/ Promised

-------------------------------------------------------------------------------
(* Reading and writing through any of the stubs *)

\* A getter, a setter and a default depend on the place only.
LEMMA LaidAccess ==
  ASSUME NEW t, NEW size, NEW fields, Laid(t, size, fields), NEW f \in DOMAIN fields,
         NEW s, NEW v
  PROVE  /\ get(t, s, f) = get_field(s, fields[f])
         /\ set(t, s, f, v) = set_field(s, fields[f], v)
         /\ Default(t.fields[f]) = Default(fields[f])
<1>1. /\ t.fields[f].section = fields[f].section /\ t.fields[f].start = fields[f].start
      /\ t.fields[f].width = fields[f].width
  BY DEF Laid
<1>2. Slots(t.fields[f]) = Slots(fields[f])
  BY <1>1 DEF Slots
<1>3. Default(t.fields[f]) = Default(fields[f])
  BY <1>1 DEF Default
<1>4. get(t, s, f) = get_field(s, fields[f])
  BY <1>1, <1>2, <1>3 DEF get, get_field
<1>5. set(t, s, f, v) = set_field(s, t.fields[f], v)
  BY DEF set, Tags, IsMember, Laid
<1>6. set_field(s, t.fields[f], v) = set_field(s, fields[f], v)
  BY <1>1, <1>2 DEF set_field
<1>7. QED
  BY <1>3, <1>4, <1>5, <1>6

\* What a setter of a parameter takes has the width of its place, and is a variant
\* if the place holds an enumeration, also where the stub takes any number.
FitsPlace(v, p) ==
  /\ \E C : v \in [0 .. (p.width - 1) -> C]
  /\ p.variants # 0 => \E x \in 0 .. 3 : v = Lane(x)

LEMMA SettableTyped ==
  ASSUME NEW l \in Languages, NEW m \in AllMethods, NEW f \in DOMAIN ParamsFields[m],
         NEW v \in Settable(ParamsType(l, m).fields[f])
  PROVE  FitsPlace(v, ParamsFields[m][f])
<1> DEFINE p == ParamsFields[m][f]
           q == ParamsType(l, m).fields[f]
<1>1. q.section = p.section /\ q.width = p.width
  BY ParamTables DEF Laid
<1>2. /\ p.section \in Sections /\ p.width \in {U16, U32, F64}
      /\ p.section = "pointers" => p.width = 1
      /\ p.variants # 0 => p.section = "data" /\ p.width = U16
  BY ParamPlaces DEF IsPlace
<1> HIDE DEF p, q
<1>3. CASE p.section = "pointers"
  <2>1. PICK x \in Pointers : v = Lane(x)
    BY <1>1, <1>3 DEF Settable, q
  <2>2. v \in [0 .. (p.width - 1) -> {x}]
    BY <1>2, <1>3, <2>1 DEF Lane
  <2>3. QED
    BY <1>2, <1>3, <2>2 DEF p, FitsPlace
<1>4. CASE p.section # "pointers"
  <2>1. v \in Numbers[p.width]
    BY <1>1, <1>4 DEF Settable, q
  <2>2. v \in [0 .. (p.width - 1) -> Lanes]
    <3>1. Numbers[p.width] \subseteq [0 .. (p.width - 1) -> Lanes]
      BY <1>2, NumbersAssumption, Zenon
    <3>2. QED
      BY <2>1, <3>1, Zenon
  <2>3. ASSUME p.variants # 0 PROVE \E x \in 0 .. 3 : v = Lane(x)
    <3>1. p.width = U16 /\ v[0] \in 0 .. 3
      BY <1>2, <2>1, <2>3, OperatorsAssumption
    <3>2. p.width - 1 = 0
      BY <3>1 DEF U16
    <3>3. v \in [0 .. 0 -> Lanes]
      BY <2>2, <3>2
    <3>4. v = [k \in 0 .. 0 |-> v[0]]
      BY <3>3
    <3>5. QED
      BY <3>1, <3>4 DEF Lane
  <2>4. \E C : v \in [0 .. (p.width - 1) -> C]
    BY <2>2
  <2>5. QED
    BY <2>3, <2>4 DEF p, FitsPlace
<1>5. QED
  BY <1>3, <1>4

\* A fresh struct has its size.
LEMMA FreshSize ==
  ASSUME NEW size
  PROVE  OfSize(init_struct(size), size)
  BY DEF OfSize, init_struct

\* Setters leave a struct its size.
LEMMA SetKeepsSize ==
  ASSUME NEW s, NEW size, OfSize(s, size), NEW f, f.section \in Sections, NEW v
  PROVE  OfSize(set_field(s, f, v), size)
  BY SetFieldShape DEF OfSize

-------------------------------------------------------------------------------
(* Every step keeps the invariant *)

\* What the invariant says once a method is asked for.
LEMMA AskedFacts ==
  ASSUME IInv, phase # "idle"
  PROVE  /\ asked.interface \in DOMAIN interfaces
         /\ asked.method \in DOMAIN interfaces[asked.interface].requests
         /\ asked.method \in AllMethods
  BY InterfaceTable DEF IInv, Asks

LEMMA RequestKeeps ==
  ASSUME IInv, NEW i \in DOMAIN interfaces, NEW m \in DOMAIN interfaces[i].requests,
         request(i, m)
  PROVE  IInv'
<1> DEFINE t == ParamsType(client, m)
           fields == ParamsFields[m]
<1>1. /\ m \in AllMethods /\ client \in Languages
  BY InterfaceTable DEF IInv
<1>2. Laid(t, ParamsSize[m], fields)
  BY <1>1, ParamTables
<1>3. /\ phase = "idle" /\ phase' = "building"
      /\ asked' = [interface |-> i, method |-> m]
      /\ params' = init_struct(t.size)
      /\ given' = [f \in FieldNames(t) |-> Default(t.fields[f])]
      /\ UNCHANGED <<client, server, object, pipelined>>
  BY DEF request
<1>4. t.size = ParamsSize[m] /\ FieldNames(t) = DOMAIN fields
  BY <1>2 DEF Laid, FieldNames
<1> HIDE DEF t, fields
<1>5. asked'.interface = i /\ asked'.method = m
  BY <1>3
<1>6. \A f \in DOMAIN fields :
        Default(t.fields[f]) = Default(fields[f])
        /\ get_field(params', fields[f]) = Default(fields[f])
  <2>1. ASSUME NEW f \in DOMAIN fields PROVE IsPlace(fields[f])
    BY <1>1, ParamPlaces DEF fields
  <2>2. QED
    BY <1>2, <1>3, <2>1, LaidAccess, FreshReads
<1>7. given' = [f \in DOMAIN fields |-> get_field(params', fields[f])]
  BY <1>3, <1>4, <1>6
<1>8. ASSUME NEW f \in DOMAIN fields, fields[f].variants # 0
      PROVE  \E x \in 0 .. 3 : given'[f] = Lane(x)
  <2>1. fields[f].section = "data" /\ fields[f].width = 1
    BY <1>1, <1>8, ParamPlaces DEF fields, U16
  <2>2. Default(fields[f]) = Lane(0)
    BY <2>1 DEF Default, Lane, Zero
  <2>3. given'[f] = Lane(0)
    BY <1>3, <1>4, <1>6, <2>2
  <2>4. QED
    BY <2>3
<1>9. Asks' /\ Built'
  BY <1>3, <1>4, <1>5, <1>7, <1>8, FreshSize DEF Asks, Built, fields
<1>10. pipelined = None
  BY <1>3 DEF IInv, Promised
<1>11. QED
  BY <1>3, <1>9, <1>10 DEF IInv

LEMMA SetParamKeeps ==
  ASSUME IInv, phase = "building",
         NEW f \in FieldNames(ParamsType(client, asked.method)),
         NEW v \in Settable(ParamsType(client, asked.method).fields[f]), SetParam(f, v)
  PROVE  IInv'
<1> DEFINE m == asked.method
           t == ParamsType(client, m)
           fields == ParamsFields[m]
<1>1. m \in AllMethods /\ client \in Languages /\ Asks /\ Built
  BY AskedFacts DEF IInv
<1>2. Laid(t, ParamsSize[m], fields)
  BY <1>1, ParamTables
<1>3. f \in DOMAIN fields
  BY <1>2 DEF Laid, FieldNames
<1>4. /\ params' = set_field(params, fields[f], v)
      /\ given' = [given EXCEPT ![f] = v]
      /\ UNCHANGED <<client, server, object, methods, phase, asked, message, ran, results,
                     pipelined>>
  <2>1. set(t, params, f, v) = set_field(params, fields[f], v)
    BY <1>2, <1>3, LaidAccess
  <2>2. QED
    BY <2>1 DEF SetParam
<1>5. /\ \E C : v \in [0 .. (fields[f].width - 1) -> C]
      /\ fields[f].variants # 0 => \E x \in 0 .. 3 : v = Lane(x)
  <2>1. FitsPlace(v, fields[f])
    BY <1>1, <1>3, SettableTyped
  <2>2. QED
    BY <2>1 DEF FitsPlace
<1>6. /\ OfSize(params, ParamsSize[m])
      /\ given = [g \in DOMAIN fields |-> get_field(params, fields[g])]
      /\ \A g \in DOMAIN fields :
           fields[g].variants # 0 => \E x \in 0 .. 3 : given[g] = Lane(x)
  BY <1>1 DEF Built
<1>7. \A g \in DOMAIN fields : IsPlace(fields[g])
  BY <1>1, ParamPlaces
<1>8. /\ Slots(fields[f]) \subseteq DOMAIN params[fields[f].section]
      /\ \A g \in DOMAIN fields \ {f} : ~Overlap(fields[f], fields[g])
  <2>1. /\ Slots(fields[f]) \subseteq 0 .. (ParamsSize[m][fields[f].section] - 1)
        /\ \A g \in DOMAIN fields \ {f} : ~Overlap(fields[f], fields[g])
    BY <1>1, <1>3, ParamPlaces
  <2>2. QED
    BY <1>3, <1>6, <1>7, <2>1 DEF OfSize, IsPlace
<1> HIDE DEF m, t, fields
<1>9. DOMAIN params = Sections
  BY <1>6 DEF OfSize
<1>10. get_field(params', fields[f]) = v
  BY <1>3, <1>4, <1>5, <1>7, <1>8, <1>9, GetSetSame
<1>11. \A g \in DOMAIN fields \ {f} : get_field(params', fields[g]) = get_field(params, fields[g])
  BY <1>3, <1>4, <1>7, <1>8, <1>9, GetSetOther
<1>12. given' = [g \in DOMAIN fields |-> get_field(params', fields[g])]
  BY <1>3, <1>4, <1>6, <1>10, <1>11
<1>13. OfSize(params', ParamsSize[m])
  BY <1>3, <1>4, <1>6, <1>7, SetKeepsSize DEF IsPlace
<1>14. \A g \in DOMAIN fields :
         fields[g].variants # 0 => \E x \in 0 .. 3 : given'[g] = Lane(x)
  BY <1>3, <1>4, <1>5, <1>6
<1>15. Asks' /\ Built'
  BY <1>1, <1>4, <1>12, <1>13, <1>14 DEF Asks, Built, m, fields
<1>16. QED
  BY <1>4, <1>15 DEF IInv, Promised

LEMMA SendKeeps ==
  ASSUME IInv, send
  PROVE  IInv'
<1>1. /\ phase = "building" /\ phase' = "sent"
      /\ message' = [interface_id |-> Interfaces[client][asked.interface].id,
                     method_id |-> Interfaces[client][asked.interface].requests[asked.method],
                     params |-> params]
      /\ UNCHANGED <<client, server, object, methods, asked, given, params, pipelined>>
  BY DEF send
<1>2. Interfaces[client] = interfaces
  BY SameInterfaces DEF IInv
<1>3. Says'
  BY <1>1, <1>2 DEF Says
<1>4. Asks' /\ Built'
  BY <1>1 DEF IInv, Asks, Built
<1>5. QED
  BY <1>1, <1>3, <1>4 DEF IInv, Promised

LEMMA GetPromisedKeeps ==
  ASSUME IInv, phase \in {"sent", "running"},
         NEW f \in DOMAIN ResultsType(client, asked.method).pipeline, GetPromised(f)
  PROVE  IInv'
<1>1. ResultsType(client, asked.method).pipeline = ResultsPromised[asked.method]
  <2>1. asked.method \in AllMethods /\ client \in Languages
    BY AskedFacts DEF IInv
  <2>2. QED
    BY <2>1, ResultTables DEF Struct
<1>2. /\ pipelined' = [field |-> f, pointer |-> ResultsType(client, asked.method).pipeline[f]]
      /\ UNCHANGED <<client, server, object, methods, phase, asked, given, params, message,
                     ran, results>>
  BY DEF GetPromised
<1>3. Promised'
  BY <1>1, <1>2 DEF Promised
<1>4. QED
  BY <1>2, <1>3 DEF IInv, Asks, Built, Says, Runs

(***************************************************************************)
(* The server's getters return what the client's setters were given.       *)
(***************************************************************************)
LEMMA SeenAsGiven ==
  ASSUME IInv, phase # "idle"
  PROVE  Seen(server, ParamsType(server, asked.method), params) = given
<1> DEFINE m == asked.method
           t == ParamsType(server, m)
           fields == ParamsFields[m]
<1>1. m \in AllMethods /\ server \in Languages /\ Built
  BY AskedFacts DEF IInv
<1>2. Laid(t, ParamsSize[m], fields)
  BY <1>1, ParamTables
<1>3. FieldNames(t) = DOMAIN fields
  BY <1>2 DEF Laid, FieldNames
<1>4. /\ given = [g \in DOMAIN fields |-> get_field(params, fields[g])]
      /\ \A g \in DOMAIN fields :
           fields[g].variants # 0 => \E x \in 0 .. 3 : given[g] = Lane(x)
  BY <1>1 DEF Built
<1>5. \A g \in DOMAIN fields : t.fields[g].variants # 0 =>
         fields[g].variants # 0 /\ t.fields[g].variants = 4
  BY <1>1, <1>2, ParamPlaces DEF Laid
<1> HIDE DEF t, fields
<1>6. \A g \in DOMAIN fields : get(t, params, g) = given[g]
  BY <1>2, <1>4, LaidAccess
<1>7. ASSUME NEW g \in DOMAIN fields, t.fields[g].variants # 0
      PROVE  Lane(from_u16(t.fields[g].variants, get(t, params, g)[0])) = given[g]
  <2>1. PICK x \in 0 .. 3 : given[g] = Lane(x)
    BY <1>4, <1>5, <1>7
  <2>2. get(t, params, g)[0] = x
    BY <1>6, <2>1 DEF Lane
  <2>3. from_u16(4, x) = x
    BY DEF from_u16
  <2>4. QED
    BY <1>5, <1>7, <2>1, <2>2, <2>3
<1>8. Seen(server, t, params) = [g \in DOMAIN fields |-> given[g]]
  BY <1>3, <1>6, <1>7 DEF Seen
<1>9. given = [g \in DOMAIN fields |-> given[g]]
  BY <1>4
<1>10. QED
  BY <1>8, <1>9 DEF t

LEMMA DispatchKeeps ==
  ASSUME IInv, dispatch_call
  PROVE  IInv'
<1> DEFINE i        == Interfaces[server][object]
           method   == i.dispatch[message.method_id]
           accepted == /\ message.interface_id = i.id
                       /\ message.method_id \in DOMAIN i.dispatch
                       /\ method \in methods
<1>1. /\ phase = "sent" /\ phase' = IF accepted THEN "running" ELSE "refused"
      /\ ran' = IF accepted
                  THEN [method |-> method,
                        params |-> Seen(server, ParamsType(server, method), message.params)]
                  ELSE None
      /\ results' = IF accepted THEN init_struct(ResultsType(server, method).size) ELSE None
      /\ UNCHANGED <<client, server, object, methods, asked, given, params, message,
                     pipelined>>
  BY DEF dispatch_call
<1>2. i = interfaces[object] /\ object \in DOMAIN interfaces /\ server \in Languages
  BY SameInterfaces DEF IInv
<1>3. Asks /\ Built /\ Says /\ asked.method \in AllMethods
  BY <1>1, AskedFacts DEF IInv
<1> HIDE DEF i
<1>4. /\ message.interface_id = i.id <=> object = asked.interface
      /\ object = asked.interface =>
           message.method_id \in DOMAIN i.dispatch /\ method = asked.method
  BY <1>2, <1>3, InterfaceTable DEF Asks, Says
<1>5. Asks' /\ Built' /\ Says'
  BY <1>1, <1>3 DEF Asks, Built, Says
<1>6. ASSUME accepted PROVE Runs'
  <2>1. object = asked.interface /\ method = asked.method
    BY <1>4, <1>6
  <2>2. /\ ran'.method = method
        /\ ran'.params = Seen(server, ParamsType(server, method), message.params)
        /\ results' = init_struct(ResultsType(server, method).size)
    BY <1>1, <1>6
  <2> HIDE DEF method
  <2>3. message.params = params
    BY <1>3 DEF Says
  <2>4. ran'.params = given
    BY <1>1, <2>1, <2>2, <2>3, SeenAsGiven
  <2>5. ResultsType(server, asked.method).size = ResultsSize[asked.method]
    BY <1>2, <1>3, ResultTables DEF Struct
  <2>6. OfSize(results', ResultsSize[asked.method])
    BY <2>1, <2>2, <2>5, FreshSize
  <2>7. QED
    BY <1>1, <2>1, <2>2, <2>4, <2>6 DEF Runs
<1>7. ~accepted => object # asked.interface \/ asked.method \notin methods
  BY <1>4
<1>8. pipelined' = None \/ Promised'
  BY <1>1 DEF IInv, Promised
<1>9. CASE accepted
  BY <1>1, <1>5, <1>6, <1>8, <1>9 DEF IInv
<1>10. CASE ~accepted
  BY <1>1, <1>5, <1>7, <1>8, <1>10 DEF IInv
<1>11. QED
  BY <1>9, <1>10

LEMMA SetResultKeeps ==
  ASSUME IInv, phase = "running",
         NEW f \in FieldNames(ResultsType(server, ran.method)), NEW v, SetResult(f, v)
  PROVE  IInv'
<1> DEFINE m == asked.method
           t == ResultsType(server, m)
<1>1. m \in AllMethods /\ server \in Languages /\ Runs /\ ran.method = m
  BY AskedFacts DEF IInv, Runs
<1>2. t = Struct(server, ResultsSize[m], ResultsFields[m], ResultsPromised[m])
  BY <1>1, ResultTables
<1>3. Laid(t, ResultsSize[m], ResultsFields[m]) /\ f \in DOMAIN ResultsFields[m]
  BY <1>1, <1>2, LaidStruct DEF Laid, FieldNames
<1>4. ResultsFields[m][f].section \in Sections
  <2>1. Pointer(0).section = "pointers" /\ Data(F64, 0).section = "data"
    BY DEF Pointer, Data, Field
  <2>2. QED
    BY <1>1, <1>3, <2>1 DEF AllMethods, ParamsOf, ResultsFields, Sections
<1>5. /\ results' = set_field(results, ResultsFields[m][f], v)
      /\ UNCHANGED <<client, server, object, methods, phase, asked, given, params, message,
                     ran, pipelined>>
  BY <1>1, <1>3, LaidAccess DEF SetResult
<1> HIDE DEF t
<1>6. OfSize(results', ResultsSize[m])
  BY <1>1, <1>4, <1>5, SetKeepsSize DEF Runs
<1>7. Runs'
  BY <1>1, <1>5, <1>6 DEF Runs
<1>8. QED
  BY <1>5, <1>7 DEF IInv, Asks, Built, Says, Promised

LEMMA ReturnKeeps ==
  ASSUME IInv, Return
  PROVE  IInv'
  BY DEF IInv, Return, Asks, Built, Says, Runs, Promised

LEMMA InitInv == Init => IInv
  BY DEF Init, IInv

LEMMA StepInv == IInv /\ [Next]_vars => IInv'
<1> SUFFICES ASSUME IInv, [Next]_vars PROVE IInv'
  OBVIOUS
<1>1. CASE \E i \in DOMAIN interfaces : \E m \in DOMAIN interfaces[i].requests : request(i, m)
  BY <1>1, RequestKeeps
<1>2. ASSUME phase = "building",
             NEW f \in FieldNames(ParamsType(client, asked.method)),
             NEW v \in Settable(ParamsType(client, asked.method).fields[f]), SetParam(f, v)
      PROVE  IInv'
  BY <1>2, SetParamKeeps
<1>3. CASE send
  BY <1>3, SendKeeps
<1>4. ASSUME phase \in {"sent", "running"},
             NEW f \in DOMAIN ResultsType(client, asked.method).pipeline, GetPromised(f)
      PROVE  IInv'
  BY <1>4, GetPromisedKeeps
<1>5. CASE dispatch_call
  BY <1>5, DispatchKeeps
<1>6. ASSUME phase = "running", NEW f \in FieldNames(ResultsType(server, ran.method)),
             NEW v, SetResult(f, v)
      PROVE  IInv'
  BY <1>6, SetResultKeeps
<1>7. CASE Return
  BY <1>7, ReturnKeeps
<1>8. CASE UNCHANGED vars
  BY <1>8 DEF vars, IInv, Asks, Built, Says, Runs, Promised
<1>9. QED
  BY <1>1, <1>2, <1>3, <1>4, <1>5, <1>6, <1>7, <1>8 DEF Next

LEMMA InvHolds == Spec => []IInv
  BY InitInv, StepInv, PTL DEF Spec

-------------------------------------------------------------------------------
(***************************************************************************)
(* A method runs only if it is the one asked for, of the interface meant,  *)
(* and a call is refused only if the object lacks it: dispatch_call in any *)
(* two of the three languages.                                             *)
(***************************************************************************)
THEOREM MethodAskedRuns == Spec => []RunsMethodAsked
<1>1. IInv => RunsMethodAsked
  BY DEF IInv, Runs, RunsMethodAsked
<1>2. QED
  BY <1>1, InvHolds, PTL

(***************************************************************************)
(* The method sees the parameters as the client's setters were given them, *)
(* for all values and every pair of languages.                             *)
(***************************************************************************)
THEOREM ParametersArrive == Spec => []ParamsArrive
<1>1. IInv => ParamsArrive
  BY DEF IInv, Runs, ParamsArrive
<1>2. QED
  BY <1>1, InvHolds, PTL

(***************************************************************************)
(* The promised pointer that a Pipeline follows is the one that the getter *)
(* of the results reads when they have come.                               *)
(***************************************************************************)
THEOREM PromisesKept == Spec => []PromiseIsResult
<1>1. ASSUME IInv, phase = "answered", pipelined # None
      PROVE  /\ pipelined.pointer \in DOMAIN results["pointers"]
             /\ Lane(results["pointers"][pipelined.pointer])
                  = get(ResultsType(client, asked.method), results, pipelined.field)
  <2> DEFINE m == asked.method
             f == pipelined.field
             t == ResultsType(client, m)
  <2>1. m \in AllMethods /\ client \in Languages /\ Runs /\ Promised
    BY <1>1, AskedFacts DEF IInv
  <2>2. /\ t = Struct(client, ResultsSize[m], ResultsFields[m], ResultsPromised[m])
        /\ OfSize(results, ResultsSize[m])
        /\ f \in DOMAIN ResultsPromised[m] /\ pipelined.pointer = ResultsPromised[m][f]
    BY <2>1, ResultTables DEF Runs, Promised
  <2> HIDE DEF f
  <2>3. /\ f \in DOMAIN ResultsFields[m] /\ ResultsFields[m][f] = Pointer(0)
        /\ ResultsPromised[m][f] = 0 /\ ResultsSize[m] = Size(0, 1)
    BY <2>1, <2>2 DEF AllMethods, ParamsOf, ResultsFields, ResultsPromised, ResultsSize,
                      NoPipeline
  <2>4. DOMAIN results["pointers"] = 0 .. 0
    BY <2>2, <2>3 DEF OfSize, Size, Sections
  <2>5. get(t, results, f) = get_field(results, Pointer(0))
    BY <2>2, <2>3 DEF get, Struct
  <2>6. get_field(results, Pointer(0)) = [k \in 0 .. 0 |-> results["pointers"][k]]
    BY <2>4 DEF get_field, Pointer, Field, Slots
  <2>7. QED
    BY <2>2, <2>3, <2>4, <2>5, <2>6 DEF Lane, f
<1>2. IInv => PromiseIsResult
  BY <1>1 DEF PromiseIsResult
<1>3. QED
  BY <1>2, InvHolds, PTL
===============================================================================
