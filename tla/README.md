# capnproto-test: a verification project

The repository is a Cap'n Proto test bed: a calculator served over RPC by Go
(`go/main.go`), clients of it in TypeScript (`ts/src/client.ts`) and Rust
(`rust/src/main.rs`), a TCP transport written for the TypeScript RPC library
(`ts/src/tcp-transport.ts`), and small tools that write and read a file of
frames. Its structs and interfaces are used through stubs generated for three
languages. This directory holds TLA+ models of these parts, TLC configurations, and
proofs checked by TLAPS.

Source paths below are relative to the repository. `PROJECT.json` maps every
definition to the lines it models.

## The system

| part | state it keeps | operations | what makes it correct |
|---|---|---|---|
| TCP transport, `ts/src/tcp-transport.ts` | the socket and its read buffer; how far a `recvMessage` has got | `sendMessage`, `recvMessage`, `readBytes`, `readable`, `close` | messages come out whole and in order however the stream is cut; a waiting reader is woken; a torn frame is never a message |
| Calculator server, `go/main.go` 54-213 | values, operators, defined functions; calls started, waiting, acknowledged; the recursion of `evaluate` | `Evaluate`, `DefFunction`, `GetOperator`, `Value.Read`, `Function.Call` | a question is answered with what its expression means, in any order of execution; nobody waits for ever, callbacks included |
| Client programs, `ts/src/client.ts`, `rust/src/main.rs` 31-75 | results awaited | the blocks of `doClient`, `stressTest`, `client_main` | their assertions; the round trips the comments promise |
| Generated stubs, `rust/src/schema/`, `ts/src/*.capnp.ts`, `go/*/*.capnp.go` | the memory of a struct; a call being built and dispatched | setters, getters, `init_`, `which`, builders from pointers; requests, `dispatch_call`, pipelines | a struct is a record of independent fields, in every language the same; the method asked for runs, with the parameters given |
| Connection set-up, `ts/src/connect.ts`, `rust/src/main.rs` 40-47 | a socket, a promise, a timer | `connect`, its listeners | the promise settles, once; later events change nothing; the process ends |
| Accept loop, `go/main.go` 246-284 | the listener's queue, a goroutine per connection | `Accept`, `handleConn`, `must` | connections do not disturb each other and none is kept after its end |
| Frames tools (`write.ts`, `doFrames`, `frames_main`, `read.py`) | the file `data.bin` | `doWrite`, the three readers | what is shown is what was written, also when the file is rewritten meanwhile |
| `debuggingTransport`, `dump-rpc-message.ts` | none | logging | not modelled |

How they interact: a client opens a socket (`connect`), wraps it in a
`TCPTransport`, and an RPC `Conn` uses the transport's `sendMessage` and
`recvMessage`. The server runs one `rpc.Conn` per accepted socket, whose main
interface is a `calculatorServer`. Calls, returns and capabilities travel as
messages. Results of unanswered questions are used as targets and arguments of
further calls (promise pipelining), and a client may pass a function of its own,
which the server calls while it evaluates. All of it goes through the generated
stubs, and the frames tools share nothing but a file and a schema.

What is hard here: the byte stream (partial reads, the end of the stream, the gap
between `read()` returning null and `once("readable")`); goroutines that evaluate
concurrently and call objects that are not there yet; callbacks into a client that
waits for the server; errors in the middle of a nested call; the number of round
trips, which no test looks at; events of a socket that come after the promise they
were meant for is settled; union members that share memory, structs of another
version of the schema, and three independent tables of offsets; a file read while
it is written. `PROJECT.json` lists the hazards with their lines.

## Modules

| module | models |
|---|---|
| `MessageChannel` | the abstract specification: a direction of a transport is a FIFO of whole messages that may stop short |
| `TCPTransport` | `tcp-transport.ts`, one direction: sender, byte stream, reader |
| `MCTCPTransport` | instances for TLC |
| `TCPTransport_proofs` | theorems and proofs |
| `CalculatorProtocol` | capabilities, expressions, calls and outcomes, shared by client and server |
| `CalculatorServer` | the Go server as one connection sees it |
| `CalculatorMeaning` | what the questions of a script mean, as equations; extends `CalculatorServer` |
| `CalculatorServer_proofs` | theorems and proofs about both |
| `CalculatorEvaluator` | a recursive evaluator, which gives TLC the meanings |
| `MCCalculatorServer` | scripts of questions |
| `CalculatorPrograms` | the programs of `client.ts` and `main.rs` as data |
| `CalculatorSession` | a program and the server at the two ends of a connection; extends `CalculatorMeaning` |
| `CalculatorSession_proofs` | theorems and proofs |
| `MCCalculatorSession` | instances for TLC |
| `StructLayout` | the layout library (external): sections, fields, struct types, the accessors of memory and what the generated accessors make of them |
| `StructLayout_proofs` | lemmas about these accessors |
| `CalculatorSchema`, `FramesSchema` | the Rust stubs, one definition per generated `mod` |
| `StubTables` | the TypeScript and Go stubs of the same schemas, with their own offsets |
| `StructRecord` | the abstract specification: a struct is a record, a union one member at a time |
| `StructBuilder` | a struct built and rebuilt through a stub's `Builder`; refines `StructRecord` |
| `StubsAgree` | what the stubs of three languages read of one struct |
| `MCStructBuilder` | all types of all stubs, received structs |
| `StructBuilder_proofs` | theorems and proofs |
| `StubCalls` | one call through the interface stubs of two languages |
| `MCStubCalls` | instances for TLC |
| `StubCalls_proofs` | theorems and proofs |
| `FramesFile` | `data.bin`, its writer and its readers; uses the stubs' tables |
| `FramesFile_proofs` | theorems and proofs |
| `Connections` | `connect.ts`, the set-up of `client_main`, `doServer` |
| `Connections_proofs` | theorems and proofs |

Definitions that stand before another one and differ from it in one respect
(`NoPadding`, `ReadNoneUnchecked`, `BeginWithoutAck`, `ReceiveCallUnanswered`, ...)
are plausible mistakes; each property is shown to fail when one of them takes the
place of the definition it follows.

### TCPTransport

The stream is a sequence of 32-bit units, since all the code reads is a multiple
of 4 bytes; arrival is counted in bytes, since a piece may end inside a unit.
`pc` is the `readBytes` call that `recvMessage` is in (`count`, `table`, `body`),
`buf` what it has read, `waiting` that it sits in `once("readable")`.
`sendMessage` writes a whole frame; `Arrive`, `End` and `readable` are what Node
does; `ReadNothing`, `ReadAll`, `ReadNone` and `ReadRest` are the outcomes of one
turn of the loop in `readBytes`, with what `recvMessage` does next up to its next
`await` (`Continue`). `Need` is the length asked for, computed as the code does:
padding by `offset % WORD_SIZE` (`TableUnits`), body from the sum of the sizes.
`Frame` is the external `Message.toArrayBuffer()`.

A JavaScript turn is one action, which is why nothing comes between `read()`
returning null and `once`. A socket that has ended returns fewer bytes than asked
for if it has some (`ReadRest`): a short count or table makes `readUInt32LE`
throw, a short body makes `Message` throw, and a table that lacks only padding
passes and is followed by a body that never comes.

### CalculatorServer

Questions are numbered as the client sends them, and the object a question makes
has its number, so a capability can be used before it exists. `task` holds the
calls: those of the client, `<<q>>`, and those that `evaluate` makes, one level
below the task that makes them (`Child`). `stack` is the recursion of `evaluate`:
the innermost expression and the parameters evaluated so far. Each case of the
`switch` in `evaluate` is an action; a call made from it (`Issue`) is delivered
like any other and the goroutine goes on when it has returned (`Resume`). Errors
leave the whole evaluation (`Yield`).

A client's function has one method, `call`; any other call of it is refused
(`ClientAnswer`). What it answers is the parameter `ClientCall`. `Awaits` are the pairs
of a client's function and a question that the function asks before it answers: a call
of it is answered only once that question is.

The RPC library is external and modelled from its use: calls on an object start in
order, the next when the previous has returned or called `server.Ack`
(`StartCall`, `Busy`); calls on an unanswered question are kept until it is
answered; a call of a method the object lacks, or on a failed question, fails
(`RefuseCall`). Two things are assumed of it: the capabilities in the parameters of
`DefFunction` stay usable after it returns, and the library holds nothing that
another call needs while it runs a parameter function, in which the server
evaluates nested calls (`main.go` 126-146).

`float64` arithmetic is that of integers in these models: every number of the
programs is an integer and stays far below 2^53. Division is a parameter
(`Divide`): dividing by zero gives an infinity and not an error.

### CalculatorSession

`ClientRun` is what a program does up to its next `await`: it sends all the
questions it makes until then, in one JavaScript turn. `ClientReceive` handles one
message: an answer, or a call of the client's function, which it answers.
`assertEq` checks the awaited result, and a program whose last await is done has
exited. At the other end `ServerReceive` takes a message, `ServerRun` is any step
of `CalculatorServer`'s goroutines, and what that step returns to the client, or
asks of it, goes into the stream with it. Each direction is a FIFO: the promise of
`MessageChannel`, which `TCPTransport` is proved to keep. `trips` counts the round
trips: a send by the client that follows a receipt starts one. Bootstrapping and
messages that nobody waits for (finish, release) are not counted.

The Rust client and `stressTest` print their result and assert nothing; the value
given in `CalculatorPrograms` is the one their expression has. `stressTest` is not
called anywhere; its loop is modelled with 3 calls where the code has multiples of
128. The blocks of `doClient` are separate programs here, each starting from
a fresh connection.

### StructLayout, the schemas and StructBuilder

Within a language the generated structs differ in their constants only: which library
accessor with which offset, size, discriminant or pointer index. A generated struct is
therefore one definition, `Struct(lang, size, fields, pipeline)` or `Union(...)`, in the
schema modules for Rust and in `StubTables` for TypeScript (`..._ts`) and Go (`..._go`).
What the accessors do is written once, in `StructBuilder`: `init_pointer` and
`get_from_pointer` (the trait `FromPointerBuilder`), the setters and `init_` functions
(`Set`), the two ways to the object of a group (`InitGroup`, `GetGroup`), `into_reader`.
Owned types, `HasTypeId`, `Imbue`, `reborrow` and `total_size` change nothing in a
struct and are left out.

The generators guard these accessors differently, which `lang` decides:

| | Rust | TypeScript | Go |
|---|---|---|---|
| a received struct that is too small (`Enlarges`) | copied into a larger one | copied into a larger one | taken as it is; a setter outside it panics (`SetOutside`), perhaps after it has set the discriminant |
| getting the object of a group (`ChecksGroup`) | `which()` gives it for its tag only | `getCall()` throws for another tag | `Call()` does not look at the tag |
| keeping it (`Borrows`) | it borrows the struct, and ends with the struct's next use | can be kept | can be kept |
| `init_` of the group (`clears`) | empties its members | leaves them | leaves them |

`held` says that the program has an object of the group; a setter of a group's member
needs one, and none of these setters writes the discriminant. So in TypeScript and Go a
member of the call group can be set while another member of the union is in effect, and
if the two share a place it is overwritten. `StructRecord` has that as an action of its
own, `Stray`, which Rust does not have: the group's member stays out of effect, the
discriminant is as it was, and of the other fields only members of the union may change.

There are two views of a struct. `Reading` is what the getters give: a member that is not
in effect is `Absent`, except those of Go's call group, which are whatever their places
hold. `Selected` is what they give to a program that asks for the discriminant first, as
`evaluate` in `main.go` and `which()` in Rust do. The refinement of `StructRecord` is
about `Selected`; the stubs of all languages agree on it, and on `Reading` those that
check.

The data section is a function on lanes of 16 bits. Offsets stay in the units of
their source: Rust counts in units of the field's width (`Data(F64, 0)`), TypeScript
and Go in bytes (`Bytes(F64, 0)`). A `float64` is 4 lanes with whatever they hold;
numbers differ in every lane, so that a field written over part of another shows.
A pointer slot holds an opaque thing: what it points to is a struct of its own.

`Received` are structs that came in a message: shorter than the type (an older
sender), longer (a newer one), with a discriminant the type does not know.
`StructRecord` promises an empty group only where `init_` clears it; elsewhere its members
are whatever their places hold.

### StubCalls

`client` and `server` are any two of the three languages, `object` any interface:
`client.ts` 44-45 casts what `bootstrap()` returns, so a client of one interface may
hold an object of another. `request`, `SetParam` and `send` are the client's stub,
`dispatch_call` and `SetResult` the server's; `GetPromised` uses a pipeline at any
time between. A Rust server need not implement every method (the trait has
defaults); in the other two languages it must. What a getter of an enumeration
returns in Rust is a variant or `NotInSchema` (`from_u16`).

### FramesFile

The file is a sequence of words, written and read one at a time; `writeFileSync` empties
it first. The message of `doWrite` has eleven: the header, which stands for the segment
table and the root pointer and gives the length, then the root with its list pointer, the
frame, the audio frame (two words of data, two pointers), its time, and two words that
stand for the 200 bytes of `data`. The structs are built with the setters of the
TypeScript table and cut into words, pointers say where their target begins and how large
it is, and a reader takes the structs out of the words it has, following the pointers it
finds there. So a write may come between any two numbers that a reader reads, and a
pointer may lead out of the message that the header announces (`OutOfBounds`).

`frames_main` reads with the Rust table and `doFrames` with the Go one; `read.py` reads by
the schema itself, for which the Rust table stands. Rust and Python read as far as the
header says; Go reads the file to its end and decodes then. A reader ends with an exit code
and what it printed of an audio frame: `frames_main` prints the stream and the channels
before an error in `get_pts()?` or `get_data()?` can end it, `read.py` divides by `den`
and may raise there, `doFrames` prints the whole root through `String()`, which drops an
error and the text with it. Before the first run of `doWrite` there may be no file, or one
that another program left (`found`): an audio frame of its own, an audio frame with
nothing set, no frame, a video frame, a frame of an unknown kind. Only one reader runs,
since readers do not affect each other.

### Connections

`proc` is where a client's process is, `link` its TCP connection, `due` the events
of its socket not yet delivered, `timer` the one of `connect`. `Settle` is the
promise: only the first event counts. Neither listeners nor timer are removed, as in
the code. `connect` also has the arguments it refuses, although the one caller
passes a good address; the address of `client_main` is a literal.

How a process ends: `Finish` is `process.exit(0)` or a return from `client_main`;
`Panic` is the `expect` of Rust's `main`; `EmptyLoop` is Node ending a process that
waits for no timer and no socket. The last is what ends a TypeScript client whose
connection is lost: `recvMessage` never settles, the program goes no further, and the
process exits because nothing is left to wait for, reporting nothing. (Node 11, for
which the package is typed, prints unhandled rejections and goes on.)

The server: `Accept` starts a goroutine, `handleConnReturns` is `conn.Wait()`
returning, `AcceptFails` is `must(err)` when the process has no descriptor left
(`MaxFiles`), which ends every connection.

## Runs

| run | asks | size |
|---|---|---|
| `transport_safety` | frames whole and in order (`DeliversFramesInOrder`), no lost wakeup (`NoLostWakeup`), refinement of the channel (`ChannelRefined`) | 2 messages of 3 kinds, 12 240 states |
| `transport_live` | every message written is delivered while the connection stands (`EveryMessageDelivered`) | 2 messages of 2 kinds, 8 014 states |
| `calculator` | every question is answered (`EveryQuestionAnswered`) and as the reference says (`AnswersCorrect`); objects and answers come together (`ResolvedWhenAnswered`), and for good (`AnswersFinal`); no result is misdirected or left over (`CallsHaveCallers`), no call lost or kept twice (`CallsWaitOnce`) | 6 scripts of 5 to 8 questions, 38 800 states |
| `session` | no assertion of a program fails (`AssertionsHold`), pipelining costs no extra round trip (`RoundTripsAsNeeded`), programs end (`ClientFinishes`), the session is a behaviour of the server's specification (`ServesScript`) | 7 programs, 18 748 states |
| `structs` | a struct is the record it stands for, with the stray writes that TypeScript and Go allow (`RecordRefined`), reads the same in each language once the discriminant is asked for (`LanguagesAgree`), keeps what the type does not know (`UnknownKept`), and setters that check no bounds write nothing outside it (`TypeOK`) | 16 types in 3 stubs, 4 received structs, 37 481 states |
| `stub_calls` | the method asked for runs, or none (`RunsMethodAsked`), with the parameters given (`ParamsArrive`); a promised capability is the one returned (`PromiseIsResult`) | 3 x 3 languages, 5 methods, 3 objects, 2 826 states |
| `frames_file` | an undisturbed reader shows what was written (`UndisturbedReadsRight`), a disturbed one mixes frames in one order only, and takes nothing else for an audio frame (`TornReadsSane`), and ends (`ReaderEnds`) | 3 readers, 6 files to start with, 2 writes, 106 934 states |
| `connections` | late events change nothing (`LateEventsIgnored`), `connect` settles (`ConnectSettles`), clients end (`ClientsEnd`), every connection is taken up (`EveryConnectionServed`) and let go (`ServerLetsGo`) or the server has ended | 3 clients, 2 descriptors, 57 877 states |
| `session_trips` | `RoundTripsAsDocumented` for the block "Pipeline eval() calls...": violated | |

Bounds. Two messages are enough for a reader to go wrong at a boundary, and the
three kinds cover a header without padding, one with padding and an empty body;
pieces are of every length, so every cut happens. The proofs remove these bounds.
The scripts cover every case of `evaluate`, every error of the server, calls on
results that do not exist yet or never will, and client functions that ask
questions before they answer, both from `evaluate` and from a defined function.

In `structs` a struct has at most 16 bytes and 2 pointers, so the received ones cover
shorter, equal and longer in both sections, and calls of accessors are not bounded:
every order of them is explored. Two numbers of each width and two pointers tell a
value kept from one replaced. In `frames_file` two writes and the file
that was there before let a reader meet the words of three messages, cut between any two
words; the proofs are for any number of writes. In `connections` three clients and two
descriptors are the least for which one is served beside another and the limit is
met; a second TypeScript client adds nothing, since clients meet only in the server's
queue.

`ClientsEnd` has an exception, `Abandoned`: a TypeScript client that timed out while
its socket went on. Nothing destroys that socket, and if it connects after all the
process stays, connected and idle, for as long as the server does. `TornReadsSane`
allows the numbers of one write with the time of the next and the bytes of a third:
nothing in the code keeps them together. What it rules out is a number that nobody wrote
there, one that is older than another that lies before it in the file (every write empties
the file, so a reader meets only newer words as it goes on), a reader that ends well with
something missing, and an audio frame made of something else.

Deadlock checking is off where the system may stop: a stream that has ended, a
script that is all answered, a program that has exited, a call answered or refused,
a file that has been read, clients that have all ended. In `StructBuilder` some step
is always possible.

Fairness. In `TCPTransport`: the event loop runs callbacks that are due, the RPC
connection calls `recvMessage` again after each message, and TCP delivers what was
written while the connection stands; nothing makes the sender send or the stream
end. In `CalculatorServer` and `CalculatorSession`: the whole does not stop while
some goroutine, message or callback can go on. The Go scheduler, TCP and the event
loop justify more than that; behaviours are finite there, so this is enough. In
`FramesFile`: a reader goes on reading; nothing makes the writer write. In
`Connections`: callbacks that are due run and the timer fires, the accept loop
accepts, goroutines go on, a served client on a standing connection reaches its end
(which is `ClientFinishes` of the session). Of the network only this is assumed: an
attempt of a Rust client to connect ends in the end, since that client has no timer
and relies on the kernel's; for a TypeScript client the network may stay silent for
ever.

What the violated run shows. The comment in `client.ts` 115-116 says of the
pipelining block: "Thus, this example again does only one network round trip."
The block awaits the read of `add3Result` (157) before it sends the read of
`add5Result` (158), which takes a second round trip. The block after it, which
sends both reads before the first await, does take one.

## Proofs

`TCPTransport_proofs` proves, for every set of messages and every bound:

* `TypeCorrect`: `Spec => []TypeOK`;
* `FramesInOrder`: `Spec => []DeliversFramesInOrder`;
* `WakeupNeverLost`: `Spec => []NoLostWakeup`;
* `ImplementsChannel`: `Spec => ChannelRefined`.

The only assumption is `MessagesAssumption`: a message has at least one segment,
sizes are natural numbers and so is their sum.

`DeliversFramesInOrder` is not inductive: it says nothing of a frame half read. The
invariant `IInv` adds two parts. `StreamIsFrames`: the stream is the frames
written, end to end, each at the offset recorded for it. `ReaderInStep`: the reader
stands in the frame after those delivered, at the place in it that `pc` implies,
and `buf` is the beginning of that frame; or it is past the end of a stream that
broke off in a header's padding, and will read no more. The main lemma,
`TableEndsHeader`, is that the code's padding rule makes the table end where the
header does; from it and `TableReadBack` (the sizes read are the sizes written)
follows that the three reads take exactly one frame. `WakeupNeverLost` needs its
own small invariant, that a waiting reader is reading. `ImplementsChannel` follows
from `IInv`: each delivery appends the frame that was sent at that place, and every
other step but `sendMessage` is a stutter.

`StructBuilder_proofs` proves, for every set of types, numbers, pointers and received
structs:

* `TypeCorrect`: `Spec => []TypeOK`;
* `UnknownSurvives`: `Spec => UnknownKept`;
* `ImplementsRecord`: `Spec => RecordRefined`;
* `LanguagesAlwaysAgree`: `Spec => []LanguagesAgree`.

What is assumed of the constants TLC evaluates for every type of every stub.
`TypesAssumption`: types are `WellFormed` (fields lie inside the size, two fields
that can be in effect together share no place, members of a union have tags of their
own), widths are those of the primitive types. `ReceivedAssumption`: a received
section has whole words, so that it holds a field entirely or not at all.
`NumbersAssumption` and `AbsentAssumption`: values are lanes of the right width, and
the mark of a field not in effect is none of them.

`ImplementsRecord` is about what a program sees that asks for the discriminant first
(`Selected`), and lets TypeScript and Go make stray writes; for Rust it rules them out.
`LanguagesAlwaysAgree` is about the same view, and about `Reading` only for two stubs that
both check the group.

`TypeOK` is not enough for the refinement. `get_from_pointer` on a shorter struct
copies it into a larger one filled with zeros; were a field cut in two by the old
end, its value would go from the default to a mixture. The invariant `IInv` adds
`NoneCut`, that no place the type uses is cut, and `HeldInEffect`: in Rust, while the
program holds the object of a group, the struct is open and the group in effect, so that
no write through it is stray. In Go, where a struct stays as small as it came, a write
has its room by the guard of the library (`Fits`). The lemmas are `GetSetSame` and
`GetSetOther` (a field reads what was set, and nothing of a setter elsewhere),
`Tagged` (the same for the discriminant), `GroupReads` and `Enlarged` (every field
reads the same after the copy). From these `SetIsWrite`, `StraySet` and `SetNothing`
(a setter that panics after it has set the discriminant) show each step to be a step of
`StructRecord`. `LanguagesAlwaysAgree` needs no invariant: it is a fact
about the tables. Two types are `Alike` if they have the same fields at the same places
and the same discriminant and tags, and `CalculatorAgrees` and `FramesAgree` show it of
each struct in each language, from `Offsets` (what the offsets of Rust, in units of the
width, and those of TypeScript and Go, in bytes, come to). They may differ in what a
pipeline follows, and in whether a setter takes an enumeration or a number.

The first half of `CalculatorServer_proofs` proves, for every script and whatever client functions and
division do:

* `TypeCorrect`: `Spec => []TypeOK`;
* `ObjectsWithAnswers`: `Spec => []ResolvedWhenAnswered`;
* `CallersStay`: `Spec => []CallsHaveCallers`;
* `NoCallLostOrDoubled`: `Spec => []CallsWaitOnce`;
* `AnsweredForGood`: `Spec => AnswersFinal`.

A script is assumed to be finite (`ScriptsAssumption`) and nothing else: a question may
name capabilities that never exist, and expressions need not make sense. The invariant
`IInv` joins the four to `Shapes`, which says what the prover must know of records and
sequences. The parts need each other. That a call is resumed with its own result
(`CallsHaveCallers`) needs that it is in one queue, once (`CallsWaitOnce`); that the
queue of an object is the right one needs that the object is there when the question
is answered. Rather than treat each action by itself, the proof shows that every step
either adds a call (`Adds`) or moves one on, perhaps forgetting the call this one
waited for (`Moves`), and that both kinds keep `IInv`.

The second half proves `AnswersRight`: `Spec => []AnswersCorrect`, for every script. It
alone uses `MeaningAssumption`. A meaning is a constant that gives each question its object and each
expression evaluated its value, and `MeaningAssumption` says that it is composed from
the meanings of the parts: a literal is its value, a call is the object's method applied
to the values of the parameters, and so on, as Go's `evaluate` has it but without
goroutines, queues or time. Every script has such a meaning, also one whose questions
ask about their own answers, since what is never answered may be taken for an error. TLC evaluates the
assumption for the recursive evaluator of `CalculatorEvaluator`, so what is checked and
what is proved are about the same reference. The induction over the depth of
expressions, which the prover could not make, is not needed: the invariant `MInv`
follows the execution instead. It says of each frame of the recursion of `evaluate` that the
parameters evaluated so far are the values of their expressions and that the value of
the frame's expression is what the frame below waits for (`TasksRight`), of each call
made that it is the one the meaning has (`CallsAsked`), of each object that it is the one
meant (`ObjectsRight`), and that a call runs on an object that is there (`TargetsThere`).

`CalculatorSession_proofs` proves, for every set of programs:

* `SessionServes`: `SessionSpec => ServesScript`, the refinement of `CalculatorServer` by
  the two ends of a connection;
* `AssertionsNeverFail`: `SessionSpec => []AssertionsHold`;
* `PipeliningCostsNothing`: `SessionSpec => [](Plain(program) => RoundTripsAsNeeded)`.

`ProgramsAssumption`: a program awaits at least one answer, has sent a question before it
awaits its answer, and expects what the question means. It is the last part that TLC
evaluates to see that the numbers in the assertions of `client.ts` are right.
`AwaitsAssumption`: the functions of these clients answer without asking, which is so of
the one there is (`client.ts` 277-285). Answers cross calls, so the invariant `SInv` is about
messages under way: questions are in the stream in order, from the one received last to
the one sent last (`InOrder`); a call on its way to the client, or its answer on its way
back, is of a call that waits for it, and never both (`ToClientOK`, `ToServerOK`,
`Distinct`, `Apart`); an answer the client has is the one the server gave. From these
a callback is answered once, and each step of the session is a step of the server or
none.

`Plain` is true of all the programs but the one with the callback: nothing that is
evaluated for it calls a function of the client, each of its stretches (the questions it
sends between two awaits) is followed by an await of one of them, and its `needs` is the
number of its stretches. For the program with the callback the number is its own, and TLC
checks it. That no call is made of the client is a consequence of `MInv` and `CallsHaveCallers`: an
expression that asks for a call is among `Evaluations`. `TripsInv` then says that the
round trips so far are the stretches behind (`Behind`), and that a client that has heard
nothing since its last stretch still waits for a question of that stretch, so it cannot
begin another.

`Connections_proofs` proves, for all finite sets of clients and any number of
descriptors:

* `TypeCorrect`: `Spec => []TypeOK`, by which no connection is queued or served twice;
* `LateEventsAreIgnored`: `Spec => LateEventsIgnored`.

`TypeOK` needs `ComesOnce`: a connection that has come to the server is no longer
connecting, and a client connects once.

`StubCalls_proofs` proves, for all values and every two of the three languages:

* `MethodAskedRuns`: `Spec => []RunsMethodAsked`;
* `ParametersArrive`: `Spec => []ParamsArrive`;
* `PromisesKept`: `Spec => []PromiseIsResult`.

`NumbersAssumption`: a number is its lanes. `OperatorsAssumption`: an `Operator` that a
program passes is one of its four constants. Go's setter takes any number, and Rust's
getter makes `NotInSchema` of another one, so without it a parameter could arrive as
something else. `InterfaceTable`, `ParamTables` and `ResultTables` show that the three
sets of tables, in their own units, come to the same numbers and places, and
`ParamPlaces` that these places are apart. The invariant says at each phase what the call is made of: the
struct of the parameters reads as the program set them (`Built`), by the lemmas of
`StructLayout_proofs`; the message says what was asked (`Says`); the method that runs is
that one (`Runs`).

`FramesFile_proofs` proves, for any number of runs of `doWrite`:

* `AlwaysReadsRight`: `Spec => []UndisturbedReadsRight`;
* `AlwaysReadsSane`: `Spec => []TornReadsSane`.

`NoneAssumption` and `NullAssumption` say that the two marks for nothing are no message and
no pointer. There are two arguments. One is about structs and words: what `doWrite` sets
with the TypeScript table lies in the words where it should (`PtsSlots`, `AudioSlots`,
`FrameSlots`, `AudioFull`), what another program left is of one of four shapes
(`LeftWords`), and a reader's table, any of the three, finds the numbers in those words
(`ListSeen`, `FrameSeen`, `AudioSeen`, `PtsSeen`), also when the words come from different
messages (`FrameReached`, `AudioReached`), which is possible because the messages of
`doWrite` put the same things at the same places. The other is about time. The invariant says that
the file is the beginning of the message of the last run (`Holds`), and that each word a
reader has is that of some run at that place, these runs never decreasing from one word to
the next (`Aged`). `MixedSane` then takes for the runs in `TornReadsSane` those of the words
that hold the numbers. For an undisturbed reader the words are the beginning of the file it
opened.

Only model-checked: the liveness properties, since fairness is out of the prover's
reach (`EveryMessageDelivered`, `EveryQuestionAnswered`, `ClientFinishes`, `ReaderEnds`
and those of `Connections` but `LateEventsIgnored`), and `RoundTripsAsNeeded` for the
program with the callback, since calls of the client are forgotten once they have
returned and nothing in the state counts them. Every other property of a passing run is
a theorem. That the recursive evaluator of `CalculatorEvaluator` satisfies
`MeaningAssumption` is evaluated for the scripts and programs of the runs; for every
script it would take an induction over expressions. Questions that a client's function
asks before it answers are in the runs and the proofs of the server, and not in those of
the session.

## Not modelled

Logging, the debugging transport and `dump-rpc-message.ts` keep no state; of the
command lines only the way they end is modelled (`Failure`, `Panic`, `AcceptFails`),
not the choice of a command by its name. The test `ts/test/unit/queue.ts` is about a
class that is not in the repository. The profiling listener of `doServer` (port 9495)
serves nothing of the program's.

A connection that breaks is modelled in the transport and in `Connections`, and not
in the session: which calls are cancelled, and which objects released, is decided in
the RPC libraries, and no code of the repository handles it. `evaluate` recurses as
deep as the expression it is given and starts a goroutine per call; the code sets no
limit to check against.

`evaluate` returns an error when a pointer of the message it was given cannot be decoded
(`main.go` 113-116, 127-134, 160-163); expressions are whole in the model, since the clients
build them with the stubs, and the errors of `evaluate` that a whole expression can cause
are all there. Setters are given values and no null pointers.

Lists are opaque pointers, except the one of `FramesFile`: their elements are structs of the types modelled, but
bounds and list encodings are the library's. Text output (`toString`, `String`) and
the embedded schemas are left out. Sizes in a frame's header are below 2^32 and their
sum is a JavaScript number, so the width of integers plays no part there.

## Plan

1. `TCPTransport` with its channel, checked and proved. Done.
2. `CalculatorServer` with the reference evaluator. Done.
3. `CalculatorSession` with the client programs. Done.
4. `Connections`: `connect.ts` and `doServer`'s accept loop. Done.
5. The generated stubs: `StructLayout`, the schemas, `StructBuilder` with
   `StructRecord`, `StubCalls`. Done.
6. `FramesFile`. Done.
7. Proofs about `StructBuilder`: `TypeOK`, `UnknownKept` and `RecordRefined`. Done.
8. Proofs about `CalculatorServer`, `AnswersCorrect` included, `CalculatorSession`,
   `Connections` and `StubCalls`. Done.
9. Proofs about `FramesFile`, for any number of writes, that all tables agree
   (`LanguagesAgree`), and about round trips (`RoundTripsAsNeeded`). Done.

An abstract specification of the server (questions answered once, with their
meaning) would say no more than `AnswersCorrect`, `AnswersFinal` and
`EveryQuestionAnswered` do together, so there is none.
