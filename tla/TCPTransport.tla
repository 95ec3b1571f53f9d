---------------------------- MODULE TCPTransport ----------------------------
(***************************************************************************)
(* One direction of a connection between two TCPTransports                 *)
(* (src/ts/src/tcp-transport.ts): sendMessage at one end, recvMessage and  *)
(* readBytes at the other, and between them a byte stream that delivers    *)
(* in pieces of any size and may end anywhere.                             *)
(*                                                                         *)
(* The stream is a sequence of 32-bit little-endian units: everything the  *)
(* code reads is a multiple of 4 bytes long.  What has arrived is counted  *)
(* in bytes, because a piece may end inside a unit.                        *)
(*                                                                         *)
(* A message is the words of each of its segments and a unit that fills    *)
(* its body.  The capnp-ts Message and the Node socket are not part of the *)
(* repository; they are modelled from how the transport uses them.         *)
(***************************************************************************)
EXTENDS Integers, Sequences

CONSTANTS Messages,     \* the messages the sender may send
          MaxMessages   \* bound: how many messages one run sends

VARIABLES written,      \* log of socket.write: the message and where it starts
          stream,       \* the units written to the socket so far
          arrived,      \* how many bytes of stream reached the reader's socket
          socket,       \* the reader's socket: "open", "ended" or "destroyed"
          readablePending, \* a "readable" event is scheduled on that socket
          taken,        \* how many units read() has taken out of the socket
          pc,           \* what recvMessage is reading, or "idle" / "rejected"
          waiting,      \* readBytes waits in once("readable")
          buf,          \* the units this recvMessage has read so far
          delivered     \* the buffers recvMessage made a Message of

vars == <<written, stream, arrived, socket, readablePending, taken, pc,
          waiting, buf, delivered>>

UNIT == 4               \* bytes of a UInt32
WORD_SIZE == 8

-----------------------------------------------------------------------------
(* Framing *)

\* The sum over wordsPerSegment.
TotalWords(words) ==
    LET sum[i \in 0 .. Len(words)] ==
            IF i = 0 THEN 0 ELSE sum[i - 1] + words[i]
    IN  sum[Len(words)]

\* segmentSizeSize of an n-segment message, in units: n sizes, padded so that
\* the header ends on a word boundary.
UnconditionalPadding(n) ==
    LET offset == UNIT + n * UNIT
    IN  n + (WORD_SIZE - (offset % WORD_SIZE)) \div UNIT

NoPadding(n) == n

TableUnits(n) ==
    LET offset == UNIT + n * UNIT
    IN  IF offset % WORD_SIZE # 0
        THEN n + (WORD_SIZE - (offset % WORD_SIZE)) \div UNIT
        ELSE n

\* totalSegmentSize, in units.
BodyUnits(words) == TotalWords(words) * (WORD_SIZE \div UNIT)

\* What Message.toArrayBuffer() lays out: the number of segments minus one and
\* the size of each segment, filled up to whole words, then the segments.
HeaderUnits(n) == (1 + n) + ((1 + n) % 2)

FrameUnits(m) == HeaderUnits(Len(m.words)) + 2 * TotalWords(m.words)

Frame(m) ==
    LET n == Len(m.words)
    IN  [k \in 1 .. FrameUnits(m) |->
            IF k = 1 THEN n - 1
            ELSE IF k <= 1 + n THEN m.words[k - 1]
            ELSE IF k <= HeaderUnits(n) THEN 0
            ELSE m.fill]

ASSUME MessagesAssumption ==
    /\ MaxMessages \in Nat
    /\ \A m \in Messages :
          /\ m.words \in Seq(Nat)
          /\ Len(m.words) >= 1
          /\ TotalWords(m.words) \in Nat
          /\ m.fill \in Nat

-----------------------------------------------------------------------------
(* What recvMessage knows from the units it has read *)

\* N = bufNumSegments.readUInt32LE(0) + 1
numSegments == buf[1] + 1

wordsPerSegment == [i \in 1 .. numSegments |-> buf[i + 1]]

\* The length of the readBytes call recvMessage is in, in units.
Need ==
    IF pc = "count" THEN 1
    ELSE IF pc = "table" THEN TableUnits(numSegments)
    ELSE IF pc = "body" THEN BodyUnits(wordsPerSegment)
    ELSE 0

Reading == pc \in {"count", "table", "body"}

\* The socket holds at least n unread units.
Buffered(n) == arrived >= UNIT * (taken + n)

\* The unread bytes of an ended stream are fewer than asked for, but some:
\* Node's read(len) then returns what is left.
Short == UNIT * taken < arrived /\ ~Buffered(Need)

-----------------------------------------------------------------------------

Init ==
    /\ written = <<>>
    /\ stream = <<>>
    /\ arrived = 0
    /\ socket = "open"
    /\ readablePending = FALSE
    /\ taken = 0
    /\ pc = "idle"
    /\ waiting = FALSE
    /\ buf = <<>>
    /\ delivered = <<>>

\* sendMessage(m): the frame is written to the socket in one call.
sendMessage(m) ==
    /\ Len(written) < MaxMessages
    /\ written' = Append(written, [msg |-> m, at |-> Len(stream)])
    /\ stream' = stream \o Frame(m)
    /\ UNCHANGED <<arrived, socket, readablePending, taken, pc, waiting, buf,
                   delivered>>

\* n more bytes reach the reader's socket, which schedules a "readable" event.
Arrive(n) ==
    /\ socket = "open"
    /\ arrived + n <= UNIT * Len(stream)
    /\ arrived' = arrived + n
    /\ readablePending' = TRUE
    /\ UNCHANGED <<written, stream, socket, taken, pc, waiting, buf, delivered>>

\* The stream ends (the other end closed, or the connection broke); bytes
\* still under way are lost.  The end is announced by a "readable" event too.
End ==
    /\ socket = "open"
    /\ socket' = "ended"
    /\ readablePending' = TRUE
    /\ UNCHANGED <<written, stream, arrived, taken, pc, waiting, buf, delivered>>

\* close(): socket.destroy() at the reader.  A destroyed socket emits no
\* further "readable".
close ==
    /\ socket # "destroyed"
    /\ socket' = "destroyed"
    /\ readablePending' = FALSE
    /\ UNCHANGED <<written, stream, arrived, taken, pc, waiting, buf, delivered>>

\* The "readable" event fires.  It resolves the promise of a waiting
\* readBytes; without a listener it is lost.
readable ==
    /\ readablePending
    /\ readablePending' = FALSE
    /\ waiting' = FALSE
    /\ UNCHANGED <<written, stream, arrived, socket, taken, pc, buf, delivered>>

\* The connection asks for the next message.
recvMessage ==
    /\ pc = "idle"
    /\ pc' = "count"
    /\ buf' = <<>>
    /\ UNCHANGED <<written, stream, arrived, socket, readablePending, taken,
                   waiting, delivered>>

\* readBytes(0) throws, and recvMessage with it.
ReadNothing ==
    /\ Reading /\ ~waiting
    /\ Need = 0
    /\ pc' = "rejected"
    /\ UNCHANGED <<written, stream, arrived, socket, readablePending, taken,
                   waiting, buf, delivered>>

\* What follows a readBytes that took `units' out of the socket.
Continue(units) ==
    \/ /\ pc = "count" /\ pc' = "table"
       /\ buf' = buf \o units
       /\ UNCHANGED delivered
    \/ /\ pc = "table" /\ pc' = "body"
       /\ buf' = buf \o units
       /\ UNCHANGED delivered
    \/ /\ pc = "body" /\ pc' = "idle"
       /\ buf' = <<>>
       /\ delivered' = Append(delivered, buf \o units)

\* readBytes(len) finds len bytes buffered and returns them.
ReadAll ==
    /\ Reading /\ ~waiting
    /\ Need > 0
    /\ Buffered(Need)
    /\ taken' = taken + Need
    /\ Continue(SubSeq(stream, taken + 1, taken + Need))
    /\ UNCHANGED <<written, stream, arrived, socket, readablePending, waiting>>

\* Waits for "readable" before it has looked at what is there.
ReadNoneUnchecked ==
    /\ Reading /\ ~waiting
    /\ Need > 0
    /\ ~(socket = "ended" /\ Short)
    /\ waiting' = TRUE
    /\ UNCHANGED <<written, stream, arrived, socket, readablePending, taken, pc,
                   buf, delivered>>

\* readBytes(len) finds fewer than len bytes and waits for "readable".
\* Nothing can happen between read() returning null and once().
ReadNone ==
    /\ Reading /\ ~waiting
    /\ Need > 0
    /\ ~Buffered(Need)
    /\ ~(socket = "ended" /\ Short)
    /\ waiting' = TRUE
    /\ UNCHANGED <<written, stream, arrived, socket, readablePending, taken, pc,
                   buf, delivered>>

\* readBytes(len) on an ended stream returns the fewer than len bytes left.
\* readUInt32LE throws past the end of a short count or a short table; Message
\* throws on a body shorter than its table says.  Only a table that lacks no
\* more than its padding passes.
ReadRest ==
    /\ Reading /\ ~waiting
    /\ Need > 0
    /\ socket = "ended" /\ Short
    /\ taken' = taken + Need
    /\ \/ /\ pc = "table" /\ Buffered(numSegments)
          /\ pc' = "body"
          /\ buf' = buf \o SubSeq(stream, taken + 1, taken + numSegments)
       \/ /\ ~(pc = "table" /\ Buffered(numSegments))
          /\ pc' = "rejected"
          /\ UNCHANGED buf
    /\ UNCHANGED <<written, stream, arrived, socket, readablePending, waiting,
                   delivered>>

readBytes == ReadNothing \/ ReadAll \/ ReadNone \/ ReadRest

Next ==
    \/ \E m \in Messages : sendMessage(m)
    \/ \E n \in 1 .. UNIT * Len(stream) : Arrive(n)
    \/ End
    \/ close
    \/ readable
    \/ recvMessage
    \/ readBytes

Spec == Init /\ [][Next]_vars

(***************************************************************************)
(* Fairness.  The event loop runs every callback that is due (readable,    *)
(* readBytes), the connection calls recvMessage again and again, and TCP   *)
(* delivers what was written as long as the connection stands.  Nothing    *)
(* makes the sender send or the stream end.                                *)
(***************************************************************************)
Fairness ==
    /\ WF_vars(readable)
    /\ WF_vars(readBytes)
    /\ WF_vars(recvMessage)
    /\ WF_vars(\E n \in 1 .. UNIT * Len(stream) : Arrive(n))

FairSpec == Spec /\ Fairness

-----------------------------------------------------------------------------
(* Properties *)

Units == Nat
States == {"idle", "count", "table", "body", "rejected"}

\* Type invariant: the transport's state, and a reader that never takes more
\* than the sender wrote.
TypeOK ==
    /\ written \in Seq([msg : Messages, at : Nat])
    /\ stream \in Seq(Units)
    /\ arrived \in 0 .. UNIT * Len(stream)
    /\ socket \in {"open", "ended", "destroyed"}
    /\ readablePending \in BOOLEAN
    /\ taken \in 0 .. Len(stream)
    /\ pc \in States
    /\ waiting \in BOOLEAN
    /\ buf \in Seq(Units)
    /\ delivered \in Seq(Seq(Units))

\* However the stream is cut into pieces and wherever it ends, the buffers
\* recvMessage decodes are exactly the frames sendMessage wrote, in order:
\* no frame is torn, merged, skipped or read twice.
DeliversFramesInOrder ==
    /\ Len(delivered) <= Len(written)
    /\ \A i \in 1 .. Len(delivered) : delivered[i] = Frame(written[i].msg)

\* readBytes never sleeps through the data it waits for: while it waits on an
\* open socket that already holds enough bytes, a "readable" event is due.
NoLostWakeup ==
    waiting /\ socket = "open" /\ Buffered(Need) => readablePending

\* While the connection stands, every message written is eventually delivered,
\* whatever pieces it arrives in.
EveryMessageDelivered ==
    [](socket = "open") =>
        \A i \in 1 .. MaxMessages :
            (Len(written) >= i) ~> (Len(delivered) >= i)

\* The transport implements the abstract channel.
Channel == INSTANCE MessageChannel
              WITH Payload  <- {Frame(m) : m \in Messages},
                   sent     <- [i \in 1 .. Len(written) |-> Frame(written[i].msg)],
                   received <- delivered

ChannelRefined == Channel!ChannelSpec
=============================================================================
