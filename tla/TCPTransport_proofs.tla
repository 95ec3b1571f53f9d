------------------------ MODULE TCPTransport_proofs ------------------------
(***************************************************************************)
(* Proofs about TCPTransport, for every set of messages, every number of   *)
(* them and every way the stream is cut into pieces.                       *)
(***************************************************************************)
EXTENDS TCPTransport, SequenceTheorems, TLAPS

(***************************************************************************)
(* The inductive invariant.  Offset(i) is where the i-th frame starts in   *)
(* the stream; one past the last frame it is the end of the stream.        *)
(***************************************************************************)
Offset(i) == IF i <= Len(written) THEN written[i].at ELSE Len(stream)

\* p is the first n elements of F.
PrefixOf(p, F, n) ==
    /\ p \in Seq(Nat)
    /\ Len(p) = n
    /\ \A k \in 1 .. n : p[k] = F[k]

\* After place a, s goes on with the first n elements of F.
ShowsAt(s, a, F, n) == \A k \in 1 .. n : s[a + k] = F[k]

\* The stream is the frames written, one after the other.
StreamIsFrames ==
    /\ Offset(1) = 0
    /\ \A i \in 1 .. Len(written) :
          /\ Offset(i + 1) = Offset(i) + FrameUnits(written[i].msg)
          /\ Offset(i + 1) <= Len(stream)
          /\ ShowsAt(stream, Offset(i), Frame(written[i].msg),
                     FrameUnits(written[i].msg))

\* Which frame the reader is in, and where that frame starts.
Cur == Len(delivered) + 1
Start == Offset(Cur)

\* The n units in buf are the first of the frame that the reader is in.
BufIsPrefix(n) ==
    /\ Cur <= Len(written)
    /\ PrefixOf(buf, Frame(written[Cur].msg), n)

\* The table was read short of its padding, and nothing will follow it.
TornTable == socket # "open" /\ arrived < UNIT * taken

\* At each await of recvMessage the reader stands at the matching place of the
\* frame.
ReaderInStep ==
    /\ pc \in {"idle", "count"} => buf = <<>> /\ taken = Start
    /\ pc = "table" => BufIsPrefix(1) /\ taken = Start + 1
    /\ pc = "body" =>
          LET n == Len(written[Cur].msg.words)
          IN  /\ taken = Start + HeaderUnits(n)
              /\ \/ BufIsPrefix(HeaderUnits(n))
                 \/ BufIsPrefix(1 + n) /\ TornTable

IInv == TypeOK /\ StreamIsFrames /\ ReaderInStep /\ DeliversFramesInOrder

-----------------------------------------------------------------------------
(* Facts about sequences and frames *)

LEMMA SeqExtensional ==
    ASSUME NEW S, NEW w \in Seq(S), NEW f, f = [i \in 1 .. Len(w) |-> w[i]]
    PROVE  f = w
  OBVIOUS

LEMMA ShowsFewer ==
    ASSUME NEW s, NEW a, NEW F, NEW n \in Nat, NEW k \in Nat, k <= n,
           ShowsAt(s, a, F, n)
    PROVE  ShowsAt(s, a, F, k)
  BY DEF ShowsAt

\* Reading on from a place in the stream that shows F extends a prefix of F.
LEMMA PrefixExtends ==
    ASSUME NEW s \in Seq(Nat), NEW a \in Nat, NEW n \in Nat, NEW b \in Nat,
           NEW F, NEW p, a + n + b <= Len(s),
           PrefixOf(p, F, n), ShowsAt(s, a, F, n + b)
    PROVE  PrefixOf(p \o SubSeq(s, a + n + 1, a + n + b), F, n + b)
  <1> DEFINE c == a + n
             r == SubSeq(s, c + 1, c + b)
             q == p \o r
  <1>1. /\ p \in Seq(Nat) /\ Len(p) = n
        /\ \A k \in 1 .. n : p[k] = F[k]
    BY DEF PrefixOf
  <1>2. c \in Nat /\ c + b <= Len(s)
    OBVIOUS
  <1>3. \A i \in c + 1 .. c + b : s[i] \in Nat
    BY <1>2
  <1>4. \A k \in 1 .. n + b : s[a + k] = F[k]
    BY DEF ShowsAt
  <1>5. r \in Seq(Nat) /\ Len(r) = b /\ \A k \in 1 .. b : r[k] = s[c + k]
    <2> HIDE DEF c
    <2>1. /\ SubSeq(s, c + 1, c + b) \in Seq(Nat)
          /\ Len(SubSeq(s, c + 1, c + b)) = IF c + 1 <= c + b THEN (c + b) - (c + 1) + 1
                                                             ELSE 0
          /\ \A i \in 1 .. (c + b) - (c + 1) + 1 :
                SubSeq(s, c + 1, c + b)[i] = s[(c + 1) + i - 1]
      BY <1>2, <1>3, SubSeqProperties
    <2>2. \A k \in 1 .. b : SubSeq(s, c + 1, c + b)[k] = s[c + k]
      <3> TAKE k \in 1 .. b
      <3>1. k \in 1 .. (c + b) - (c + 1) + 1 /\ (c + 1) + k - 1 = c + k
        BY <1>2
      <3> QED
        BY <2>1, <3>1
    <2> QED
      BY <1>2, <2>1, <2>2
  <1> HIDE DEF r
  <1>6. /\ q \in Seq(Nat) /\ Len(q) = n + b
        /\ \A i \in 1 .. n + b : q[i] = IF i <= n THEN p[i] ELSE r[i - n]
    <2>1. /\ p \o r \in Seq(Nat)
          /\ Len(p \o r) = Len(p) + Len(r)
          /\ \A i \in 1 .. Len(p) + Len(r) :
                (p \o r)[i] = IF i <= Len(p) THEN p[i] ELSE r[i - Len(p)]
      BY <1>1, <1>5, ConcatProperties
    <2> QED
      BY <2>1, <1>1, <1>5
  <1> HIDE DEF q
  <1>7. ASSUME NEW k \in 1 .. n + b
        PROVE  q[k] = F[k]
    <2>1. CASE k <= n
      <3>1. k \in 1 .. n
        BY <2>1
      <3>2. q[k] = p[k]
        BY <2>1, <1>6
      <3> QED
        BY <3>1, <3>2, <1>1
    <2>2. CASE k > n
      <3>1. k - n \in 1 .. b
        BY <2>2
      <3>2. q[k] = r[k - n]
        BY <2>2, <1>6
      <3>3. r[k - n] = s[c + (k - n)]
        BY <3>1, <1>5
      <3>4. c + (k - n) = a + k
        OBVIOUS
      <3> QED
        BY <3>2, <3>3, <3>4, <1>4
    <2> QED
      BY <2>1, <2>2
  <1> QED
    BY <1>6, <1>7 DEF PrefixOf, q, r

LEMMA MessageFacts ==
    ASSUME NEW m \in Messages
    PROVE  /\ Len(m.words) \in Nat \ {0}
           /\ TotalWords(m.words) \in Nat
           /\ m.words \in Seq(Nat)
           /\ m.fill \in Nat
           /\ \A i \in 1 .. Len(m.words) : m.words[i] \in Nat
  BY MessagesAssumption

\* The reader's rule for padding the table agrees with the writer's layout.
LEMMA TableEndsHeader ==
    ASSUME NEW n \in Nat
    PROVE  /\ TableUnits(n) \in Nat
           /\ HeaderUnits(n) \in Nat
           /\ 1 + TableUnits(n) = HeaderUnits(n)
           /\ n <= TableUnits(n)
  BY DEF TableUnits, HeaderUnits, UNIT, WORD_SIZE

LEMMA FrameFacts ==
    ASSUME NEW m \in Messages
    PROVE  /\ FrameUnits(m) \in Nat \ {0}
           /\ FrameUnits(m) = HeaderUnits(Len(m.words)) + 2 * TotalWords(m.words)
           /\ HeaderUnits(Len(m.words)) <= FrameUnits(m)
           /\ Frame(m) \in Seq(Nat)
           /\ Len(Frame(m)) = FrameUnits(m)
           /\ Frame(m)[1] = Len(m.words) - 1
           /\ \A i \in 1 .. Len(m.words) : Frame(m)[i + 1] = m.words[i]
  <1> DEFINE n == Len(m.words)
             h == HeaderUnits(n)
  <1>1. n \in Nat \ {0} /\ TotalWords(m.words) \in Nat /\ m.fill \in Nat
        /\ \A i \in 1 .. n : m.words[i] \in Nat
    BY MessageFacts
  <1>2. h \in Nat /\ 1 + n <= h
    <2>1. n \in Nat
      BY <1>1
    <2> HIDE DEF n
    <2>2. TableUnits(n) \in Nat /\ n <= TableUnits(n) /\ 1 + TableUnits(n) = h
      BY <2>1, TableEndsHeader
    <2> QED
      BY <2>1, <2>2
  <1>3. FrameUnits(m) = h + 2 * TotalWords(m.words)
    BY DEF FrameUnits
  <1>4. FrameUnits(m) \in Nat \ {0} /\ 1 + n <= FrameUnits(m) /\ h <= FrameUnits(m)
    BY <1>1, <1>2, <1>3
  <1> HIDE DEF h
  <1>5. Frame(m) = [k \in 1 .. FrameUnits(m) |->
                      IF k = 1 THEN n - 1
                      ELSE IF k <= 1 + n THEN m.words[k - 1]
                      ELSE IF k <= h THEN 0
                      ELSE m.fill]
    BY DEF Frame, h
  <1>6. \A k \in 1 .. FrameUnits(m) : Frame(m)[k] \in Nat
    <2> SUFFICES ASSUME NEW k \in 1 .. FrameUnits(m) PROVE Frame(m)[k] \in Nat
      OBVIOUS
    <2>1. k # 1 /\ k <= 1 + n => k - 1 \in 1 .. n
      BY <1>1, <1>4
    <2> QED
      BY <1>1, <1>4, <1>5, <2>1
  <1>7. Frame(m) \in Seq(Nat) /\ Len(Frame(m)) = FrameUnits(m)
    BY <1>4, <1>5, <1>6
  <1>8. Frame(m)[1] = n - 1
    BY <1>4, <1>5
  <1>9. \A i \in 1 .. n : Frame(m)[i + 1] = m.words[i]
    BY <1>1, <1>4, <1>5
  <1> QED
    BY <1>3, <1>4, <1>7, <1>8, <1>9 DEF h

-----------------------------------------------------------------------------
(* Facts about the states the invariant allows *)

\* The frame the reader is in, once it has read the first unit of it.
LEMMA CurrentFrame ==
    ASSUME IInv, Cur <= Len(written), NEW m, m = written[Cur].msg
    PROVE  /\ m \in Messages
           /\ Cur \in 1 .. Len(written)
           /\ Start \in Nat
           /\ Start + FrameUnits(m) <= Len(stream)
           /\ Offset(Cur + 1) = Start + FrameUnits(m)
           /\ ShowsAt(stream, Start, Frame(m), FrameUnits(m))
  <1>1. Cur \in 1 .. Len(written)
    BY DEF IInv, TypeOK, Cur
  <1>2. written[Cur] \in [msg : Messages, at : Nat]
    <2>1. written \in Seq([msg : Messages, at : Nat])
      BY DEF IInv, TypeOK
    <2> QED
      BY <1>1, <2>1, ElementOfSeq
  <1>3. m \in Messages /\ Start \in Nat
    BY <1>1, <1>2 DEF Start, Offset
  <1>4. /\ Offset(Cur + 1) = Start + FrameUnits(m)
        /\ Offset(Cur + 1) <= Len(stream)
        /\ ShowsAt(stream, Start, Frame(m), FrameUnits(m))
    BY <1>1 DEF IInv, StreamIsFrames, Start
  <1> QED
    BY <1>1, <1>3, <1>4

\* The number of segments and their sizes are read back as they were written.
LEMMA TableReadBack ==
    ASSUME IInv, NEW n \in Nat, BufIsPrefix(n), NEW m, m = written[Cur].msg
    PROVE  /\ n >= 1 => numSegments = Len(m.words)
           /\ n >= 1 + Len(m.words) => wordsPerSegment = m.words
  <1>1. Cur <= Len(written) /\ Len(buf) = n
        /\ \A k \in 1 .. n : buf[k] = Frame(m)[k]
    BY DEF BufIsPrefix, PrefixOf
  <1>2. m \in Messages
    BY <1>1, CurrentFrame
  <1>3. /\ Frame(m)[1] = Len(m.words) - 1
        /\ \A i \in 1 .. Len(m.words) : Frame(m)[i + 1] = m.words[i]
    BY <1>2, FrameFacts
  <1>4. Len(m.words) \in Nat /\ m.words \in Seq(Nat)
    BY <1>2, MessageFacts
  <1>5. n >= 1 => numSegments = Len(m.words)
    <2>1. n >= 1 => buf[1] = Len(m.words) - 1
      BY <1>1, <1>3
    <2> QED
      BY <2>1, <1>4 DEF numSegments
  <1>6. ASSUME n >= 1 + Len(m.words)
        PROVE  wordsPerSegment = m.words
    <2>1. numSegments = Len(m.words)
      BY <1>4, <1>5, <1>6
    <2>2. \A i \in 1 .. Len(m.words) : buf[i + 1] = m.words[i]
      <3> TAKE i \in 1 .. Len(m.words)
      <3>1. i + 1 \in 1 .. n
        BY <1>4, <1>6
      <3> QED
        BY <3>1, <1>1, <1>3
    <2>3. wordsPerSegment = [i \in 1 .. Len(m.words) |-> m.words[i]]
      BY <2>1, <2>2 DEF wordsPerSegment
    <2> HIDE DEF wordsPerSegment
    <2> QED
      BY <2>3, <1>4, SeqExtensional
  <1> QED
    BY <1>5, <1>6

\* What each readBytes of recvMessage asks for.
LEMMA NeedFacts ==
    ASSUME IInv
    PROVE  /\ Need \in Nat
           /\ pc = "count" => Need = 1
           /\ pc = "table" => 
                /\ numSegments = Len(written[Cur].msg.words)
                /\ 1 + Need = HeaderUnits(numSegments)
                /\ numSegments <= Need
           /\ pc = "body" => HeaderUnits(Len(written[Cur].msg.words)) + Need
                              = FrameUnits(written[Cur].msg)
  <1> DEFINE m == written[Cur].msg
  <1>1. CASE pc = "count"
    BY <1>1 DEF Need
  <1>2. CASE pc = "table"
    <2>1. BufIsPrefix(1)
      BY <1>2 DEF IInv, ReaderInStep
    <2>2. numSegments = Len(m.words) /\ m \in Messages
      BY <2>1, TableReadBack, CurrentFrame DEF BufIsPrefix
    <2>3. numSegments \in Nat
      BY <2>2, MessageFacts
    <2>4. Need = TableUnits(numSegments)
      BY <1>2 DEF Need
    <2> QED
      BY <1>2, <2>2, <2>3, <2>4, TableEndsHeader
  <1>3. CASE pc = "body"
    <2> DEFINE n == Len(m.words)
    <2>1. BufIsPrefix(HeaderUnits(n)) \/ BufIsPrefix(1 + n)
      BY <1>3 DEF IInv, ReaderInStep
    <2>2. m \in Messages
      BY <2>1, CurrentFrame DEF BufIsPrefix
    <2>3. n \in Nat /\ TotalWords(m.words) \in Nat
      BY <2>2, MessageFacts
    <2>4. HeaderUnits(n) \in Nat /\ HeaderUnits(n) >= 1 + n
      <3> HIDE DEF n
      <3> QED BY <2>3, TableEndsHeader
    <2>5. wordsPerSegment = m.words
      <3>1. CASE BufIsPrefix(HeaderUnits(n))
        BY <3>1, <2>3, <2>4, TableReadBack
      <3>2. CASE BufIsPrefix(1 + n)
        BY <3>2, <2>3, <2>4, TableReadBack
      <3> QED BY <2>1, <3>1, <3>2
    <2>6. Need = TotalWords(m.words) * 2
      BY <1>3, <2>5 DEF Need, BodyUnits, UNIT, WORD_SIZE
    <2>7. FrameUnits(m) = HeaderUnits(n) + 2 * TotalWords(m.words)
      BY <2>2, FrameFacts
    <2> QED
      BY <1>3, <2>3, <2>4, <2>6, <2>7
  <1>4. CASE pc \notin {"count", "table", "body"}
    BY <1>4 DEF Need
  <1> QED
    BY <1>1, <1>2, <1>3, <1>4

-----------------------------------------------------------------------------
(* The invariant is inductive *)

LEMMA InitIInv == Init => IInv
  <1> SUFFICES ASSUME Init PROVE IInv
    OBVIOUS
  <1>1. TypeOK
    <2>1. written \in Seq([msg : Messages, at : Nat])
      BY EmptySeq DEF Init
    <2>2. /\ stream \in Seq(Units) /\ buf \in Seq(Units)
          /\ delivered \in Seq(Seq(Units))
      BY EmptySeq DEF Init
    <2>3. arrived \in 0 .. UNIT * Len(stream) /\ taken \in 0 .. Len(stream)
      BY DEF Init, UNIT
    <2> QED
      BY <2>1, <2>2, <2>3 DEF Init, TypeOK, States
  <1>2. Len(written) = 0 /\ Len(stream) = 0 /\ Len(delivered) = 0
    BY DEF Init
  <1>3. Offset(1) = 0 /\ Start = 0
    BY <1>2 DEF Offset, Start, Cur
  <1>4. StreamIsFrames /\ ReaderInStep /\ DeliversFramesInOrder
    BY <1>2, <1>3 DEF Init, StreamIsFrames, ReaderInStep, DeliversFramesInOrder
  <1> QED
    BY <1>1, <1>4 DEF IInv

\* Steps that neither write nor read.
LEMMA NoReadKeepsIInv ==
    ASSUME IInv,
           \/ \E n \in 1 .. UNIT * Len(stream) : Arrive(n)
           \/ End \/ close \/ readable \/ recvMessage
           \/ ReadNothing \/ ReadNone \/ UNCHANGED vars
    PROVE  IInv'
  <1> USE DEF vars
  <1>1. TypeOK /\ StreamIsFrames /\ ReaderInStep /\ DeliversFramesInOrder
    BY DEF IInv
  <1>2. UNCHANGED <<written, stream, taken, delivered>>
    BY DEF Arrive, End, close, readable, recvMessage, ReadNothing, ReadNone
  <1>3. TypeOK'
    <2>1. arrived' \in 0 .. UNIT * Len(stream)
      <3>1. CASE UNCHANGED arrived
        BY <1>1, <3>1 DEF TypeOK
      <3>2. ASSUME NEW n \in 1 .. UNIT * Len(stream), Arrive(n)
            PROVE  arrived' \in 0 .. UNIT * Len(stream)
        BY <1>1, <3>2 DEF TypeOK, Arrive, UNIT
      <3> QED
        BY <3>1, <3>2 DEF End, close, readable, recvMessage, ReadNothing, ReadNone
    <2>2. socket' \in {"open", "ended", "destroyed"} /\ pc' \in States
      BY <1>1 DEF TypeOK, States, Arrive, End, close, readable, recvMessage,
                  ReadNothing, ReadNone
    <2>3. readablePending' \in BOOLEAN /\ waiting' \in BOOLEAN
      BY <1>1 DEF TypeOK, Arrive, End, close, readable, recvMessage, ReadNothing,
                  ReadNone
    <2>4. buf' \in Seq(Units)
      BY <1>1, EmptySeq DEF TypeOK, Arrive, End, close, readable, recvMessage,
                  ReadNothing, ReadNone
    <2> QED
      BY <1>1, <1>2, <2>1, <2>2, <2>3, <2>4 DEF TypeOK
  <1>4. StreamIsFrames' /\ DeliversFramesInOrder'
    BY <1>1, <1>2 DEF StreamIsFrames, Offset, DeliversFramesInOrder
  <1>5. Cur' = Cur /\ Start' = Start
    BY <1>2 DEF Start, Offset, Cur
  <1>6. ReaderInStep'
    <2>1. CASE recvMessage
      BY <1>1, <1>2, <1>5, <2>1 DEF recvMessage, ReaderInStep
    <2>2. CASE ReadNothing
      BY <1>1, <1>2, <1>5, <2>2 DEF ReadNothing, ReaderInStep
    <2>3. CASE UNCHANGED <<pc, buf>> /\ (TornTable => TornTable')
      BY <1>1, <1>2, <1>5, <2>3 DEF ReaderInStep, BufIsPrefix
    <2>4. recvMessage \/ ReadNothing \/ UNCHANGED <<pc, buf>>
      BY DEF Arrive, End, close, readable, ReadNone
    <2>5. ~recvMessage /\ ~ReadNothing => (TornTable => TornTable')
      BY <1>1, <1>2 DEF TornTable, TypeOK, Arrive, End, close, readable, ReadNone
    <2> QED
      BY <2>1, <2>2, <2>3, <2>4, <2>5
  <1> QED
    BY <1>3, <1>4, <1>6 DEF IInv

\* While unread bytes are left, the units read so far are those between the
\* start of the frame and the place the reader has come to, and what it asks for
\* next is in the frame.
LEMMA StandsInFrame ==
    ASSUME IInv, Reading, UNIT * taken < arrived, NEW m, m = written[Cur].msg
    PROVE  /\ Cur <= Len(written)
           /\ taken \in Nat /\ taken = Start + Len(buf)
           /\ Len(buf) \in Nat
           /\ Len(buf) + Need <= FrameUnits(m)
           /\ pc = "count" => Len(buf) = 0
           /\ pc = "table" => Len(buf) = 1
           /\ pc = "body" => Len(buf) = HeaderUnits(Len(m.words))
           /\ PrefixOf(buf, Frame(m), Len(buf))
  <1>1. TypeOK /\ StreamIsFrames /\ ReaderInStep /\ DeliversFramesInOrder
    BY DEF IInv
  <1>2. pc \in {"count", "table", "body"}
    BY DEF Reading
  <1>3. taken \in Nat /\ taken < Len(stream) /\ Len(stream) \in Nat /\ ~TornTable
    BY <1>1 DEF TypeOK, TornTable, UNIT
  <1>4. Cur <= Len(written)
    <2>1. CASE pc = "count"
      <3>1. taken = Start
        BY <2>1, <1>1 DEF ReaderInStep
      <3>2. Start # Len(stream)
        BY <3>1, <1>3
      <3> QED
        BY <3>2, <1>1 DEF Start, Offset, Cur, DeliversFramesInOrder, TypeOK
    <2>2. CASE pc \in {"table", "body"}
      BY <2>2, <1>1 DEF ReaderInStep, BufIsPrefix
    <2> QED
      BY <1>2, <2>1, <2>2
  <1>5. m \in Messages /\ Start \in Nat
    BY <1>4, CurrentFrame
  <1>6. /\ FrameUnits(m) \in Nat \ {0}
        /\ HeaderUnits(Len(m.words)) <= FrameUnits(m)
        /\ Len(m.words) \in Nat
        /\ HeaderUnits(Len(m.words)) \in Nat
    BY <1>5, FrameFacts, MessageFacts, TableEndsHeader
  <1>7. buf \in Seq(Nat) /\ Len(buf) \in Nat
    BY <1>1 DEF TypeOK, Units
  <1>8. CASE pc = "count"
    <2>1. buf = <<>> /\ taken = Start /\ Need = 1
      BY <1>8, <1>1, NeedFacts DEF ReaderInStep
    <2> QED
      BY <1>3, <1>4, <1>5, <1>6, <1>7, <1>8, <2>1 DEF PrefixOf
  <1>9. CASE pc = "table"
    <2>1. BufIsPrefix(1) /\ taken = Start + 1
      BY <1>9, <1>1 DEF ReaderInStep
    <2>2. 1 + Need = HeaderUnits(Len(m.words))
      BY <1>9, NeedFacts
    <2> QED
      BY <1>3, <1>4, <1>6, <1>7, <1>9, <2>1, <2>2 DEF BufIsPrefix, PrefixOf
  <1>10. CASE pc = "body"
    <2> DEFINE h == HeaderUnits(Len(m.words))
    <2>1. BufIsPrefix(h) /\ taken = Start + h
      BY <1>10, <1>1, <1>3 DEF ReaderInStep
    <2>2. h + Need = FrameUnits(m)
      BY <1>10, NeedFacts
    <2> HIDE DEF h
    <2> QED
      BY <1>3, <1>4, <1>6, <1>7, <1>10, <2>1, <2>2 DEF BufIsPrefix, PrefixOf, h
  <1> QED
    BY <1>2, <1>8, <1>9, <1>10

\* readBytes finds all it asked for.
LEMMA ReadAllKeepsIInv ==
    ASSUME IInv, ReadAll
    PROVE  IInv'
  <1> DEFINE m == written[Cur].msg
             units == SubSeq(stream, taken + 1, taken + Need)
             all == buf \o units
  <1>1. TypeOK /\ StreamIsFrames /\ ReaderInStep /\ DeliversFramesInOrder
    BY DEF IInv
  <1>2. /\ taken' = taken + Need
        /\ Continue(units)
        /\ UNCHANGED <<written, stream, arrived, socket, readablePending, waiting>>
    BY DEF ReadAll
  <1>3. Need \in Nat \ {0} /\ taken \in Nat /\ taken + Need <= Len(stream)
    <2>1. Need \in Nat /\ Need > 0
      BY NeedFacts DEF ReadAll
    <2>2. UNIT * (taken + Need) <= arrived
      BY DEF ReadAll, Buffered
    <2>3. arrived <= UNIT * Len(stream) /\ arrived \in Nat /\ taken \in Nat
          /\ Len(stream) \in Nat
      BY <1>1 DEF TypeOK, UNIT
    <2> QED
      BY <2>1, <2>2, <2>3 DEF UNIT
  <1>4. StreamIsFrames'
    BY <1>1, <1>2 DEF StreamIsFrames, Offset
  <1>5. pc \in {"count", "table", "body"} /\ UNIT * taken < arrived
    BY <1>1, <1>3 DEF ReadAll, Reading, Buffered, UNIT, TypeOK
  <1>6. Cur <= Len(written)
    BY <1>5, StandsInFrame DEF Reading
  <1>7. /\ m \in Messages /\ Start \in Nat /\ Cur \in 1 .. Len(written)
        /\ Start + FrameUnits(m) <= Len(stream)
        /\ Offset(Cur + 1) = Start + FrameUnits(m)
        /\ ShowsAt(stream, Start, Frame(m), FrameUnits(m))
    BY <1>6, CurrentFrame
  <1>8. /\ FrameUnits(m) \in Nat \ {0}
        /\ Frame(m) \in Seq(Nat) /\ Len(Frame(m)) = FrameUnits(m)
    BY <1>7, FrameFacts
  <1>9. /\ taken = Start + Len(buf)
        /\ Len(buf) \in Nat
        /\ Len(buf) + Need <= FrameUnits(m)
        /\ PrefixOf(buf, Frame(m), Len(buf))
    BY <1>5, StandsInFrame DEF Reading
  <1>10. PrefixOf(all, Frame(m), Len(buf) + Need)
    <2> DEFINE F == Frame(m)
               fu == FrameUnits(m)
               st == Start
               need == Need
               n == Len(buf)
    <2>1. /\ stream \in Seq(Nat) /\ st \in Nat /\ n \in Nat /\ need \in Nat
          /\ fu \in Nat /\ n + need <= fu /\ st + n + need <= Len(stream)
          /\ PrefixOf(buf, F, n) /\ ShowsAt(stream, st, F, fu)
      BY <1>1, <1>3, <1>7, <1>8, <1>9 DEF TypeOK, Units
    <2>2. all = buf \o SubSeq(stream, st + n + 1, st + n + need)
      BY <1>9
    <2> HIDE DEF all, F, fu, st, need, n
    <2>3. ShowsAt(stream, st, F, n + need)
      BY <2>1, ShowsFewer
    <2>4. PrefixOf(all, F, n + need)
      BY <2>1, <2>2, <2>3, PrefixExtends
    <2> QED
      BY <2>4 DEF F, need, n
  <1> HIDE DEF all, units
  <1>11. /\ taken' \in 0 .. Len(stream') /\ arrived' \in 0 .. UNIT * Len(stream')
         /\ written' \in Seq([msg : Messages, at : Nat])
         /\ stream' \in Seq(Units)
         /\ socket' \in {"open", "ended", "destroyed"}
    BY <1>1, <1>2, <1>3 DEF TypeOK
  <1>12. readablePending' \in BOOLEAN /\ waiting' \in BOOLEAN
    BY <1>1, <1>2 DEF TypeOK
  <1>13. CASE pc \in {"count", "table"}
    <2>1. /\ buf' = all /\ UNCHANGED delivered
          /\ pc = "count" => pc' = "table"
          /\ pc = "table" => pc' = "body"
      BY <1>2, <1>13 DEF Continue, all
    <2>2. TypeOK'
      BY <1>1, <1>10, <1>11, <1>12, <1>13, <2>1 DEF TypeOK, States, Units, PrefixOf
    <2>3. DeliversFramesInOrder'
      BY <1>1, <1>2, <2>1 DEF DeliversFramesInOrder
    <2>4. Cur' = Cur /\ Start' = Start /\ written' = written
      BY <1>2, <2>1 DEF Cur, Start, Offset
    <2>6. taken' = Start + (Len(buf) + Need)
      BY <1>2, <1>3, <1>7, <1>9
    <2>7. CASE pc = "count"
      <3>1. Len(buf) + Need = 1
        BY <2>7, <1>1, NeedFacts DEF ReaderInStep
      <3>2. BufIsPrefix(1)'
        BY <3>1, <1>10, <1>6, <2>1, <2>4 DEF BufIsPrefix
      <3> QED
        BY <1>4, <2>1, <2>2, <2>3, <2>4, <2>6, <2>7, <3>1, <3>2
           DEF IInv, ReaderInStep
    <2>8. CASE pc = "table"
      <3> DEFINE h == HeaderUnits(Len(m.words))
      <3>1. Len(buf) + Need = h
        BY <2>8, <1>1, NeedFacts DEF ReaderInStep, BufIsPrefix, PrefixOf
      <3>2. BufIsPrefix(h)'
        BY <3>1, <1>10, <1>6, <2>1, <2>4 DEF BufIsPrefix
      <3>3. taken' = Start' + h
        BY <2>4, <2>6, <3>1
      <3>4. ReaderInStep'
        BY <2>1, <2>4, <2>8, <3>2, <3>3 DEF ReaderInStep
      <3> QED
        BY <1>4, <2>2, <2>3, <3>4 DEF IInv
    <2> QED
      BY <1>13, <2>7, <2>8
  <1>14. CASE pc = "body"
    <2>1. pc' = "idle" /\ buf' = <<>> /\ delivered' = Append(delivered, all)
      BY <1>2, <1>14 DEF Continue, all
    <2>2. Len(buf) + Need = FrameUnits(m)
      <3>1. Len(buf) = HeaderUnits(Len(m.words))
        BY <1>5, <1>14, StandsInFrame DEF Reading
      <3> QED
        BY <3>1, <1>14, NeedFacts
    <2>3. all = Frame(m)
      BY <1>8, <1>10, <2>2, SeqEqual DEF PrefixOf
    <2>4. delivered \in Seq(Seq(Units)) /\ all \in Seq(Units)
      BY <1>1, <1>10 DEF TypeOK, Units, PrefixOf
    <2>5. /\ delivered' \in Seq(Seq(Units))
          /\ Len(delivered') = Len(delivered) + 1
          /\ \A i \in 1 .. Len(delivered) : delivered'[i] = delivered[i]
          /\ delivered'[Len(delivered) + 1] = all
      BY <2>1, <2>4, AppendProperties
    <2>6. buf' \in Seq(Units)
      BY <2>1, EmptySeq
    <2>7. TypeOK'
      BY <1>11, <1>12, <2>1, <2>5, <2>6 DEF TypeOK, States
    <2>8. Len(delivered) \in Nat
      BY <2>4
    <2>9. DeliversFramesInOrder'
      <3>1. Len(delivered') <= Len(written')
        BY <1>2, <1>6, <2>5, <2>8 DEF Cur
      <3>2. ASSUME NEW i \in 1 .. Len(delivered')
            PROVE  delivered'[i] = Frame(written'[i].msg)
        <4>1. CASE i = Len(delivered) + 1
          BY <4>1, <1>2, <2>3, <2>5 DEF Cur
        <4>2. CASE i # Len(delivered) + 1
          <5>1. i \in 1 .. Len(delivered)
            BY <4>2, <2>5, <2>8
          <5>2. delivered'[i] = delivered[i]
            BY <2>5, <5>1
          <5> QED
            BY <1>1, <1>2, <5>1, <5>2 DEF DeliversFramesInOrder
        <4> QED
          BY <4>1, <4>2
      <3> QED
        BY <3>1, <3>2 DEF DeliversFramesInOrder
    <2>10. Start' = Start + FrameUnits(m)
      <3>1. Cur' = Cur + 1
        BY <2>5, <2>8 DEF Cur
      <3>2. Start' = Offset(Cur + 1)
        BY <3>1, <1>2 DEF Start, Offset
      <3> QED
        BY <3>2, <1>7
    <2>11. taken' = Start'
      BY <1>2, <1>3, <1>7, <1>8, <1>9, <2>2, <2>10
    <2>12. ReaderInStep'
      BY <2>1, <2>11 DEF ReaderInStep
    <2> QED
      BY <1>4, <2>7, <2>9, <2>12 DEF IInv
  <1> QED
    BY <1>5, <1>13, <1>14

\* readBytes gets the rest of an ended stream.
LEMMA ReadRestKeepsIInv ==
    ASSUME IInv, ReadRest
    PROVE  IInv'
  <1> DEFINE m == written[Cur].msg
             n == Len(m.words)
  <1>1. TypeOK /\ StreamIsFrames /\ ReaderInStep /\ DeliversFramesInOrder
    BY DEF IInv
  <1>2. /\ taken' = taken + Need
        /\ UNCHANGED <<written, stream, arrived, socket, readablePending, waiting,
                       delivered>>
    BY DEF ReadRest
  <1>3. Reading /\ UNIT * taken < arrived /\ socket = "ended"
        /\ ~(arrived >= UNIT * (taken + Need))
    BY DEF ReadRest, Short, Buffered
  <1>4. /\ Cur <= Len(written)
        /\ taken \in Nat /\ taken = Start + Len(buf)
        /\ Len(buf) \in Nat
        /\ Len(buf) + Need <= FrameUnits(m)
        /\ pc = "table" => Len(buf) = 1
        /\ PrefixOf(buf, Frame(m), Len(buf))
    BY <1>3, StandsInFrame
  <1>5. /\ m \in Messages /\ Start \in Nat
        /\ Start + FrameUnits(m) <= Len(stream)
        /\ ShowsAt(stream, Start, Frame(m), FrameUnits(m))
    BY <1>4, CurrentFrame
  <1>6. Need \in Nat /\ FrameUnits(m) \in Nat
    BY <1>5, NeedFacts, FrameFacts
  <1>7. taken' \in 0 .. Len(stream')
    BY <1>1, <1>2, <1>4, <1>5, <1>6 DEF TypeOK
  <1>8. StreamIsFrames' /\ DeliversFramesInOrder' /\ Cur' = Cur /\ Start' = Start
    BY <1>1, <1>2 DEF StreamIsFrames, Offset, DeliversFramesInOrder, Cur, Start
  <1>9. CASE pc' = "rejected" /\ UNCHANGED buf
    <2>1. TypeOK'
      BY <1>1, <1>2, <1>7, <1>9 DEF TypeOK, States
    <2> QED
      BY <2>1, <1>8, <1>9 DEF IInv, ReaderInStep
  <1>10. CASE /\ pc = "table" /\ pc' = "body"
              /\ buf' = buf \o SubSeq(stream, taken + 1, taken + numSegments)
    <2>1. numSegments = n /\ 1 + Need = HeaderUnits(n) /\ n <= Need
      BY <1>10, NeedFacts
    <2>2. n \in Nat /\ Len(buf) = 1
      BY <1>4, <1>5, <1>10, MessageFacts
    <2> DEFINE F == Frame(m)
               fu == FrameUnits(m)
               st == Start
               c == n
    <2>3. /\ stream \in Seq(Nat) /\ st \in Nat /\ c \in Nat /\ fu \in Nat
          /\ 1 + c <= fu /\ st + 1 + c <= Len(stream)
          /\ PrefixOf(buf, F, 1) /\ ShowsAt(stream, st, F, fu)
      <3>1. stream \in Seq(Nat) /\ Len(stream) \in Nat
        BY <1>1 DEF TypeOK, Units
      <3>2. PrefixOf(buf, F, 1) /\ ShowsAt(stream, st, F, fu)
        BY <1>4, <1>5, <2>2
      <3>3. 1 + n <= FrameUnits(m)
        BY <1>4, <1>6, <2>1, <2>2
      <3>4. Start + 1 + n <= Len(stream)
        <4>1. Start + FrameUnits(m) <= Len(stream) /\ Start \in Nat /\ n \in Nat
          BY <1>5, <2>2
        <4> HIDE DEF m, n
        <4> QED
          BY <1>6, <3>1, <3>3, <4>1
      <3> QED
        BY <1>5, <1>6, <2>2, <3>1, <3>2, <3>3, <3>4
    <2>4. buf' = buf \o SubSeq(stream, st + 1 + 1, st + 1 + c)
      BY <1>4, <1>10, <2>1, <2>2
    <2> HIDE DEF F, fu, st, c
    <2>5. ShowsAt(stream, st, F, 1 + c)
      BY <2>3, ShowsFewer
    <2>6. PrefixOf(buf', F, 1 + c)
      BY <2>3, <2>4, <2>5, PrefixExtends
    <2>8. PrefixOf(buf', Frame(m), 1 + n)
      BY <2>6 DEF F, c
    <2>9. BufIsPrefix(1 + n)'
      BY <1>2, <1>4, <1>8, <2>8 DEF BufIsPrefix
    <2>10. TornTable'
      <3>1. arrived \in Int
        BY <1>1 DEF TypeOK, UNIT
      <3>2. arrived < UNIT * (taken + Need)
        BY <1>3, <1>4, <1>6, <3>1 DEF UNIT
      <3> QED
        BY <3>2, <1>2, <1>3 DEF TornTable
    <2>11. taken' = Start' + HeaderUnits(n)
      BY <1>2, <1>4, <1>5, <1>6, <1>8, <2>1, <2>2
    <2>12. ReaderInStep'
      BY <1>2, <1>8, <1>10, <2>9, <2>10, <2>11 DEF ReaderInStep
    <2>13. TypeOK'
      BY <1>1, <1>2, <1>7, <1>10, <2>8 DEF TypeOK, States, Units, PrefixOf
    <2> QED
      BY <1>8, <2>12, <2>13 DEF IInv
  <1> QED
    BY <1>9, <1>10 DEF ReadRest

\* sendMessage appends a frame and leaves the ones before it in place.
LEMMA SendKeepsIInv ==
    ASSUME IInv, NEW m \in Messages, sendMessage(m)
    PROVE  IInv'
  <1> DEFINE e == [msg |-> m, at |-> Len(stream)]
  <1>1. TypeOK /\ StreamIsFrames /\ ReaderInStep /\ DeliversFramesInOrder
    BY DEF IInv
  <1>2. /\ written' = Append(written, e) /\ stream' = stream \o Frame(m)
        /\ UNCHANGED <<arrived, socket, readablePending, taken, pc, waiting, buf,
                       delivered>>
    BY DEF sendMessage
  <1>3. /\ written \in Seq([msg : Messages, at : Nat])
        /\ stream \in Seq(Nat) /\ Len(stream) \in Nat /\ Len(written) \in Nat
        /\ delivered \in Seq(Seq(Nat)) /\ Len(delivered) \in Nat
    BY <1>1 DEF TypeOK, Units
  <1> PICK last \in Nat : last = Len(written) + 1
    BY <1>3
  <1>4. /\ Frame(m) \in Seq(Nat) /\ Len(Frame(m)) = FrameUnits(m)
        /\ FrameUnits(m) \in Nat
    BY FrameFacts
  <1>5. e \in [msg : Messages, at : Nat]
    BY <1>3
  <1>6. /\ written' \in Seq([msg : Messages, at : Nat])
        /\ Len(written') = last
        /\ \A i \in 1 .. Len(written) : written'[i] = written[i]
        /\ written'[last] = e
    <2> HIDE DEF e
    <2> QED
      BY <1>2, <1>3, <1>5, AppendProperties
  <1>7. /\ stream' \in Seq(Nat)
        /\ Len(stream') = Len(stream) + FrameUnits(m)
        /\ \A k \in 1 .. Len(stream) : stream'[k] = stream[k]
        /\ \A k \in 1 .. FrameUnits(m) : stream'[Len(stream) + k] = Frame(m)[k]
    <2> DEFINE f == Frame(m)
    <2>1. f \in Seq(Nat) /\ stream' = stream \o f
      BY <1>2, <1>4
    <2> HIDE DEF f
    <2>2. /\ stream \o f \in Seq(Nat)
          /\ Len(stream \o f) = Len(stream) + Len(f)
          /\ \A i \in 1 .. Len(stream) + Len(f) :
                (stream \o f)[i] = IF i <= Len(stream) THEN stream[i]
                                   ELSE f[i - Len(stream)]
      BY <2>1, <1>3, ConcatProperties
    <2>3. Len(f) = FrameUnits(m)
      BY <1>4 DEF f
    <2>4. ASSUME NEW k \in 1 .. FrameUnits(m)
          PROVE  stream'[Len(stream) + k] = f[k]
      <3>1. Len(stream) + k \in 1 .. Len(stream) + Len(f)
            /\ ~(Len(stream) + k <= Len(stream))
            /\ (Len(stream) + k) - Len(stream) = k
        BY <1>3, <1>4, <2>3
      <3> QED
        BY <2>1, <2>2, <3>1
    <2>5. \A k \in 1 .. Len(stream) : stream'[k] = stream[k]
      BY <1>3, <1>4, <2>1, <2>2, <2>3
    <2> QED
      BY <2>1, <2>2, <2>3, <2>4, <2>5 DEF f
  <1> HIDE DEF e
  <1>8. \A i \in 1 .. last : Offset(i)' = Offset(i)
    <2> TAKE i \in 1 .. last
    <2>1. CASE i <= Len(written)
      <3>1. i <= Len(written') /\ written'[i] = written[i]
        BY <2>1, <1>3, <1>6
      <3> QED
        BY <2>1, <3>1 DEF Offset
    <2>2. CASE i = last
      <3>1. written'[last].at = Len(stream)
        BY <1>6 DEF e
      <3> QED
        BY <2>2, <3>1, <1>3, <1>6 DEF Offset
    <2> QED
      BY <2>1, <2>2, <1>3
  <1>9. Offset(last + 1)' = Len(stream) + FrameUnits(m) /\ Offset(last) = Len(stream)
    BY <1>3, <1>6, <1>7 DEF Offset
  <1>10. StreamIsFrames'
    <2>1. Offset(1)' = 0
      BY <1>1, <1>3, <1>8 DEF StreamIsFrames
    <2>2. ASSUME NEW i \in 1 .. Len(written)
          PROVE  /\ Offset(i + 1)' = Offset(i)' + FrameUnits(written'[i].msg)
                 /\ Offset(i + 1)' <= Len(stream')
                 /\ ShowsAt(stream', Offset(i)', Frame(written'[i].msg),
                            FrameUnits(written'[i].msg))
      <3>1. written'[i] = written[i]
        BY <1>6
      <3>2. Offset(i)' = Offset(i) /\ Offset(i + 1)' = Offset(i + 1)
        BY <1>3, <1>8
      <3> DEFINE fu == FrameUnits(written[i].msg)
                 o == Offset(i)
      <3>3. /\ Offset(i + 1) = o + fu
            /\ Offset(i + 1) <= Len(stream)
            /\ \A k \in 1 .. fu : stream[o + k] = Frame(written[i].msg)[k]
        BY <1>1 DEF StreamIsFrames, ShowsAt
      <3>4. written[i] \in [msg : Messages, at : Nat]
        BY <1>3, ElementOfSeq
      <3>5. o \in Nat
        BY <3>4, <1>3 DEF Offset
      <3>6. fu \in Nat
        BY <3>4, FrameFacts
      <3> HIDE DEF o, fu
      <3>7. \A k \in 1 .. fu : o + k \in 1 .. Len(stream)
        BY <1>3, <3>3, <3>5, <3>6
      <3>8. \A k \in 1 .. fu : stream'[o + k] = Frame(written[i].msg)[k]
        BY <1>7, <3>3, <3>7
      <3>9. Len(stream) <= Len(stream')
        BY <1>3, <1>4, <1>7
      <3>10. o + fu <= Len(stream')
        BY <1>3, <1>4, <1>7, <3>3, <3>5, <3>6
      <3> QED
        BY <3>1, <3>2, <3>3, <3>8, <3>10 DEF o, fu, ShowsAt
    <2>3. /\ Offset(last + 1)' = Offset(last)' + FrameUnits(written'[last].msg)
          /\ Offset(last + 1)' <= Len(stream')
          /\ ShowsAt(stream', Offset(last)', Frame(written'[last].msg),
                     FrameUnits(written'[last].msg))
      <3>1. written'[last].msg = m
        BY <1>6 DEF e
      <3>2. Offset(last)' = Len(stream)
        BY <1>3, <1>8, <1>9
      <3>3. Offset(last + 1)' = Len(stream) + FrameUnits(m)
        BY <1>9
      <3>4. Len(stream) + FrameUnits(m) <= Len(stream')
        BY <1>3, <1>4, <1>7
      <3>5. \A k \in 1 .. FrameUnits(m) : stream'[Len(stream) + k] = Frame(m)[k]
        BY <1>7
      <3>6. ShowsAt(stream', Len(stream), Frame(m), FrameUnits(m))
        BY <3>5 DEF ShowsAt
      <3> QED
        BY <3>1, <3>2, <3>3, <3>4, <3>6
    <2>4. \A i \in 1 .. Len(written') : i \in 1 .. Len(written) \/ i = last
      BY <1>3, <1>6
    <2> QED
      BY <2>1, <2>2, <2>3, <2>4 DEF StreamIsFrames
  <1>11. DeliversFramesInOrder'
    <2>1. \A i \in 1 .. Len(delivered) : i \in 1 .. Len(written)
      BY <1>1, <1>3 DEF DeliversFramesInOrder
    <2>2. Len(delivered') <= Len(written')
      BY <1>1, <1>2, <1>3, <1>6 DEF DeliversFramesInOrder
    <2> QED
      BY <1>1, <1>2, <1>6, <2>1, <2>2 DEF DeliversFramesInOrder
  <1>12. Cur' = Cur /\ Start' = Start
    <2>1. Cur \in 1 .. last
      BY <1>1, <1>3 DEF Cur, DeliversFramesInOrder
    <2>2. Cur' = Cur
      BY <1>2 DEF Cur
    <2> QED
      BY <1>8, <2>1, <2>2 DEF Start
  <1>13. Cur <= Len(written) => Cur <= Len(written') /\ written'[Cur] = written[Cur]
    <2>1. Cur \in Nat \ {0}
      BY <1>3 DEF Cur
    <2> QED
      BY <2>1, <1>3, <1>6
  <1>14. ReaderInStep'
    <2>1. CASE pc \in {"idle", "count", "rejected"}
      BY <2>1, <1>1, <1>2, <1>12 DEF ReaderInStep
    <2>2. CASE pc = "table"
      BY <2>2, <1>1, <1>2, <1>12, <1>13 DEF ReaderInStep, BufIsPrefix
    <2>3. CASE pc = "body"
      BY <2>3, <1>1, <1>2, <1>12, <1>13 DEF ReaderInStep, BufIsPrefix, TornTable
    <2> QED
      BY <2>1, <2>2, <2>3, <1>1 DEF TypeOK, States
  <1>15. TypeOK'
    <2>1. arrived' \in 0 .. UNIT * Len(stream') /\ taken' \in 0 .. Len(stream')
      BY <1>1, <1>2, <1>3, <1>4, <1>7 DEF TypeOK, UNIT
    <2> QED
      BY <1>1, <1>2, <1>6, <1>7, <2>1 DEF TypeOK, Units
  <1> QED
    BY <1>10, <1>11, <1>14, <1>15 DEF IInv

LEMMA NextKeepsIInv == IInv /\ [Next]_vars => IInv'
  <1> SUFFICES ASSUME IInv, [Next]_vars PROVE IInv'
    OBVIOUS
  <1>1. ASSUME NEW m \in Messages, sendMessage(m) PROVE IInv'
    BY <1>1, SendKeepsIInv
  <1>2. CASE ReadAll
    BY <1>2, ReadAllKeepsIInv
  <1>3. CASE ReadRest
    BY <1>3, ReadRestKeepsIInv
  <1> QED
    BY <1>1, <1>2, <1>3, NoReadKeepsIInv DEF Next, readBytes

-----------------------------------------------------------------------------
(* The results *)

\* The state of the transport stays well typed and the reader never takes more
\* out of the socket than was written into it.
THEOREM TypeCorrect == Spec => []TypeOK
  <1>1. IInv => TypeOK
    BY DEF IInv
  <1> QED
    BY <1>1, InitIInv, NextKeepsIInv, PTL DEF Spec

\* recvMessage returns exactly the frames that sendMessage wrote, in order,
\* however the stream is cut into pieces and wherever it breaks off.
THEOREM FramesInOrder == Spec => []DeliversFramesInOrder
  <1>1. IInv => DeliversFramesInOrder
    BY DEF IInv
  <1> QED
    BY <1>1, InitIInv, NextKeepsIInv, PTL DEF Spec

\* readBytes waits only inside recvMessage; with NoLostWakeup this is inductive.
WakeupInv == (waiting => Reading) /\ NoLostWakeup

\* A readBytes that waits on an open socket is woken when what it waits for has
\* arrived: no "readable" event is lost between read() and once().
THEOREM WakeupNeverLost == Spec => []NoLostWakeup
  <1>1. Init => WakeupInv
    BY DEF Init, WakeupInv, NoLostWakeup
  <1>2. WakeupInv /\ [Next]_vars => WakeupInv'
    <2> SUFFICES ASSUME WakeupInv, [Next]_vars PROVE WakeupInv'
      OBVIOUS
    <2> USE DEF WakeupInv, NoLostWakeup
    <2>1. UNCHANGED <<pc, buf>> => Need' = Need /\ (Reading <=> Reading')
      BY DEF Need, numSegments, wordsPerSegment, Reading
    <2>2. UNCHANGED <<pc, buf, arrived, taken>> => (Buffered(Need) <=> Buffered(Need)')
      BY <2>1 DEF Buffered
    <2>3. CASE \E m \in Messages : sendMessage(m)
      BY <2>1, <2>2, <2>3 DEF sendMessage
    <2>4. CASE \E n \in 1 .. UNIT * Len(stream) : Arrive(n)
      BY <2>1, <2>4 DEF Arrive
    <2>5. CASE End \/ close
      BY <2>1, <2>5 DEF End, close
    <2>6. CASE readable
      BY <2>6 DEF readable
    <2>7. CASE recvMessage
      BY <2>7 DEF recvMessage, Reading
    <2>8. CASE ReadNothing \/ ReadAll \/ ReadRest
      BY <2>8 DEF ReadNothing, ReadAll, ReadRest
    <2>9. CASE ReadNone
      BY <2>1, <2>2, <2>9 DEF ReadNone
    <2>10. CASE UNCHANGED vars
      BY <2>1, <2>2, <2>10 DEF vars
    <2> QED
      BY <2>3, <2>4, <2>5, <2>6, <2>7, <2>8, <2>9, <2>10 DEF Next, readBytes
  <1>3. WakeupInv => NoLostWakeup
    BY DEF WakeupInv
  <1> QED
    BY <1>1, <1>2, <1>3, PTL DEF Spec

\* The frames written, as the abstract channel sees them.
SentFrames == [i \in 1 .. Len(written) |-> Frame(written[i].msg)]

\* The transport implements MessageChannel: its steps are sends, receives and
\* steps the channel does not see.
THEOREM ImplementsChannel == Spec => ChannelRefined
  <1>1. Init => Channel!ChannelInit
    <2> SUFFICES ASSUME Init PROVE Channel!ChannelInit
      OBVIOUS
    <2>1. Len(written) = 0 /\ delivered = <<>>
      BY DEF Init
    <2>2. SentFrames = <<>>
      BY <2>1 DEF SentFrames
    <2> QED
      BY <2>1, <2>2 DEF Channel!ChannelInit, SentFrames
  <1>2. IInv /\ IInv' /\ [Next]_vars => [Channel!ChannelNext]_(Channel!chanVars)
    <2> SUFFICES ASSUME IInv, IInv', [Next]_vars
                 PROVE  Channel!ChannelNext \/ UNCHANGED <<SentFrames, delivered>>
      BY DEF Channel!chanVars, SentFrames
    <2>1. ASSUME NEW m \in Messages, sendMessage(m)
          PROVE  Channel!Send
      <3>1. written' = Append(written, [msg |-> m, at |-> Len(stream)])
            /\ delivered' = delivered
        BY <2>1 DEF sendMessage
      <3>2. Len(written) \in Nat /\ Len(written') = Len(written) + 1
            /\ \A i \in 1 .. Len(written) : written'[i] = written[i]
        BY <3>1 DEF IInv, TypeOK
      <3> PICK last \in Nat : last = Len(written) + 1
        BY <3>2
      <3>7. written'[last].msg = m
        BY <3>1, <3>2 DEF IInv, TypeOK
      <3> DEFINE F == {Frame(w) : w \in Messages}
      <3>3. \A i \in 1 .. Len(written) : Frame(written[i].msg) \in F
        <4> TAKE i \in 1 .. Len(written)
        <4>1. written[i] \in [msg : Messages, at : Nat]
          BY ElementOfSeq DEF IInv, TypeOK
        <4> QED
          BY <4>1
      <3>4. Frame(m) \in F
        OBVIOUS
      <3> HIDE DEF F
      <3>5. SentFrames \in Seq(F) /\ Len(SentFrames) = Len(written)
        BY <3>2, <3>3 DEF SentFrames
      <3>6. SentFrames' = Append(SentFrames, Frame(m))
        <4> DEFINE a == Append(SentFrames, Frame(m))
        <4>1. /\ a \in Seq(F) /\ Len(a) = Len(written) + 1
              /\ \A i \in 1 .. Len(written) : a[i] = SentFrames[i]
              /\ a[last] = Frame(m)
          BY <3>4, <3>5, AppendProperties
        <4>2. SentFrames' = [i \in 1 .. Len(written) + 1 |-> Frame(written'[i].msg)]
          BY <3>2 DEF SentFrames
        <4> HIDE DEF a
        <4>3. \A i \in 1 .. Len(written) + 1 : SentFrames'[i] = a[i]
          <5> TAKE i \in 1 .. Len(written) + 1
          <5>1. CASE i = Len(written) + 1
            <6>1. SentFrames'[i] = Frame(written'[i].msg)
              BY <4>2
            <6>2. i = last
              BY <5>1
            <6> QED
              BY <3>7, <4>1, <6>1, <6>2
          <5>2. CASE i \in 1 .. Len(written)
            BY <5>2, <3>2, <4>1, <4>2 DEF SentFrames
          <5> QED
            BY <5>1, <5>2, <3>2
        <4>4. SentFrames' \in Seq(F) /\ Len(SentFrames') = Len(written) + 1
          BY <3>2, <4>1, <4>2, <4>3
        <4> QED
          BY <4>1, <4>3, <4>4, SeqEqual DEF a
      <3> QED
        BY <3>1, <3>4, <3>6 DEF Channel!Send, SentFrames, F
    <2>2. ASSUME delivered' # delivered, ReadAll
          PROVE  Channel!Receive
      <3>1. PICK x : delivered' = Append(delivered, x)
        BY <2>2 DEF ReadAll, Continue
      <3> DEFINE n == Len(delivered)
      <3>2. delivered \in Seq(Seq(Nat)) /\ n \in Nat /\ written' = written
            /\ Len(written) \in Nat
        BY <2>2 DEF IInv, TypeOK, Units, ReadAll
      <3>3. Len(delivered') = n + 1 /\ delivered'[n + 1] = x
        BY <3>1, <3>2
      <3>4. n + 1 <= Len(written) /\ x = Frame(written[n + 1].msg)
        BY <3>2, <3>3 DEF IInv, DeliversFramesInOrder
      <3>5. Len(SentFrames) = Len(written) /\ SentFrames[n + 1] = x
        BY <3>2, <3>4 DEF SentFrames
      <3>6. SentFrames' = SentFrames
        BY <3>2 DEF SentFrames
      <3> QED
        BY <3>1, <3>2, <3>4, <3>5, <3>6 DEF Channel!Receive, SentFrames
    <2>3. CASE UNCHANGED <<written, delivered>>
      BY <2>3 DEF SentFrames
    <2>4. ReadAll => UNCHANGED written
      BY DEF ReadAll
    <2> QED
      BY <2>1, <2>2, <2>3, <2>4 DEF Channel!ChannelNext, Next, readBytes, vars,
         Arrive, End, close, readable, recvMessage, ReadNothing, ReadNone, ReadRest
  <1> QED
    BY <1>1, <1>2, InitIInv, NextKeepsIInv, PTL
       DEF Spec, ChannelRefined, Channel!ChannelSpec

=============================================================================
