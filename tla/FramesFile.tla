------------------------------ MODULE FramesFile ------------------------------
(***************************************************************************)
(* data.bin between the program that writes it, doWrite (ts/src/write.ts), *)
(* and the programs that read it: frames_main (rust/src/main.rs), doFrames *)
(* (go/main.go) and read.py.  Each is a process of its own and nothing     *)
(* keeps them apart: a file may be read while it is being written.         *)
(* Readers do not disturb each other, so one reads at a time here.         *)
(*                                                                         *)
(* The file is written and read a word at a time: the structs, built with  *)
(* the TypeScript stubs and read with the readers', may be torn as well as *)
(* the bytes that data points to, of which there are two words.            *)
(***************************************************************************)
EXTENDS StubTables, Sequences

CONSTANTS MaxWrites,   \* how often doWrite runs
          None

ASSUME MaxWritesAssumption == MaxWrites \in Nat

VARIABLES file,        \* the words in data.bin, or None if there is no such file
          found,       \* what was there before the first run of doWrite
          writes,      \* runs of doWrite begun
          writing,     \* the message that one of them is writing, or None
          reader,      \* the program that reads: "rust", "go" or "py"
          pc,          \* where it is: "start", "read", "shown" or "failed"
          got,         \* the words it has read
          began,       \* the file as it was when it was opened
          torn         \* something was written since

vars == <<file, found, writes, writing, reader, pc, got, began, torn>>

(***************************************************************************)
(* Messages.  A struct is the words of its data section and its pointers,  *)
(* one word each; a pointer says where its target begins and how large it  *)
(* is.  The header stands for the segment table, which gives the length,   *)
(* and for the root pointer; the tag of a list goes with its pointer.      *)
(***************************************************************************)
ts == FramesStructs_ts

number32(n) == [k \in 0 .. 1 |-> IF k = 0 THEN n ELSE 0]

\* Where things begin, in the order in which doWrite asks for them.
ROOT == 2
FRAME == 3
CONTENT == 5
PTS == 9
DATA == 10
LAST == 11

NoSize == [data |-> 0, pointers |-> 0]

PointerTo(at, size) == [at |-> at, size |-> size]

BYTES == PointerTo(DATA, [data |-> 8, pointers |-> 0])

\* The word number k of a struct of that size.
Word(size, s, k) ==
  LET words == size.data \div 4
  IN  IF k < words THEN [j \in 0 .. 3 |-> s.data[4 * k + j]] ELSE s.pointers[k - words]

pts(a) == set(ts.rational, set(ts.rational, init_struct(ts.rational.size),
                               "num", number32(a.num)), "den", number32(a.den))

AudioFrame(a) ==
  LET fresh == init_struct(ts.audio_frame.size)
      b == set(ts.audio_frame, fresh, "channels", Lane(a.channels))
      c == set(ts.audio_frame, b, "stream_id", number32(a.stream_id))
      d == set(ts.audio_frame, c, "pts", Lane(PointerTo(PTS, ts.rational.size)))
  IN  set(ts.audio_frame, d, "data", Lane(BYTES))

FrameOf(member) ==
  set(ts.frame, init_struct(ts.frame.size), member,
      Lane(PointerTo(CONTENT, ts.audio_frame.size)))

\* The list has one frame, or none if it takes no room.
RootOf(size) ==
  set(ts.frames, init_struct(ts.frames.size), "frames", Lane(PointerTo(FRAME, size)))

Message(length, root, frame_, content, a) ==
  [k \in 1 .. length |->
     CASE k = 1 -> length
       [] k \in ROOT .. (FRAME - 1)  -> Word(ts.frames.size, root, k - ROOT)
       [] k \in FRAME .. (CONTENT - 1) -> Word(ts.frame.size, frame_, k - FRAME)
       [] k \in CONTENT .. (PTS - 1) -> Word(ts.audio_frame.size, content, k - CONTENT)
       [] k = PTS -> Word(ts.rational.size, pts(a), k - PTS)
       [] k \in DATA .. LAST  -> a.data]

AudioMessage(a) ==
  Message(LAST, RootOf(ts.frame.size), FrameOf("audio_frame"), AudioFrame(a), a)

\* Runs of doWrite differ in their random bytes only.
Run(n) == [channels |-> 2, stream_id |-> 69, num |-> 1, den |-> 60, data |-> n]

Written(n) == AudioMessage(Run(n))

\* What another program may have left: a file like that of doWrite with numbers and
\* bytes of its own, or one with an audio frame of which nothing was set, ...
NoBytes == 0 - 1

LeftAudio ==
  [earlier |-> [channels |-> 1, stream_id |-> 7, num |-> 1, den |-> 30, data |-> 0],
   unset   |-> [channels |-> 0, stream_id |-> 0, num |-> 0, den |-> 0, data |-> NoBytes]]

\* ... no frame, a video frame, or a frame of a kind that is not in this schema.
Left ==
  LET one     == RootOf(ts.frame.size)
      picture == set(ts.video_frame, init_struct(ts.video_frame.size), "height", number32(3))
      strange == set_field(FrameOf("video_frame"), ts.frame.which, Lane(2))
      fresh   == init_struct(ts.audio_frame.size)
      short(frame_, content) == Message(PTS - 1, one, frame_, content, LeftAudio.unset)
  IN  [earlier |-> AudioMessage(LeftAudio.earlier),
       unset   |-> short(FrameOf("audio_frame"), fresh),
       empty   |-> Message(ROOT, RootOf(NoSize), FrameOf("audio_frame"), fresh,
                           LeftAudio.unset),
       video   |-> short(FrameOf("video_frame"), picture),
       strange |-> short(strange, picture)]

(***************************************************************************)
(* The readers, once they have the words of a message.                     *)
(***************************************************************************)
Exit(code, shown) == [exit |-> code, shown |-> shown]

\* The pointer leads out of the message.
OutOfBounds(words, p) ==
  p # Null /\ p.at + p.size.data \div 4 + p.size.pointers - 1 > words[1]

\* A struct pointer that is null reads as a struct of which nothing is set.
Follow(words, p) ==
  IF p = Null THEN init_struct(NoSize)
  ELSE [data |-> [j \in 0 .. (p.size.data - 1) |-> words[p.at + j \div 4][j % 4]],
        pointers |-> [j \in 0 .. (p.size.pointers - 1) |->
                        words[p.at + p.size.data \div 4 + j]]]

Frames_of(t, words) ==
  get(t.frames, Follow(words, PointerTo(ROOT, t.frames.size)), "frames")[0]

\* There is a first frame, and nothing before it is broken.
HasFrame(t, words) ==
  LET list == Frames_of(t, words)
  IN  list # Null /\ list.size # NoSize /\ ~OutOfBounds(words, list)

FirstFrame(t, words) == Follow(words, Frames_of(t, words))

Content(t, words) == get(t.frame, FirstFrame(t, words), "audio_frame")[0]

Audio(t, words) == Follow(words, Content(t, words))

Pts(t, words) == get(t.audio_frame, Audio(t, words), "pts")[0]

Bytes_of(t, words) == get(t.audio_frame, Audio(t, words), "data")[0]

ReachesPts(t, words) == ~OutOfBounds(words, Pts(t, words))

ReachesBytes(t, words) == ReachesPts(t, words) /\ ~OutOfBounds(words, Bytes_of(t, words))

Byte(t, words, k) ==
  LET p == Bytes_of(t, words)
  IN  IF ~ReachesBytes(t, words) THEN None ELSE IF p = Null THEN NoBytes ELSE words[p.at + k]

\* The numbers and the bytes of the audio frame, up to what cannot be reached.
ShownAudio(t, words) ==
  LET af == Audio(t, words)
      r  == Follow(words, Pts(t, words))
  IN  [stream_id |-> get(t.audio_frame, af, "stream_id"),
       channels |-> get(t.audio_frame, af, "channels"),
       num |-> IF ReachesPts(t, words) THEN get(t.rational, r, "num") ELSE None,
       den |-> IF ReachesPts(t, words) THEN get(t.rational, r, "den") ELSE None,
       first |-> Byte(t, words, 0), last |-> Byte(t, words, 1)]

\* The frame is taken for an audio frame without a look at what it is.
frames_main_unchecked(words) ==
  LET t == FramesStructs
  IN  IF ~HasFrame(t, words) \/ OutOfBounds(words, Content(t, words)) THEN Exit(101, None)
      ELSE Exit(IF ReachesBytes(t, words) THEN 0 ELSE 101, ShownAudio(t, words))
\* frames_main: expect() on the list panics, an error on the way to pts or data ends
\* in the expect() of main, after what was printed before; all but an audio frame is
\* "Was not an audio frame".
frames_main(words) ==
  LET t == FramesStructs
  IN  IF ~HasFrame(t, words) THEN Exit(101, None)
      ELSE IF ~InEffect(t.frame, FirstFrame(t, words), "audio_frame") THEN Exit(0, None)
      ELSE IF OutOfBounds(words, Content(t, words)) THEN Exit(101, None)
      ELSE Exit(IF ReachesBytes(t, words) THEN 0 ELSE 101, ShownAudio(t, words))

\* doFrames prints the message as a whole, through String(), which drops an error
\* and the text with it.
doFrames(words) ==
  LET t == FramesStructs_go
  IN  Exit(0, IF /\ HasFrame(t, words)
                 /\ InEffect(t.frame, FirstFrame(t, words), "audio_frame")
                 /\ ~OutOfBounds(words, Content(t, words))
                 /\ ReachesBytes(t, words)
                THEN ShownAudio(t, words) ELSE None)

\* read.py: frames[0] of an empty list raises, so does which() of an unknown kind
\* and a division by a den that is 0.  The stream is not shown.
readData(words) ==
  LET t     == FramesStructs
      shown == [ShownAudio(t, words) EXCEPT !.stream_id = None]
  IN  IF ~HasFrame(t, words) THEN Exit(1, None)
      ELSE IF InEffect(t.frame, FirstFrame(t, words), "audio_frame")
        THEN IF OutOfBounds(words, Content(t, words)) THEN Exit(1, None)
             ELSE IF shown.den = number32(0)
               THEN Exit(1, [shown EXCEPT !.num = None, !.den = None, !.first = None,
                                          !.last = None])
               ELSE Exit(IF ReachesBytes(t, words) THEN 0 ELSE 1, shown)
      ELSE Exit(IF InEffect(t.frame, FirstFrame(t, words), "video_frame") THEN 0 ELSE 1, None)

Failure == Exit(IF reader = "rust" THEN 101 ELSE 1, None)

\* How the reader ended: the exit of its process and what it printed.
result ==
  CASE pc = "failed" -> Failure
    [] pc = "shown" /\ reader = "rust" -> frames_main(got)
    [] pc = "shown" /\ reader = "go"   -> doFrames(got)
    [] pc = "shown" /\ reader = "py"   -> readData(got)

\* What stands for nothing is no message, and an empty pointer slot is no pointer.
ASSUME NoneAssumption == \A n \in 1 .. MaxWrites : Written(n) # None

ASSUME NullAssumption ==
  /\ PointerTo(ROOT, ts.frames.size) # Null
  /\ \A size \in {NoSize, ts.frame.size} : PointerTo(FRAME, size) # Null
  /\ PointerTo(CONTENT, ts.audio_frame.size) # Null
  /\ PointerTo(PTS, ts.rational.size) # Null /\ BYTES # Null

-------------------------------------------------------------------------------
Init ==
  /\ found \in DOMAIN Left \cup {"nothing"}
  /\ file = IF found = "nothing" THEN None ELSE Left[found]
  /\ writes = 0 /\ writing = None
  /\ reader \in {"rust", "go", "py"}
  /\ pc = "start" /\ got = <<>> /\ began = None /\ torn = FALSE

Touched == torn' = (torn \/ pc = "read")

\* writeFileSync opens the file, which empties it, and then writes.
doWrite ==
  /\ writes < MaxWrites /\ writing = None
  /\ writes' = writes + 1
  /\ writing' = Written(writes')
  /\ file' = <<>>
  /\ Touched
  /\ UNCHANGED <<found, reader, pc, got, began>>

WriteWord ==
  /\ writing # None
  /\ file' = Append(file, writing[Len(file) + 1])
  /\ writing' = IF Len(file') = Len(writing) THEN None ELSE writing
  /\ Touched
  /\ UNCHANGED <<found, writes, reader, pc, got, began>>

Open ==
  /\ pc = "start"
  /\ IF file = None
       THEN pc' = "failed" /\ UNCHANGED began
       ELSE pc' = "read" /\ began' = file
  /\ UNCHANGED <<file, found, writes, writing, reader, got, torn>>

\* The whole of a message: as many words as its header says.
Whole(words) == words # <<>> /\ Len(words) >= words[1]

AtEnd == Len(got) >= Len(file)

\* doFrames reads the file to its end before it looks at the header; the others read
\* as far as the header says.
Enough == Whole(got) /\ (reader = "go" => AtEnd)

\* A read takes what the file holds at the reader's position, which may have been
\* rewritten since the read before.
ReadWord ==
  /\ pc = "read" /\ ~Enough /\ ~AtEnd
  /\ got' = Append(got, file[Len(got) + 1])
  /\ UNCHANGED <<file, found, writes, writing, reader, pc, began, torn>>

\* The reader waits for the rest of the message.
ReadEndWaiting ==
  /\ pc = "read" /\ ~Enough /\ AtEnd
  /\ UNCHANGED vars
\* The end of the file comes before the end of the message.
ReadEnd ==
  /\ pc = "read" /\ ~Enough /\ AtEnd
  /\ pc' = "failed"
  /\ UNCHANGED <<file, found, writes, writing, reader, got, began, torn>>

Show ==
  /\ pc = "read" /\ Enough
  /\ pc' = "shown"
  /\ UNCHANGED <<file, found, writes, writing, reader, got, began, torn>>

Read == Open \/ ReadWord \/ ReadEnd \/ Show

Next == doWrite \/ WriteWord \/ Read

Spec == Init /\ [][Next]_vars

FairSpec == Spec /\ WF_vars(Read)

-------------------------------------------------------------------------------
\* The audio frame of a run of doWrite or, for 0, of the file that was there before.
Contents(n) ==
  IF n > 0 THEN Run(n)
  ELSE IF found \in DOMAIN LeftAudio THEN LeftAudio[found]
  ELSE [item \in {"channels", "stream_id", "num", "den", "data"} |-> None]

\* A reader that ends badly may not have come to print x.
Has(x, y) == x = y \/ (result.exit # 0 /\ x = None)

\* What is shown, in the order in which it lies in the file: the channels of run a,
\* the stream of run b, the time of run c, the first bytes of run d, the last of e.
ShowsOf(a, b, c, d, e) ==
  LET shown == result.shown
  IN  /\ Has(shown.channels, Lane(Contents(a).channels))
      /\ IF reader = "py" THEN shown.stream_id = None
         ELSE Has(shown.stream_id, number32(Contents(b).stream_id))
      /\ Has(shown.num, number32(Contents(c).num))
      /\ Has(shown.den, number32(Contents(c).den))
      /\ Has(shown.first, Contents(d).data) /\ Has(shown.last, Contents(e).data)

(***************************************************************************)
(* A reader that no write disturbs and that opened a file of doWrite ends  *)
(* well and shows what was written, read with the stubs of its own         *)
(* language.                                                               *)
(***************************************************************************)
UndisturbedReadsRight ==
  pc \in {"shown", "failed"} /\ ~torn =>
    \A n \in 1 .. writes :
      began = Written(n) => result.exit = 0 /\ ShowsOf(n, n, n, n, n)

(***************************************************************************)
(* A reader of a file that is rewritten meanwhile may mix frames, but only *)
(* in one way: each number it shows is one that was written there, and     *)
(* none is older than one that lies before it in the file, since every run *)
(* of doWrite empties the file first.  One that ends well shows them all.  *)
(* What is no audio frame never passes for one.                            *)
(***************************************************************************)
TornReadsSane ==
  pc = "shown" /\ result.shown # None =>
    \E a \in 0 .. writes : \E b \in a .. writes : \E c \in b .. writes :
      \E d \in c .. writes : \E e \in d .. writes : ShowsOf(a, b, c, d, e)

(***************************************************************************)
(* A reader ends, however often the file is rewritten under it: it reads   *)
(* no more than the header says or, in Go, than the file holds.            *)
(***************************************************************************)
ReaderEnds == <>(pc \in {"shown", "failed"})
===============================================================================
