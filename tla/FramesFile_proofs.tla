-------------------------- MODULE FramesFile_proofs ---------------------------
(***************************************************************************)
(* Proofs about data.bin, for any number of runs of doWrite.               *)
(***************************************************************************)
EXTENDS FramesFile, StructLayout_proofs, SequenceTheorems

-------------------------------------------------------------------------------
(* Places *)

\* The places of the fields that the readers look at.
LEMMA Spots ==
  /\ \A i \in {0, 1} :
       /\ Pointer(i).section = "pointers" /\ Pointer(i).start = i /\ Pointer(i).width = 1
       /\ IsPlace(Pointer(i)) /\ Slots(Pointer(i)) = {i}
  /\ \A i \in {0, 2} :
       /\ Data(U16, i).section = "data" /\ Data(U16, i).start = i /\ Data(U16, i).width = 1
       /\ IsPlace(Data(U16, i)) /\ Slots(Data(U16, i)) = {i}
  /\ \A i \in {0, 1, 2} :
       /\ Data(U32, i).section = "data" /\ Data(U32, i).start = 2 * i
       /\ Data(U32, i).width = 2
       /\ IsPlace(Data(U32, i)) /\ Slots(Data(U32, i)) = {2 * i, 2 * i + 1}
  BY DEF Pointer, Data, Field, U16, U32, IsPlace, Slots, Sections

\* Where a table has those fields.
Placed(t) ==
  /\ t.frames.fields["frames"] = Pointer(0)
  /\ t.frame.which = Data(U16, 0)
  /\ t.frame.fields["audio_frame"] = Pointer(0) /\ t.frame.fields["video_frame"] = Pointer(0)
  /\ t.audio_frame.fields["channels"] = Data(U16, 2)
  /\ t.audio_frame.fields["stream_id"] = Data(U32, 2)
  /\ t.audio_frame.fields["data"] = Pointer(0) /\ t.audio_frame.fields["pts"] = Pointer(1)
  /\ t.rational.fields["num"] = Data(U32, 0) /\ t.rational.fields["den"] = Data(U32, 1)

\* Only the frame is a union, and of its members the audio frame is number 0.
Told(t) ==
  /\ \A f : IsMember(t.frame, f) <=> f \in {"audio_frame", "video_frame"}
  /\ t.frame.tags["audio_frame"] = 0 /\ t.frame.tags["video_frame"] = 1
  /\ \A f : f \notin t.frame.group.members
  /\ \A f : ~IsMember(t.frames, f) /\ ~IsMember(t.audio_frame, f) /\ ~IsMember(t.rational, f)

Known(t) == Placed(t) /\ Told(t) /\ t.frames.size = ts.frames.size

LEMMA Sizes ==
  /\ ts.frames.size = [data |-> 0, pointers |-> 1]
  /\ ts.frame.size = [data |-> 4, pointers |-> 1]
  /\ ts.audio_frame.size = [data |-> 8, pointers |-> 2]
  /\ ts.rational.size = [data |-> 4, pointers |-> 0]
<1>1. /\ ObjectSize(0, 1) = [data |-> 0, pointers |-> 1]
      /\ ObjectSize(8, 1) = [data |-> 4, pointers |-> 1]
      /\ ObjectSize(16, 2) = [data |-> 8, pointers |-> 2]
      /\ ObjectSize(8, 0) = [data |-> 4, pointers |-> 0]
  BY DEF ObjectSize
<1>2. ts.frames.size = ObjectSize(0, 1) /\ ts.frame.size = ObjectSize(8, 1)
  BY DEF ts, FramesStructs_ts, frames_ts, frame_ts, Struct, Union
<1>3. ts.audio_frame.size = ObjectSize(16, 2) /\ ts.rational.size = ObjectSize(8, 0)
  BY DEF ts, FramesStructs_ts, audio_frame_ts, rational_ts, Struct
<1> QED BY <1>1, <1>2, <1>3

\* The tables of TypeScript, which doWrite uses, and those of the readers agree on
\* all that.
LEMMA Tables == Known(ts) /\ Known(FramesStructs) /\ Known(FramesStructs_go)
<1>1. Placed(ts)
  BY Offsets DEF Placed, ts, FramesStructs_ts, frames_ts, frame_ts, audio_frame_ts, rational_ts,
     Struct, Union
<1>2. Told(ts)
  BY DEF Told, ts, FramesStructs_ts, frames_ts, frame_ts, audio_frame_ts, rational_ts, Struct,
     Union, NoTags, NoGroup, IsMember
<1>3. Placed(FramesStructs)
  BY DEF Placed, FramesStructs, frames, frame, audio_frame, rational, Struct, Union
<1>4. Told(FramesStructs)
  BY DEF Told, FramesStructs, frames, frame, audio_frame, rational, Struct, Union, NoTags,
     NoGroup, IsMember
<1>5. Placed(FramesStructs_go)
  BY Offsets DEF Placed, FramesStructs_go, frames_go, frame_go, audio_frame_go, rational_go,
     Struct, Union
<1>6. Told(FramesStructs_go)
  BY DEF Told, FramesStructs_go, frames_go, frame_go, audio_frame_go, rational_go, Struct,
     Union, NoTags, NoGroup, IsMember
<1>7. STRUCT_SIZE(0, 1) = [data |-> 0, pointers |-> 1] /\ ObjectSize(0, 1) = STRUCT_SIZE(0, 1)
  BY DEF STRUCT_SIZE, ObjectSize
<1>8. FramesStructs.frames.size = ts.frames.size
  BY <1>7, Sizes DEF FramesStructs, frames, Struct
<1>9. FramesStructs_go.frames.size = ts.frames.size
  BY <1>7, Sizes DEF FramesStructs_go, frames_go, Struct
<1> QED BY <1>1, <1>2, <1>3, <1>4, <1>5, <1>6, <1>8, <1>9 DEF Known

-------------------------------------------------------------------------------
(* What the words of a message hold *)

\* A struct of that size.
Sized(s, size) ==
  /\ DOMAIN s = Sections
  /\ \A c \in Sections : DOMAIN s[c] = 0 .. (size[c] - 1)

LEMMA FreshSlots ==
  ASSUME NEW size
  PROVE  /\ Sized(init_struct(size), size)
         /\ \A j \in 0 .. (size["data"] - 1) : init_struct(size)["data"][j] = 0
         /\ \A j \in 0 .. (size["pointers"] - 1) : init_struct(size)["pointers"][j] = Null
  BY DEF Sized, init_struct, Sections, Zero

LEMMA SetSlots ==
  ASSUME NEW size, NEW s, Sized(s, size), NEW f, IsPlace(f), NEW v
  PROVE  /\ Sized(set_field(s, f, v), size)
         /\ \A c \in Sections : \A j \in 0 .. (size[c] - 1) :
              set_field(s, f, v)[c][j] =
                IF c = f.section /\ j \in Slots(f) THEN v[j - f.start] ELSE s[c][j]
<1>1. f.section \in Sections /\ DOMAIN s = Sections
  BY DEF IsPlace, Sized
<1> DEFINE u == set_field(s, f, v)
<1>2. /\ DOMAIN u = Sections /\ \A c \in Sections : DOMAIN u[c] = DOMAIN s[c]
      /\ \A c \in Sections : \A j \in DOMAIN s[c] :
           u[c][j] = IF c = f.section /\ j \in Slots(f) THEN v[j - f.start] ELSE s[c][j]
  BY <1>1, SetFieldShape
<1> HIDE DEF u
<1>3. Sized(u, size)
  BY <1>2 DEF Sized
<1>4. \A c \in Sections : \A j \in 0 .. (size[c] - 1) :
        u[c][j] = IF c = f.section /\ j \in Slots(f) THEN v[j - f.start] ELSE s[c][j]
  BY <1>2 DEF Sized
<1> QED BY <1>3, <1>4 DEF u

\* The presentation time as pts(a) sets it.
LEMMA PtsSlots ==
  ASSUME NEW a
  PROVE  LET d == pts(a)["data"]
         IN  d[0] = a.num /\ d[1] = 0 /\ d[2] = a.den /\ d[3] = 0
<1> DEFINE size == ts.rational.size
           r == init_struct(size)
           b == set_field(r, Data(U32, 0), number32(a.num))
           c == set_field(b, Data(U32, 1), number32(a.den))
<1>1. pts(a) = c
  BY Tables DEF pts, set, Tags, Known, Placed, Told
<1>2. size["data"] = 4 /\ "data" \in Sections
  BY Sizes DEF Sections
<1>3. /\ Data(U32, 0).section = "data" /\ Data(U32, 0).start = 0
      /\ IsPlace(Data(U32, 0)) /\ Slots(Data(U32, 0)) = {0, 1}
      /\ Data(U32, 1).section = "data" /\ Data(U32, 1).start = 2
      /\ IsPlace(Data(U32, 1)) /\ Slots(Data(U32, 1)) = {2, 3}
  BY Spots
<1>4. \A n : number32(n)[0] = n /\ number32(n)[1] = 0
  BY DEF number32
<1>5. Sized(r, size)
  BY FreshSlots
<1> HIDE DEF size, r
<1>6. Sized(b, size) /\ b["data"][0] = a.num /\ b["data"][1] = 0
  BY <1>2, <1>3, <1>4, <1>5, SetSlots
<1> HIDE DEF b
<1>7. c["data"][0] = a.num /\ c["data"][1] = 0 /\ c["data"][2] = a.den /\ c["data"][3] = 0
  BY <1>2, <1>3, <1>4, <1>6, SetSlots
<1> HIDE DEF c
<1> QED BY <1>1, <1>7

\* An audio frame as AudioFrame(a) sets it.
LEMMA AudioSlots ==
  ASSUME NEW a
  PROVE  LET d == AudioFrame(a)["data"]
             p == AudioFrame(a)["pointers"]
         IN  /\ d[2] = a.channels /\ d[4] = a.stream_id /\ d[5] = 0
             /\ p[0] = BYTES /\ p[1] = PointerTo(PTS, ts.rational.size)
<1> DEFINE size == ts.audio_frame.size
           to == PointerTo(PTS, ts.rational.size)
           r == init_struct(size)
           b == set_field(r, Data(U16, 2), Lane(a.channels))
           c == set_field(b, Data(U32, 2), number32(a.stream_id))
           d == set_field(c, Pointer(1), Lane(to))
           e == set_field(d, Pointer(0), Lane(BYTES))
<1>1. AudioFrame(a) = e
  BY Tables DEF AudioFrame, set, Tags, Known, Placed, Told
<1>2. size["data"] = 8 /\ size["pointers"] = 2 /\ Sections = {"data", "pointers"}
  BY Sizes DEF Sections
<1>3. /\ Data(U16, 2).section = "data" /\ Data(U16, 2).start = 2
      /\ IsPlace(Data(U16, 2)) /\ Slots(Data(U16, 2)) = {2}
      /\ Data(U32, 2).section = "data" /\ Data(U32, 2).start = 4
      /\ IsPlace(Data(U32, 2)) /\ Slots(Data(U32, 2)) = {4, 5}
  BY Spots
<1>4. \A i \in {0, 1} :
        /\ Pointer(i).section = "pointers" /\ Pointer(i).start = i
        /\ IsPlace(Pointer(i)) /\ Slots(Pointer(i)) = {i}
  BY Spots
<1>5. (\A n : number32(n)[0] = n /\ number32(n)[1] = 0) /\ \A x : Lane(x)[0] = x
  BY DEF number32, Lane
<1>6. Sized(r, size)
  BY FreshSlots
<1> HIDE DEF size, r, to
<1>7. Sized(b, size) /\ b["data"][2] = a.channels
  BY <1>2, <1>3, <1>5, <1>6, SetSlots
<1> HIDE DEF b
<1>8. Sized(c, size) /\ c["data"][2] = a.channels /\ c["data"][4] = a.stream_id /\ c["data"][5] = 0
  BY <1>2, <1>3, <1>5, <1>7, SetSlots
<1> HIDE DEF c
<1>9. /\ Sized(d, size) /\ d["data"][2] = a.channels /\ d["data"][4] = a.stream_id
      /\ d["data"][5] = 0 /\ d["pointers"][1] = to
  BY <1>2, <1>4, <1>5, <1>8, SetSlots
<1> HIDE DEF d
<1>10. /\ e["data"][2] = a.channels /\ e["data"][4] = a.stream_id /\ e["data"][5] = 0
       /\ e["pointers"][0] = BYTES /\ e["pointers"][1] = to
  BY <1>2, <1>4, <1>5, <1>9, SetSlots
<1> HIDE DEF e
<1> QED BY <1>1, <1>10 DEF to

\* A frame says what it is, and leads to its content.
LEMMA FrameSlots ==
  ASSUME NEW m \in {"audio_frame", "video_frame"}
  PROVE  /\ Sized(FrameOf(m), ts.frame.size)
         /\ FrameOf(m)["data"][0] = ts.frame.tags[m]
         /\ FrameOf(m)["pointers"][0] = PointerTo(CONTENT, ts.audio_frame.size)
<1> DEFINE size == ts.frame.size
           to == PointerTo(CONTENT, ts.audio_frame.size)
           a == init_struct(size)
           b == set_field(a, Data(U16, 0), Lane(ts.frame.tags[m]))
           c == set_field(b, Pointer(0), Lane(to))
<1>1. FrameOf(m) = c
  BY Tables DEF FrameOf, set, Tags, Known, Placed, Told
<1>2. size["data"] = 4 /\ size["pointers"] = 1 /\ Sections = {"data", "pointers"}
  BY Sizes DEF Sections
<1>3. /\ Data(U16, 0).section = "data" /\ Data(U16, 0).start = 0
      /\ IsPlace(Data(U16, 0)) /\ Slots(Data(U16, 0)) = {0}
      /\ Pointer(0).section = "pointers" /\ Pointer(0).start = 0
      /\ IsPlace(Pointer(0)) /\ Slots(Pointer(0)) = {0}
  BY Spots
<1>4. \A x : Lane(x)[0] = x
  BY DEF Lane
<1>5. Sized(a, size)
  BY FreshSlots
<1> HIDE DEF size, a, to
<1>6. Sized(b, size) /\ b["data"][0] = ts.frame.tags[m]
  BY <1>2, <1>3, <1>4, <1>5, SetSlots
<1> HIDE DEF b
<1>7. Sized(c, size) /\ c["data"][0] = ts.frame.tags[m] /\ c["pointers"][0] = to
  BY <1>2, <1>3, <1>4, <1>6, SetSlots
<1> HIDE DEF c
<1> QED BY <1>1, <1>7 DEF size, to

LEMMA RootSlots ==
  ASSUME NEW size
  PROVE  RootOf(size)["pointers"][0] = PointerTo(FRAME, size)
<1> DEFINE a == init_struct(ts.frames.size)
           to == PointerTo(FRAME, size)
<1>1. RootOf(size) = set_field(a, Pointer(0), Lane(to))
  BY Tables DEF RootOf, set, Tags, Known, Placed, Told
<1>2. ts.frames.size["pointers"] = 1 /\ "pointers" \in Sections
  BY Sizes DEF Sections
<1>3. /\ Pointer(0).section = "pointers" /\ Pointer(0).start = 0
      /\ IsPlace(Pointer(0)) /\ Slots(Pointer(0)) = {0}
  BY Spots
<1>4. Sized(a, ts.frames.size) /\ Lane(to)[0] = to
  BY FreshSlots DEF Lane
<1> HIDE DEF a, to
<1> QED BY <1>1, <1>2, <1>3, <1>4, SetSlots DEF to

LEMMA MessageWords ==
  ASSUME NEW length \in {2, 8, 11}, NEW root, NEW fr, NEW content, NEW a
  PROVE  LET w == Message(length, root, fr, content, a)
         IN  /\ Len(w) = length /\ w[1] = length /\ w[2] = root["pointers"][0]
             /\ length >= 8 =>
                  /\ w[3][0] = fr["data"][0] /\ w[4] = fr["pointers"][0]
                  /\ w[5][2] = content["data"][2] /\ w[6][0] = content["data"][4]
                  /\ w[6][1] = content["data"][5]
                  /\ w[7] = content["pointers"][0] /\ w[8] = content["pointers"][1]
             /\ length = 11 =>
                  /\ \A j \in 0 .. 3 : w[9][j] = pts(a)["data"][j]
                  /\ w[10] = a.data /\ w[11] = a.data
<1> DEFINE w == Message(length, root, fr, content, a)
<1>1. /\ ROOT = 2 /\ FRAME = 3 /\ CONTENT = 5 /\ PTS = 9 /\ DATA = 10 /\ LAST = 11
  BY DEF ROOT, FRAME, CONTENT, PTS, DATA, LAST
<1>2. Len(w) = length /\ w[1] = length
  BY <1>1 DEF Message
<1>3. w[2] = Word(ts.frames.size, root, 0)
  BY <1>1 DEF Message
<1>4. length >= 8 => w[3] = Word(ts.frame.size, fr, 0) /\ w[4] = Word(ts.frame.size, fr, 1)
  BY <1>1 DEF Message
<1>5. length >= 8 =>
        /\ w[5] = Word(ts.audio_frame.size, content, 0)
        /\ w[6] = Word(ts.audio_frame.size, content, 1)
        /\ w[7] = Word(ts.audio_frame.size, content, 2)
        /\ w[8] = Word(ts.audio_frame.size, content, 3)
  BY <1>1 DEF Message
<1>6. length = 11 => w[9] = Word(ts.rational.size, pts(a), 0) /\ w[10] = a.data /\ w[11] = a.data
  BY <1>1 DEF Message
<1> HIDE DEF w
<1>7. w[2] = root["pointers"][0]
  BY <1>3, Sizes DEF Word
<1>8. length >= 8 => w[3][0] = fr["data"][0] /\ w[4] = fr["pointers"][0]
  BY <1>4, Sizes DEF Word
<1>9. length >= 8 =>
        /\ w[5][2] = content["data"][2] /\ w[6][0] = content["data"][4]
        /\ w[6][1] = content["data"][5]
        /\ w[7] = content["pointers"][0] /\ w[8] = content["pointers"][1]
  BY <1>5, Sizes DEF Word
<1>10. length = 11 => \A j \in 0 .. 3 : w[9][j] = pts(a)["data"][j]
  BY <1>6, Sizes DEF Word
<1> QED BY <1>2, <1>6, <1>7, <1>8, <1>9, <1>10 DEF w

Listed(w) == \E n \in Nat : w = [k \in 1 .. n |-> w[k]]

LEMMA MessageListed ==
  ASSUME NEW length \in Nat, NEW root, NEW fr, NEW content, NEW a
  PROVE  Listed(Message(length, root, fr, content, a))
<1> DEFINE w == Message(length, root, fr, content, a)
           word(k) == CASE k = 1 -> length
                        [] k \in ROOT .. (FRAME - 1)  -> Word(ts.frames.size, root, k - ROOT)
                        [] k \in FRAME .. (CONTENT - 1) -> Word(ts.frame.size, fr, k - FRAME)
                        [] k \in CONTENT .. (PTS - 1) ->
                             Word(ts.audio_frame.size, content, k - CONTENT)
                        [] k = PTS -> Word(ts.rational.size, pts(a), k - PTS)
                        [] k \in DATA .. LAST  -> a.data
<1>1. w = [k \in 1 .. length |-> word(k)]
  BY Zenon DEF Message
<1> HIDE DEF w, word
<1>2. w = [k \in 1 .. length |-> w[k]]
  BY <1>1
<1> QED BY <1>2 DEF Listed, w

\* The pointers that all messages of one frame share.
List == PointerTo(FRAME, ts.frame.size)
ToContent == PointerTo(CONTENT, ts.audio_frame.size)
ToPts == PointerTo(PTS, ts.rational.size)

(***************************************************************************)
(* The messages there can be: an audio frame in full, one of which nothing *)
(* was set, a frame of another kind, and no frame at all.                  *)
(***************************************************************************)
Full(w, a) ==
  /\ Len(w) = 11 /\ w[1] = 11 /\ w[2] = List /\ w[3][0] = 0 /\ w[4] = ToContent
  /\ w[5][2] = a.channels /\ w[6][0] = a.stream_id /\ w[6][1] = 0
  /\ w[7] = BYTES /\ w[8] = ToPts
  /\ w[9][0] = a.num /\ w[9][1] = 0 /\ w[9][2] = a.den /\ w[9][3] = 0
  /\ w[10] = a.data /\ w[11] = a.data

Bare(w) ==
  /\ Len(w) = 8 /\ w[1] = 8 /\ w[2] = List /\ w[3][0] = 0 /\ w[4] = ToContent
  /\ w[5][2] = 0 /\ w[6][0] = 0 /\ w[6][1] = 0
  /\ w[7] = Null /\ w[8] = Null

Foreign(w) ==
  Len(w) = 8 /\ w[1] = 8 /\ w[2] = List /\ w[3][0] \in {1, 2} /\ w[4] = ToContent

Empty(w) == Len(w) = 2 /\ w[1] = 2 /\ w[2] = PointerTo(FRAME, NoSize)

LEMMA AudioFull ==
  ASSUME NEW a
  PROVE  Full(AudioMessage(a), a)
<1> DEFINE root == RootOf(ts.frame.size)
           fr == FrameOf("audio_frame")
           content == AudioFrame(a)
           w == Message(11, root, fr, content, a)
<1>1. AudioMessage(a) = w
  BY DEF AudioMessage, LAST
<1>2. root["pointers"][0] = List
  BY RootSlots DEF List
<1>3. fr["data"][0] = 0 /\ fr["pointers"][0] = ToContent
  BY FrameSlots, Tables DEF ToContent, Known, Told
<1>4. /\ content["data"][2] = a.channels /\ content["data"][4] = a.stream_id
      /\ content["data"][5] = 0
      /\ content["pointers"][0] = BYTES /\ content["pointers"][1] = ToPts
  BY AudioSlots DEF ToPts
<1>5. /\ pts(a)["data"][0] = a.num /\ pts(a)["data"][1] = 0
      /\ pts(a)["data"][2] = a.den /\ pts(a)["data"][3] = 0
  BY PtsSlots
<1> HIDE DEF root, fr, content
<1>6. /\ Len(w) = 11 /\ w[1] = 11 /\ w[2] = List
      /\ w[3][0] = 0 /\ w[4] = ToContent
      /\ w[5][2] = a.channels /\ w[6][0] = a.stream_id /\ w[6][1] = 0
      /\ w[7] = BYTES /\ w[8] = ToPts
      /\ \A j \in 0 .. 3 : w[9][j] = pts(a)["data"][j]
      /\ w[10] = a.data /\ w[11] = a.data
  BY <1>2, <1>3, <1>4, MessageWords
<1> HIDE DEF w
<1> QED BY <1>1, <1>5, <1>6 DEF Full

LEMMA LeftWords ==
  /\ DOMAIN Left = {"earlier", "unset", "empty", "video", "strange"}
  /\ Full(Left["earlier"], LeftAudio["earlier"]) /\ Bare(Left["unset"]) /\ Empty(Left["empty"])
  /\ Foreign(Left["video"]) /\ Foreign(Left["strange"])
  /\ \A x \in DOMAIN Left : Listed(Left[x])
<1> DEFINE one     == RootOf(ts.frame.size)
           none    == RootOf(NoSize)
           picture == set(ts.video_frame, init_struct(ts.video_frame.size), "height", number32(3))
           audio   == FrameOf("audio_frame")
           video   == FrameOf("video_frame")
           strange == set_field(FrameOf("video_frame"), ts.frame.which, Lane(2))
           fresh   == init_struct(ts.audio_frame.size)
           unset   == LeftAudio["unset"]
           a == AudioMessage(LeftAudio["earlier"])
           b == Message(8, one, audio, fresh, unset)
           c == Message(2, none, audio, fresh, unset)
           d == Message(8, one, video, picture, unset)
           e == Message(8, one, strange, picture, unset)
<1>1. Left = [earlier |-> a, unset |-> b, empty |-> c, video |-> d, strange |-> e]
  <2>1. PTS - 1 = 8 /\ ROOT = 2
    BY DEF PTS, ROOT
  <2> QED BY <2>1 DEF Left
<1>2. one["pointers"][0] = List /\ none["pointers"][0] = PointerTo(FRAME, NoSize)
  BY RootSlots DEF List
<1>3. /\ audio["data"][0] = 0 /\ audio["pointers"][0] = ToContent
      /\ video["data"][0] = 1 /\ video["pointers"][0] = ToContent
      /\ Sized(video, ts.frame.size)
  BY FrameSlots, Tables DEF ToContent, Known, Told
<1>4. strange["data"][0] = 2 /\ strange["pointers"][0] = ToContent
  <2>1. /\ Data(U16, 0).section = "data" /\ Data(U16, 0).start = 0
        /\ IsPlace(Data(U16, 0)) /\ Slots(Data(U16, 0)) = {0}
    BY Spots
  <2>2. ts.frame.which = Data(U16, 0) /\ Lane(2)[0] = 2
    BY Tables DEF Known, Placed, Lane
  <2>3. /\ ts.frame.size["data"] = 4 /\ ts.frame.size["pointers"] = 1
        /\ Sections = {"data", "pointers"}
    BY Sizes DEF Sections
  <2> DEFINE two == Lane(2)
  <2> HIDE DEF video, two
  <2>4. strange = set_field(video, ts.frame.which, two)
    BY DEF strange, two, video
  <2> HIDE DEF strange
  <2>5. two[0] = 2
    BY <2>2 DEF two
  <2> QED BY <1>3, <2>1, <2>2, <2>3, <2>4, <2>5, SetSlots
<1>5. /\ fresh["data"][2] = 0 /\ fresh["data"][4] = 0 /\ fresh["data"][5] = 0
      /\ fresh["pointers"][0] = Null /\ fresh["pointers"][1] = Null
  BY FreshSlots, Sizes
<1> HIDE DEF one, none, picture, audio, video, strange, fresh, unset
<1>6. Full(a, LeftAudio["earlier"])
  BY AudioFull
<1>7. Bare(b)
  BY <1>2, <1>3, <1>5, MessageWords DEF Bare
<1>8. Empty(c)
  BY <1>2, MessageWords DEF Empty
<1>9. Foreign(d) /\ Foreign(e)
  BY <1>2, <1>3, <1>4, MessageWords DEF Foreign
<1>10. Listed(a) /\ Listed(b) /\ Listed(c) /\ Listed(d) /\ Listed(e)
  BY MessageListed DEF AudioMessage, LAST
<1> HIDE DEF a, b, c, d, e
<1> QED BY <1>1, <1>6, <1>7, <1>8, <1>9, <1>10
-------------------------------------------------------------------------------
(* What a reader makes of the words it has read *)

\* The number of 32 bits that begins at lane i of a word.
Num(w, i) == [k \in 0 .. 1 |-> w[i + k]]

LEMMA NumReads ==
  ASSUME NEW w, NEW i \in {0, 2}, NEW n, w[i] = n, w[i + 1] = 0
  PROVE  Num(w, i) = number32(n)
  BY DEF Num, number32

\* A struct that a pointer leads to is made up of the words that are there.
LEMMA FollowSlots ==
  ASSUME NEW words, NEW at \in Nat, NEW d \in {0, 4, 8}, NEW q \in {0, 1, 2},
         NEW p, p # Null, p.at = at, p.size = [data |-> d, pointers |-> q]
  PROVE  LET s == Follow(words, p)
         IN  /\ DOMAIN s["data"] = 0 .. (d - 1) /\ DOMAIN s["pointers"] = 0 .. (q - 1)
             /\ \A j \in 0 .. (d - 1) : s["data"][j] = words[at + j \div 4][j % 4]
             /\ \A j \in 0 .. (q - 1) : s["pointers"][j] = words[at + d \div 4 + j]
<1> DEFINE data == [j \in 0 .. (d - 1) |-> words[at + j \div 4][j % 4]]
           pointers == [j \in 0 .. (q - 1) |-> words[at + d \div 4 + j]]
<1>1. p.size.data = d /\ p.size.pointers = q
  OBVIOUS
<1>2. Follow(words, p) = [data |-> data, pointers |-> pointers]
  BY <1>1, Zenon DEF Follow
<1>3. DOMAIN data = 0 .. (d - 1) /\ DOMAIN pointers = 0 .. (q - 1)
  OBVIOUS
<1>4. \A j \in 0 .. (d - 1) : data[j] = words[at + j \div 4][j % 4]
  OBVIOUS
<1>5. \A j \in 0 .. (q - 1) : pointers[j] = words[at + d \div 4 + j]
  OBVIOUS
<1> HIDE DEF data, pointers
<1>6. Follow(words, p)["data"] = data /\ Follow(words, p)["pointers"] = pointers
  BY <1>2
<1> QED BY <1>3, <1>4, <1>5, <1>6

LEMMA ListSeen ==
  ASSUME NEW t, Known(t), NEW words
  PROVE  Frames_of(t, words) = words[2]
<1> DEFINE p == PointerTo(ROOT, ts.frames.size)
           s == Follow(words, p)
<1>1. p # Null /\ p.at = 2 /\ p.size = [data |-> 0, pointers |-> 1]
  BY NullAssumption, Sizes DEF PointerTo, ROOT
<1> HIDE DEF p
<1>2. DOMAIN s["pointers"] = 0 .. 0 /\ s["pointers"][0] = words[2]
  <2>1. 2 \in Nat /\ 0 \in {0, 4, 8} /\ 1 \in {0, 1, 2}
    OBVIOUS
  <2>2. /\ DOMAIN s["pointers"] = 0 .. (1 - 1)
        /\ \A j \in 0 .. (1 - 1) : s["pointers"][j] = words[2 + 0 \div 4 + j]
    BY <1>1, <2>1, FollowSlots
  <2>3. 1 - 1 = 0 /\ 2 + 0 \div 4 + 0 = 2 /\ 0 \in 0 .. 0
    OBVIOUS
  <2> HIDE DEF s
  <2> QED BY <2>2, <2>3
<1> HIDE DEF s
<1>3. /\ Pointer(0).section = "pointers" /\ Pointer(0).start = 0 /\ Pointer(0).width = 1
      /\ Slots(Pointer(0)) = {0}
  BY Spots
<1>4. get_field(s, Pointer(0))[0] = words[2]
  BY <1>2, <1>3 DEF get_field
<1>5. Frames_of(t, words) = get_field(s, Pointer(0))[0]
  BY DEF Frames_of, get, Known, Placed, s, p
<1> QED BY <1>4, <1>5

LEMMA FrameSeen ==
  ASSUME NEW t, Known(t), NEW words, words[2] = List
  PROVE  /\ which(t.frame, FirstFrame(t, words)) = words[3][0]
         /\ Content(t, words) = words[4]
<1> DEFINE s == Follow(words, List)
<1>1. List # Null /\ List.at = 3 /\ List.size = [data |-> 4, pointers |-> 1]
  BY NullAssumption, Sizes DEF List, PointerTo, FRAME
<1>2. /\ DOMAIN s["data"] = 0 .. 3 /\ DOMAIN s["pointers"] = 0 .. 0
      /\ \A j \in 0 .. 3 : s["data"][j] = words[3 + j \div 4][j % 4]
      /\ s["pointers"][0] = words[3 + 4 \div 4 + 0]
  BY <1>1, FollowSlots
<1>3. s["data"][0] = words[3][0] /\ s["pointers"][0] = words[4]
  BY <1>2
<1> HIDE DEF s
<1>4. /\ Pointer(0).section = "pointers" /\ Pointer(0).start = 0 /\ Pointer(0).width = 1
      /\ Slots(Pointer(0)) = {0}
      /\ Data(U16, 0).section = "data" /\ Data(U16, 0).start = 0 /\ Data(U16, 0).width = 1
      /\ Slots(Data(U16, 0)) = {0}
  BY Spots
<1>5. get_field(s, Pointer(0))[0] = words[4] /\ get_field(s, Data(U16, 0))[0] = words[3][0]
  BY <1>2, <1>3, <1>4 DEF get_field
<1>6. FirstFrame(t, words) = s
  BY ListSeen DEF FirstFrame, s
<1> QED BY <1>5, <1>6 DEF which, Content, get, Known, Placed

LEMMA AudioSeen ==
  ASSUME NEW t, Known(t), NEW words, words[2] = List, words[4] = ToContent
  PROVE  /\ get(t.audio_frame, Audio(t, words), "channels") = Lane(words[5][2])
         /\ get(t.audio_frame, Audio(t, words), "stream_id") = Num(words[6], 0)
         /\ Bytes_of(t, words) = words[7] /\ Pts(t, words) = words[8]
<1> DEFINE s == Follow(words, ToContent)
<1>1. ToContent # Null /\ ToContent.at = 5 /\ ToContent.size = [data |-> 8, pointers |-> 2]
  BY NullAssumption, Sizes DEF ToContent, PointerTo, CONTENT
<1>2. /\ DOMAIN s["data"] = 0 .. 7 /\ DOMAIN s["pointers"] = 0 .. 1
      /\ \A j \in 0 .. 7 : s["data"][j] = words[5 + j \div 4][j % 4]
      /\ \A j \in 0 .. 1 : s["pointers"][j] = words[5 + 8 \div 4 + j]
  BY <1>1, FollowSlots
<1>3. /\ s["data"][2] = words[5][2] /\ s["data"][4] = words[6][0] /\ s["data"][5] = words[6][1]
      /\ s["pointers"][0] = words[7] /\ s["pointers"][1] = words[8]
  <2>1. /\ 2 \div 4 = 0 /\ 2 % 4 = 2 /\ 4 \div 4 = 1 /\ 4 % 4 = 0 /\ 5 \div 4 = 1 /\ 5 % 4 = 1
        /\ 8 \div 4 = 2
    OBVIOUS
  <2> QED BY <1>2, <2>1
<1> HIDE DEF s
<1>4. /\ Data(U16, 2).section = "data" /\ Data(U16, 2).start = 2 /\ Data(U16, 2).width = 1
      /\ Slots(Data(U16, 2)) = {2}
      /\ Data(U32, 2).section = "data" /\ Data(U32, 2).start = 4 /\ Data(U32, 2).width = 2
      /\ Slots(Data(U32, 2)) = {4, 5}
  BY Spots
<1>5. \A i \in {0, 1} :
        /\ Pointer(i).section = "pointers" /\ Pointer(i).start = i /\ Pointer(i).width = 1
        /\ Slots(Pointer(i)) = {i}
  BY Spots
<1>6. get_field(s, Data(U16, 2)) = Lane(words[5][2])
  BY <1>2, <1>3, <1>4 DEF get_field, Lane
<1>7. get_field(s, Data(U32, 2)) = Num(words[6], 0)
  <2>1. get_field(s, Data(U32, 2)) = [k \in 0 .. 1 |-> s["data"][4 + k]]
    BY <1>2, <1>4 DEF get_field
  <2>2. \A k \in 0 .. 1 : s["data"][4 + k] = words[6][0 + k]
    BY <1>3
  <2> QED BY <2>1, <2>2 DEF Num
<1>8. get_field(s, Pointer(0))[0] = words[7] /\ get_field(s, Pointer(1))[0] = words[8]
  BY <1>2, <1>3, <1>5 DEF get_field
<1>9. Audio(t, words) = s
  BY FrameSeen DEF Audio, s
<1> QED BY <1>6, <1>7, <1>8, <1>9 DEF Bytes_of, Pts, get, Known, Placed

LEMMA PtsSeen ==
  ASSUME NEW t, Known(t), NEW words
  PROVE  /\ get(t.rational, Follow(words, ToPts), "num") = Num(words[9], 0)
         /\ get(t.rational, Follow(words, ToPts), "den") = Num(words[9], 2)
         /\ get(t.rational, Follow(words, Null), "num") = number32(0)
         /\ get(t.rational, Follow(words, Null), "den") = number32(0)
<1> DEFINE s == Follow(words, ToPts)
           r == init_struct(NoSize)
<1>1. ToPts # Null /\ ToPts.at = 9 /\ ToPts.size = [data |-> 4, pointers |-> 0]
  BY NullAssumption, Sizes DEF ToPts, PointerTo, PTS
<1>2. /\ DOMAIN s["data"] = 0 .. 3
      /\ \A j \in 0 .. 3 : s["data"][j] = words[9 + j \div 4][j % 4]
  BY <1>1, FollowSlots
<1>3. \A j \in 0 .. 3 : s["data"][j] = words[9][j]
  BY <1>2
<1>4. /\ Data(U32, 0).section = "data" /\ Data(U32, 0).start = 0 /\ Data(U32, 0).width = 2
      /\ Slots(Data(U32, 0)) = {0, 1} /\ IsPlace(Data(U32, 0))
      /\ Data(U32, 1).section = "data" /\ Data(U32, 1).start = 2 /\ Data(U32, 1).width = 2
      /\ Slots(Data(U32, 1)) = {2, 3} /\ IsPlace(Data(U32, 1))
  BY Spots
<1> HIDE DEF s
<1>5. get_field(s, Data(U32, 0)) = Num(words[9], 0)
  <2>1. get_field(s, Data(U32, 0)) = [k \in 0 .. 1 |-> s["data"][0 + k]]
    BY <1>2, <1>4 DEF get_field
  <2>2. \A k \in 0 .. 1 : s["data"][0 + k] = words[9][0 + k]
    BY <1>3
  <2> QED BY <2>1, <2>2 DEF Num
<1>6. get_field(s, Data(U32, 1)) = Num(words[9], 2)
  <2>1. get_field(s, Data(U32, 1)) = [k \in 0 .. 1 |-> s["data"][2 + k]]
    BY <1>2, <1>4 DEF get_field
  <2>2. \A k \in 0 .. 1 : s["data"][2 + k] = words[9][2 + k]
    BY <1>3
  <2> QED BY <2>1, <2>2 DEF Num
<1>7. \A i \in {0, 1} : Default(Data(U32, i)) = number32(0)
  BY <1>4 DEF Default, Zero, number32
<1>8. get_field(r, Data(U32, 0)) = number32(0) /\ get_field(r, Data(U32, 1)) = number32(0)
  BY <1>4, <1>7, FreshReads
<1> HIDE DEF r
<1>9. Follow(words, Null) = r
  BY DEF Follow, r
<1> QED BY <1>5, <1>6, <1>8, <1>9 DEF get, Known, Placed, s

\* The words of a message with one frame, the content of which is there.
Framed(words) == words[1] \in {8, 11} /\ words[2] = List /\ words[4] = ToContent

\* Its content leads nowhere but to a time and to bytes, or is not set to.
Leads(words) == words[7] \in {Null, BYTES} /\ words[8] \in {Null, ToPts}

HasPts(words) == words[8] = Null \/ words[1] = 11

HasBytes(words) == HasPts(words) /\ (words[7] = Null \/ words[1] = 11)

Seen(words) ==
  LET byte(w) == IF ~HasBytes(words) THEN None ELSE IF words[7] = Null THEN NoBytes ELSE w
      time(n) == IF ~HasPts(words) THEN None ELSE IF words[8] = Null THEN number32(0) ELSE n
  IN  [stream_id |-> Num(words[6], 0), channels |-> Lane(words[5][2]),
       num |-> time(Num(words[9], 0)), den |-> time(Num(words[9], 2)),
       first |-> byte(words[10]), last |-> byte(words[11])]

LEMMA FrameReached ==
  ASSUME NEW t, Known(t), NEW words, Framed(words)
  PROVE  /\ HasFrame(t, words) /\ ~OutOfBounds(words, Content(t, words))
         /\ InEffect(t.frame, FirstFrame(t, words), "audio_frame") <=> words[3][0] = 0
<1>1. Frames_of(t, words) = List /\ Content(t, words) = ToContent
  BY ListSeen, FrameSeen DEF Framed
<1>2. /\ List # Null /\ List.at = 3 /\ List.size = [data |-> 4, pointers |-> 1]
      /\ ToContent.at = 5 /\ ToContent.size = [data |-> 8, pointers |-> 2]
  BY NullAssumption, Sizes DEF List, ToContent, PointerTo, FRAME, CONTENT
<1>3. List.size # NoSize /\ ~OutOfBounds(words, List) /\ ~OutOfBounds(words, ToContent)
  BY <1>2 DEF NoSize, OutOfBounds, Framed
<1>4. HasFrame(t, words)
  BY <1>1, <1>2, <1>3 DEF HasFrame
<1>5. InEffect(t.frame, FirstFrame(t, words), "audio_frame") <=> words[3][0] = 0
  BY FrameSeen DEF InEffect, Known, Told, Framed
<1> QED BY <1>1, <1>3, <1>4, <1>5

LEMMA AudioReached ==
  ASSUME NEW t, Known(t), NEW words, Framed(words), Leads(words)
  PROVE  /\ ReachesBytes(t, words) <=> HasBytes(words)
         /\ ShownAudio(t, words) = Seen(words)
<1>1. Bytes_of(t, words) = words[7] /\ Pts(t, words) = words[8]
  BY AudioSeen DEF Framed
<1>2. /\ BYTES # Null /\ BYTES.at = 10 /\ BYTES.size = [data |-> 8, pointers |-> 0]
      /\ ToPts # Null /\ ToPts.at = 9 /\ ToPts.size = [data |-> 4, pointers |-> 0]
  BY NullAssumption, Sizes DEF BYTES, ToPts, PointerTo, DATA, PTS
<1>3. ReachesPts(t, words) <=> HasPts(words)
  BY <1>1, <1>2 DEF ReachesPts, OutOfBounds, HasPts, Framed, Leads
<1>4. ReachesBytes(t, words) <=> HasBytes(words)
  BY <1>1, <1>2, <1>3 DEF ReachesBytes, OutOfBounds, HasBytes, HasPts, Framed, Leads
<1> DEFINE r == Follow(words, words[8])
           time(n) == IF ~HasPts(words) THEN None ELSE IF words[8] = Null THEN number32(0) ELSE n
           byte(w) == IF ~HasBytes(words) THEN None ELSE IF words[7] = Null THEN NoBytes ELSE w
<1>5. /\ (IF ReachesPts(t, words) THEN get(t.rational, r, "num") ELSE None) = time(Num(words[9], 0))
      /\ (IF ReachesPts(t, words) THEN get(t.rational, r, "den") ELSE None) = time(Num(words[9], 2))
  BY <1>2, <1>3, PtsSeen DEF Leads
<1>6. Byte(t, words, 0) = byte(words[10]) /\ Byte(t, words, 1) = byte(words[11])
  <2>1. BYTES.at + 0 = 10 /\ BYTES.at + 1 = 11
    BY <1>2
  <2> QED BY <1>1, <1>2, <1>4, <2>1 DEF Byte, Leads
<1>7. /\ get(t.audio_frame, Audio(t, words), "channels") = Lane(words[5][2])
      /\ get(t.audio_frame, Audio(t, words), "stream_id") = Num(words[6], 0)
  BY AudioSeen DEF Framed
<1>8. ShownAudio(t, words) =
        [stream_id |-> Num(words[6], 0), channels |-> Lane(words[5][2]),
         num |-> time(Num(words[9], 0)), den |-> time(Num(words[9], 2)),
         first |-> byte(words[10]), last |-> byte(words[11])]
  BY <1>1, <1>5, <1>6, <1>7, Zenon DEF ShownAudio
<1>9. ShownAudio(t, words) = Seen(words)
  BY <1>8, Zenon DEF Seen
<1> QED BY <1>4, <1>9

LEMMA ExitFields == \A code, x : Exit(code, x).exit = code /\ Exit(code, x).shown = x
  BY DEF Exit

\* Nothing is shown of a message that has no audio frame.
LEMMA NoAudioResult ==
  ASSUME pc = "shown", reader \in {"rust", "go", "py"},
         \A t : Known(t) => \/ ~HasFrame(t, got)
                            \/ ~InEffect(t.frame, FirstFrame(t, got), "audio_frame")
  PROVE  result.shown = None
<1>1. CASE reader = "rust"
  <2>1. \E code : frames_main(got) = Exit(code, None)
    BY Tables DEF frames_main
  <2> QED BY <1>1, <2>1, ExitFields DEF result
<1>2. CASE reader = "go"
  <2>1. \E code : doFrames(got) = Exit(code, None)
    BY Tables DEF doFrames
  <2> QED BY <1>2, <2>1, ExitFields DEF result
<1>3. CASE reader = "py"
  <2>1. \E code : readData(got) = Exit(code, None)
    BY Tables DEF readData
  <2> QED BY <1>3, <2>1, ExitFields DEF result
<1> QED BY <1>1, <1>2, <1>3

\* What is printed of an audio frame is what was seen of it.
Tells(s) ==
  /\ result.shown.channels = s.channels
  /\ result.shown.stream_id = IF reader = "py" THEN None ELSE s.stream_id
  /\ Has(result.shown.num, s.num) /\ Has(result.shown.den, s.den)
  /\ Has(result.shown.first, s.first) /\ Has(result.shown.last, s.last)

LEMMA AudioResult ==
  ASSUME pc = "shown", reader \in {"rust", "go", "py"}, Framed(got), Leads(got),
         got[3][0] = 0
  PROVE  /\ result.shown = None \/ Tells(Seen(got))
         /\ result.shown # None /\ result.exit = 0 => HasBytes(got)
         /\ HasBytes(got) /\ Seen(got).den # number32(0) => result.exit = 0 /\ Tells(Seen(got))
<1> DEFINE s == Seen(got)
<1>1. \A t : Known(t) =>
        /\ HasFrame(t, got) /\ ~OutOfBounds(got, Content(t, got))
        /\ InEffect(t.frame, FirstFrame(t, got), "audio_frame")
        /\ ReachesBytes(t, got) <=> HasBytes(got)
        /\ ShownAudio(t, got) = s
  BY FrameReached, AudioReached
<1>2. DOMAIN s = {"stream_id", "channels", "num", "den", "first", "last"}
  BY DEF Seen
<1> HIDE DEF s
<1>3. CASE reader = "rust"
  <2>1. frames_main(got) = Exit(IF HasBytes(got) THEN 0 ELSE 101, s)
    BY <1>1, Tables DEF frames_main
  <2>2. result.exit = (IF HasBytes(got) THEN 0 ELSE 101) /\ result.shown = s
    BY <1>3, <2>1, ExitFields DEF result
  <2> QED BY <1>3, <2>2 DEF Tells, Has, s
<1>4. CASE reader = "go"
  <2>1. doFrames(got) = Exit(0, IF HasBytes(got) THEN s ELSE None)
    BY <1>1, Tables DEF doFrames
  <2>2. result.exit = 0 /\ result.shown = IF HasBytes(got) THEN s ELSE None
    BY <1>4, <2>1, ExitFields DEF result
  <2> QED BY <1>4, <2>2 DEF Tells, Has, s
<1>5. CASE reader = "py"
  <2> DEFINE u == [s EXCEPT !.stream_id = None]
             x == [u EXCEPT !.num = None, !.den = None, !.first = None, !.last = None]
  <2>1. /\ u.den = s.den /\ u.num = s.num /\ u.channels = s.channels /\ u.stream_id = None
        /\ u.first = s.first /\ u.last = s.last
        /\ DOMAIN u = {"stream_id", "channels", "num", "den", "first", "last"}
    BY <1>2
  <2>2. readData(got) = IF u.den = number32(0) THEN Exit(1, x)
                        ELSE Exit(IF HasBytes(got) THEN 0 ELSE 1, u)
    <3>1. /\ HasFrame(FramesStructs, got) /\ ~OutOfBounds(got, Content(FramesStructs, got))
          /\ InEffect(FramesStructs.frame, FirstFrame(FramesStructs, got), "audio_frame")
          /\ ReachesBytes(FramesStructs, got) <=> HasBytes(got)
          /\ ShownAudio(FramesStructs, got) = s
      BY <1>1, Tables
    <3>2. readData(got) = IF u.den = number32(0) THEN Exit(1, x)
                          ELSE Exit(IF ReachesBytes(FramesStructs, got) THEN 0 ELSE 1, u)
      BY <3>1, Zenon DEF readData
    <3> QED BY <3>1, <3>2, Zenon
  <2> HIDE DEF u
  <2>3. /\ x.channels = s.channels /\ x.stream_id = None /\ x.num = None /\ x.den = None
        /\ x.first = None /\ x.last = None
    BY <2>1
  <2> HIDE DEF x
  <2>4. CASE s.den = number32(0)
    <3>1. result.exit = 1 /\ result.shown = x
      BY <1>5, <2>1, <2>2, <2>4, ExitFields DEF result
    <3> QED BY <1>5, <2>3, <2>4, <3>1 DEF Tells, Has, s
  <2>5. CASE s.den # number32(0)
    <3>1. result.exit = (IF HasBytes(got) THEN 0 ELSE 1) /\ result.shown = u
      BY <1>5, <2>1, <2>2, <2>5, ExitFields DEF result
    <3> QED BY <1>5, <2>1, <3>1 DEF Tells, Has, s
  <2> QED BY <2>4, <2>5
<1> QED BY <1>3, <1>4, <1>5

-------------------------------------------------------------------------------
(* What is shown when frames are mixed *)

\* The file of a run of doWrite or, for 0, what was there before.
Version(n) == IF n = 0 THEN Left[found] ELSE Written(n)

There(n) == n = 0 => found # "nothing"

TypeOK ==
  /\ writes \in 0 .. MaxWrites /\ found \in DOMAIN Left \cup {"nothing"}
  /\ reader \in {"rust", "go", "py"} /\ pc \in {"start", "read", "shown", "failed"}
  /\ torn \in BOOLEAN

LEMMA Versions ==
  ASSUME TypeOK, NEW n \in Nat, There(n)
  PROVE  \/ (n > 0 \/ found = "earlier") /\ Full(Version(n), Contents(n))
         \/ n = 0 /\ found = "unset" /\ Bare(Version(n)) /\ Contents(n) = LeftAudio["unset"]
         \/ n = 0 /\ found \in {"video", "strange"} /\ Foreign(Version(n))
         \/ n = 0 /\ found = "empty" /\ Empty(Version(n))
<1>1. CASE n > 0
  BY <1>1, AudioFull DEF Version, Written, Contents
<1>2. CASE n = 0
  <2>1. found \in {"earlier", "unset", "empty", "video", "strange"} /\ Version(n) = Left[found]
    BY <1>2, LeftWords DEF TypeOK, There, Version
  <2>2. found \in {"earlier", "unset"} => Contents(n) = LeftAudio[found]
    <3>1. DOMAIN LeftAudio = {"earlier", "unset"}
      BY DEF LeftAudio
    <3> QED BY <1>2, <3>1 DEF Contents
  <2> QED BY <1>2, <2>1, <2>2, LeftWords
<1> QED BY <1>1, <1>2

\* Word k was read from the file of run v[k], and later ones from no older file.
Aged(g, v, w) ==
  /\ v \in [1 .. Len(g) -> 0 .. w]
  /\ \A i, j \in 1 .. Len(g) : i <= j => v[i] <= v[j]
  /\ \A k \in 1 .. Len(g) :
       There(v[k]) /\ k <= Len(Version(v[k])) /\ g[k] = Version(v[k])[k]

\* No frame is reached in a message that ends after the root.
LEMMA EmptyResult ==
  ASSUME pc = "shown", reader \in {"rust", "go", "py"},
         got[1] = 2, got[2] \in {List, PointerTo(FRAME, NoSize)}
  PROVE  result.shown = None
<1>1. List # Null /\ List.at = 3 /\ List.size = [data |-> 4, pointers |-> 1]
  BY NullAssumption, Sizes DEF List, PointerTo, FRAME
<1>2. OutOfBounds(got, List) /\ PointerTo(FRAME, NoSize).size = NoSize
  BY <1>1 DEF OutOfBounds, PointerTo
<1>3. \A t : Known(t) => ~HasFrame(t, got)
  BY <1>2, ListSeen DEF HasFrame
<1> QED BY <1>3, NoAudioResult

\* The numbers of the runs are shown.
LEMMA ShowsTold ==
  ASSUME NEW s, Tells(s), NEW a, NEW b, NEW c, NEW d, NEW e,
         s.channels = Lane(Contents(a).channels),
         s.stream_id = number32(Contents(b).stream_id),
         s.num = number32(Contents(c).num), s.den = number32(Contents(c).den),
         s.first = Contents(d).data, s.last = Contents(e).data
  PROVE  ShowsOf(a, b, c, d, e)
  BY DEF Tells, ShowsOf, Has

LEMMA MixedSane ==
  ASSUME TypeOK, writes \in Nat, pc = "shown", Len(got) \in Nat, Len(got) >= 1, Len(got) >= got[1],
         NEW v, Aged(got, v, writes), result.shown # None
  PROVE  \E a \in 0 .. writes : \E b \in a .. writes : \E c \in b .. writes :
           \E d \in c .. writes : \E e \in d .. writes : ShowsOf(a, b, c, d, e)
<1>1. /\ reader \in {"rust", "go", "py"} /\ \A k \in 1 .. Len(got) : v[k] \in 0 .. writes
      /\ \A i, j \in 1 .. Len(got) : i <= j => v[i] <= v[j]
  BY DEF TypeOK, Aged
<1>2. ASSUME NEW k \in 1 .. Len(got)
      PROVE  LET w == Version(v[k])
             IN  /\ k <= Len(w) /\ got[k] = w[k]
                 /\ \/ (v[k] > 0 \/ found = "earlier") /\ Full(w, Contents(v[k]))
                    \/ v[k] = 0 /\ found = "unset" /\ Bare(w) /\ Contents(v[k]) = LeftAudio["unset"]
                    \/ v[k] = 0 /\ found \in {"video", "strange"} /\ Foreign(w)
                    \/ v[k] = 0 /\ found = "empty" /\ Empty(w)
  BY <1>1, <1>2, Versions DEF Aged
<1>3. /\ got[1] = 2 => v[1] = 0 /\ found = "empty"
      /\ got[1] = 8 => v[1] = 0 /\ found \in {"unset", "video", "strange"}
      /\ got[1] = 11 => v[1] > 0 \/ found = "earlier"
      /\ got[1] \in {2, 8, 11}
  <2>1. 1 \in 1 .. Len(got)
    OBVIOUS
  <2>2. v[1] \in Nat
    BY <1>1, <2>1
  <2> QED BY <1>2, <2>1, <2>2 DEF Full, Bare, Foreign, Empty
<1>4. got[1] # 2
  <2> SUFFICES ASSUME got[1] = 2 PROVE FALSE
    OBVIOUS
  <2>1. got[2] \in {List, PointerTo(FRAME, NoSize)}
    <3>1. 2 \in 1 .. Len(got)
      OBVIOUS
    <3> QED BY <1>2, <3>1 DEF Full, Bare, Foreign, Empty
  <2> QED BY <1>1, <2>1, EmptyResult
<1>5. /\ got[1] \in {8, 11} /\ Len(got) >= 8
      /\ \A k \in 1 .. Len(got) : v[k] = 0 => v[1] = 0
  <2>1. 1 \in 1 .. Len(got)
    OBVIOUS
  <2> QED BY <1>1, <1>3, <1>4, <2>1
<1>6. ASSUME NEW k \in 1 .. Len(got), v[k] = 0 PROVE found # "empty"
  BY <1>2, <1>3, <1>5, <1>6
<1>7. Framed(got)
  <2>1. 2 \in 1 .. Len(got) /\ 4 \in 1 .. Len(got)
    BY <1>5
  <2>2. got[2] = List /\ got[4] = ToContent
    BY <1>2, <1>6, <2>1 DEF Full, Bare, Foreign
  <2> QED BY <1>5, <2>2 DEF Framed
<1>8. got[3][0] = 0
  BY <1>1, <1>7, FrameReached, NoAudioResult
<1>9. 3 \in 1 .. Len(got) /\ (v[3] = 0 => found \in {"earlier", "unset"})
  <2>1. 3 \in 1 .. Len(got)
    BY <1>5
  <2> QED BY <1>2, <1>6, <1>8, <2>1 DEF Foreign
<1>10. ASSUME NEW k \in 3 .. Len(got)
       PROVE  LET w == Version(v[k])
              IN  /\ k \in 1 .. Len(got) /\ k <= Len(w) /\ got[k] = w[k]
                  /\ \/ (v[k] > 0 \/ found = "earlier") /\ Full(w, Contents(v[k]))
                     \/ v[k] = 0 /\ found = "unset" /\ Bare(w)
                        /\ Contents(v[k]) = LeftAudio["unset"]
  <2>1. k \in 1 .. Len(got)
    OBVIOUS
  <2>2. v[k] = 0 => v[3] = 0
    BY <1>1, <1>9, <2>1
  <2> QED BY <1>2, <1>9, <2>1, <2>2
<1>11. /\ LeftAudio["unset"].channels = 0 /\ LeftAudio["unset"].stream_id = 0
       /\ LeftAudio["unset"].num = 0 /\ LeftAudio["unset"].den = 0
       /\ LeftAudio["unset"].data = NoBytes
  BY DEF LeftAudio
<1>12. got[5][2] = Contents(v[5]).channels
  <2>1. 5 \in 3 .. Len(got)
    BY <1>5
  <2> QED BY <1>10, <1>11, <2>1 DEF Full, Bare
<1>13. Num(got[6], 0) = number32(Contents(v[6]).stream_id)
  <2>1. 6 \in 3 .. Len(got)
    BY <1>5
  <2>2. got[6][0] = Contents(v[6]).stream_id /\ got[6][1] = 0
    BY <1>10, <1>11, <2>1 DEF Full, Bare
  <2> QED BY <2>2, NumReads
<1>14. /\ got[7] = IF v[7] > 0 \/ found = "earlier" THEN BYTES ELSE Null
       /\ got[8] = IF v[8] > 0 \/ found = "earlier" THEN ToPts ELSE Null
  <2>1. 7 \in 3 .. Len(got) /\ 8 \in 3 .. Len(got)
    BY <1>5
  <2>2. /\ \A w, a : Full(w, a) => w[7] = BYTES /\ w[8] = ToPts
        /\ \A w : Bare(w) => w[7] = Null /\ w[8] = Null
    BY DEF Full, Bare
  <2>3. got[7] = IF v[7] > 0 \/ found = "earlier" THEN BYTES ELSE Null
    BY <1>10, <2>1, <2>2
  <2>4. got[8] = IF v[8] > 0 \/ found = "earlier" THEN ToPts ELSE Null
    BY <1>10, <2>1, <2>2
  <2> QED BY <2>3, <2>4
<1>15. Leads(got)
  BY <1>14 DEF Leads
<1> DEFINE s == Seen(got)
<1>16. /\ Tells(s) /\ (result.exit = 0 => HasBytes(got))
       /\ s.channels = Lane(Contents(v[5]).channels)
       /\ s.stream_id = number32(Contents(v[6]).stream_id)
  <2>1. Tells(s) /\ (result.exit = 0 => HasBytes(got))
    BY <1>1, <1>7, <1>8, <1>15, AudioResult
  <2>2. s.channels = Lane(got[5][2]) /\ s.stream_id = Num(got[6], 0)
    BY DEF Seen
  <2> QED BY <1>12, <1>13, <2>1, <2>2
<1>17. ToPts # Null /\ BYTES # Null
  BY NullAssumption DEF ToPts
<1>18. CASE got[1] = 11
  <2>1. \A k \in {5, 6, 9, 10, 11} : k \in 3 .. Len(got) /\ k \in 1 .. Len(got)
    BY <1>18
  <2>2. ASSUME NEW k \in {5, 6, 9, 10, 11}
        PROVE  Full(Version(v[k]), Contents(v[k])) /\ got[k] = Version(v[k])[k]
    <3>1. k \in 3 .. Len(got) /\ (v[k] = 0 => found = "earlier")
      BY <1>3, <1>5, <1>18, <2>1
    <3>2. ~(v[k] = 0 /\ found = "unset")
      BY <3>1
    <3> QED BY <1>10, <3>1, <3>2
  <2>3. Num(got[9], 0) = number32(Contents(v[9]).num) /\ Num(got[9], 2) = number32(Contents(v[9]).den)
    <3>1. /\ got[9][0] = Contents(v[9]).num /\ got[9][1] = 0
          /\ got[9][2] = Contents(v[9]).den /\ got[9][3] = 0
      BY <2>2 DEF Full
    <3>2. 2 + 1 = 3 /\ 0 + 1 = 1
      OBVIOUS
    <3> QED BY <3>1, <3>2, NumReads
  <2>4. got[10] = Contents(v[10]).data /\ got[11] = Contents(v[11]).data
    BY <2>2 DEF Full
  <2>5. 7 \in 1 .. Len(got) /\ 8 \in 1 .. Len(got)
    BY <1>5
  <2>6. got[7] = BYTES /\ got[8] = ToPts
    BY <1>1, <1>3, <1>5, <1>14, <1>18, <2>5
  <2>7. HasPts(got) /\ HasBytes(got)
    BY <1>18 DEF HasPts, HasBytes
  <2>8. /\ s.num = Num(got[9], 0) /\ s.den = Num(got[9], 2)
        /\ s.first = got[10] /\ s.last = got[11]
    BY <1>17, <2>6, <2>7 DEF Seen
  <2> HIDE DEF s
  <2>9. ShowsOf(v[5], v[6], v[9], v[10], v[11])
    BY <1>16, <2>3, <2>4, <2>8, ShowsTold
  <2>10. /\ v[5] \in 0 .. writes /\ v[6] \in v[5] .. writes /\ v[9] \in v[6] .. writes
         /\ v[10] \in v[9] .. writes /\ v[11] \in v[10] .. writes
    BY <1>1, <2>1
  <2> QED BY <2>9, <2>10
<1>19. CASE got[1] = 8 /\ v[8] = 0
  <2>1. found = "unset"
    <3>1. 8 \in 3 .. Len(got)
      BY <1>5
    <3> QED BY <1>3, <1>10, <1>19, <3>1
  <2>2. v[5] = 0 /\ v[6] = 0 /\ v[7] = 0
    <3>1. 5 \in 1 .. Len(got) /\ 6 \in 1 .. Len(got) /\ 7 \in 1 .. Len(got) /\ 8 \in 1 .. Len(got)
      BY <1>5
    <3> QED BY <1>1, <1>19, <3>1
  <2>3. got[7] = Null /\ got[8] = Null
    BY <1>14, <1>19, <2>1, <2>2
  <2>4. HasPts(got) /\ HasBytes(got)
    BY <2>3 DEF HasPts, HasBytes
  <2>5. /\ s.num = number32(0) /\ s.den = number32(0)
        /\ s.first = NoBytes /\ s.last = NoBytes
    BY <2>3, <2>4 DEF Seen
  <2>6. Contents(0) = LeftAudio["unset"]
    <3>1. 5 \in 3 .. Len(got)
      BY <1>5
    <3> QED BY <1>10, <2>1, <2>2, <3>1
  <2> HIDE DEF s
  <2>7. ShowsOf(0, 0, 0, 0, 0)
    BY <1>11, <1>16, <2>2, <2>5, <2>6, ShowsTold
  <2> QED BY <2>7
<1>20. CASE got[1] = 8 /\ v[8] # 0
  <2>1. 5 \in 1 .. Len(got) /\ 6 \in 1 .. Len(got) /\ 8 \in 1 .. Len(got)
    BY <1>5
  <2>2. got[8] = ToPts
    BY <1>1, <1>14, <1>20, <2>1
  <2>3. ~HasPts(got) /\ ~HasBytes(got)
    BY <1>17, <1>20, <2>2 DEF HasPts, HasBytes
  <2>4. s.num = None /\ s.den = None /\ s.first = None /\ s.last = None
    BY <2>3 DEF Seen
  <2> HIDE DEF s
  <2>5. result.exit # 0
    BY <1>16, <2>3
  <2>6. ShowsOf(v[5], v[6], writes, writes, writes)
    BY <1>16, <2>4, <2>5 DEF Tells, ShowsOf, Has
  <2>7. v[5] \in 0 .. writes /\ v[6] \in v[5] .. writes /\ writes \in v[6] .. writes
    BY <1>1, <2>1
  <2>8. writes \in writes .. writes
    OBVIOUS
  <2> QED BY <2>6, <2>7, <2>8
<1> QED BY <1>5, <1>18, <1>19, <1>20

-------------------------------------------------------------------------------
(* The inductive invariant *)

AllWords ==
  {Written(n)[k] : n \in 1 .. MaxWrites, k \in 1 .. 11}
    \cup {Left[f][k] : f \in DOMAIN Left, k \in 1 .. 11}

\* p is the beginning of q.
Begins(p, q) ==
  p \in Seq(AllWords) /\ Len(p) <= Len(q) /\ \A k \in 1 .. Len(p) : p[k] = q[k]

\* The file is that of the last run, as far as it has come.
Holds == There(writes) /\ Begins(file, Version(writes))

FileInv == (file = None /\ writing = None /\ pc # "read") \/ Holds

WritingInv == writing # None => writes >= 1 /\ writing = Written(writes) /\ Holds /\ Len(file) < 11

GotInv == got \in Seq(AllWords) /\ \E v : Aged(got, v, writes)

\* What an undisturbed reader has read is the beginning of the file it opened, and
\* one that has failed did not open a file that doWrite had finished.
ReadingInv ==
  /\ pc = "start" => began = None /\ got = <<>>
  /\ pc = "read" => Holds
  /\ pc = "read" /\ ~torn => file = began
  /\ pc \in {"read", "shown"} /\ ~torn => Begins(got, began)
  /\ pc = "shown" => Whole(got)
  /\ pc = "failed" /\ ~torn => \A n \in 1 .. MaxWrites : began # Written(n)

IInv == TypeOK /\ FileInv /\ WritingInv /\ GotInv /\ ReadingInv

\* Steps leave alone what was there before.
LEMMA SameVersions ==
  ASSUME found' = found
  PROVE  \A n : Version(n)' = Version(n) /\ (There(n)' <=> There(n))
  BY DEF Version, There

LEMMA LengthOfVersion ==
  ASSUME TypeOK, NEW n \in Nat, There(n)
  PROVE  /\ Len(Version(n)) \in 2 .. 11 /\ Version(n)[1] = Len(Version(n))
         /\ n > 0 => Len(Version(n)) = 11
<1>1. \A w, a : Full(w, a) => Len(w) = 11 /\ w[1] = 11
  BY DEF Full
<1>2. \A w : Bare(w) \/ Foreign(w) => Len(w) = 8 /\ w[1] = 8
  BY DEF Bare, Foreign
<1>3. \A w : Empty(w) => Len(w) = 2 /\ w[1] = 2
  BY DEF Empty
<1> DEFINE w == Version(n)
<1>4. Full(w, Contents(n)) \/ (n = 0 /\ (Bare(w) \/ Foreign(w) \/ Empty(w)))
  BY Versions
<1> HIDE DEF w
<1>5. \/ Len(w) = 11 /\ w[1] = 11
      \/ n = 0 /\ Len(w) = 8 /\ w[1] = 8
      \/ n = 0 /\ Len(w) = 2 /\ w[1] = 2
  BY <1>1, <1>2, <1>3, <1>4, Zenon
<1>6. \A m : m = 11 \/ m = 8 \/ m = 2 => m \in 2 .. 11
  OBVIOUS
<1>7. Len(w) \in 2 .. 11
  BY <1>5, <1>6, Zenon
<1>8. w[1] = Len(w)
  <2>1. CASE Len(w) = 11 /\ w[1] = 11
    BY <2>1
  <2>2. CASE Len(w) = 8 /\ w[1] = 8
    BY <2>2
  <2>3. CASE Len(w) = 2 /\ w[1] = 2
    BY <2>3
  <2> QED BY <1>5, <2>1, <2>2, <2>3, Zenon
<1>9. n > 0 => Len(w) = 11
  <2>1. ~ (0 > 0)
    OBVIOUS
  <2> QED BY <1>5, <2>1, Zenon
<1> QED BY <1>7, <1>8, <1>9 DEF w

\* The words of the files there can be.
LEMMA WordsOfVersion ==
  ASSUME TypeOK, NEW n \in 0 .. MaxWrites, There(n), NEW k \in 1 .. Len(Version(n))
  PROVE  Version(n)[k] \in AllWords
<1>1. n \in Nat
  BY MaxWritesAssumption
<1>2. Len(Version(n)) \in 2 .. 11
  BY <1>1, LengthOfVersion
<1>3. k \in 1 .. 11
  <2>1. \A m \in 2 .. 11 : 1 .. m \subseteq 1 .. 11
    OBVIOUS
  <2> QED BY <1>2, <2>1, Zenon
<1>4. CASE n = 0
  <2>1. Version(n) = Left[found] /\ found \in DOMAIN Left
    BY <1>4, Zenon DEF Version, There, TypeOK
  <2> QED BY <1>3, <2>1 DEF AllWords
<1>5. CASE n # 0
  BY <1>3, <1>5, MaxWritesAssumption DEF Version, AllWords
<1> QED BY <1>4, <1>5

\* One more word of q.
LEMMA BeginsMore ==
  ASSUME NEW q, NEW p, Begins(p, q), Len(p) < Len(q), Len(q) \in Nat,
         q[Len(p) + 1] \in AllWords
  PROVE  LET r == Append(p, q[Len(p) + 1])
         IN  /\ Begins(r, q) /\ Len(r) = Len(p) + 1
             /\ \A k \in 1 .. Len(p) : r[k] = p[k]
             /\ r[Len(p) + 1] = q[Len(p) + 1]
<1> DEFINE x == q[Len(p) + 1]
           r == Append(p, x)
<1>1. p \in Seq(AllWords) /\ Len(p) \in Nat /\ x \in AllWords
  BY DEF Begins
<1>2. /\ r \in Seq(AllWords) /\ Len(r) = Len(p) + 1 /\ r[Len(p) + 1] = x
      /\ \A k \in 1 .. Len(p) : r[k] = p[k]
  <2> HIDE DEF x
  <2> QED BY <1>1
<1> HIDE DEF r
<1>3. ASSUME NEW k \in 1 .. Len(r) PROVE r[k] = q[k]
  <2>1. k \in 1 .. Len(p) \/ k = Len(p) + 1
    BY <1>1, <1>2
  <2> QED BY <1>2, <2>1 DEF Begins, x
<1>4. Begins(r, q)
  BY <1>1, <1>2, <1>3 DEF Begins
<1> QED BY <1>2, <1>4 DEF r, x

LEMMA InitInv == Init => IInv
<1> SUFFICES ASSUME Init PROVE IInv
  OBVIOUS
<1>1. /\ writes = 0 /\ writing = None /\ pc = "start" /\ got = <<>> /\ began = None
      /\ MaxWrites \in Nat /\ found \in DOMAIN Left \cup {"nothing"}
      /\ reader \in {"rust", "go", "py"}
  BY MaxWritesAssumption, Zenon DEF Init
<1>2. TypeOK
  <2>1. torn \in BOOLEAN
    BY Zenon DEF Init
  <2>2. writes \in 0 .. MaxWrites
    BY <1>1
  <2> QED BY <1>1, <2>1, <2>2, Zenon DEF TypeOK
<1>3. FileInv
  <2>1. CASE found = "nothing"
    <3>1. file = None
      BY <2>1, Zenon DEF Init
    <3> QED BY <1>1, <3>1 DEF FileInv
  <2>2. CASE found # "nothing"
    <3>1. file = Version(0) /\ found \in DOMAIN Left /\ There(0)
      BY <1>1, <2>2, Zenon DEF Init, Version, There
    <3>2. Len(file) \in 2 .. 11
      BY <1>2, <3>1, LengthOfVersion
    <3>3. Listed(file)
      BY <3>1, LeftWords DEF Version
    <3>4. PICK n \in Nat : file = [k \in 1 .. n |-> file[k]]
      BY <3>3 DEF Listed
    <3>5. Len(file) = n
      BY <3>4
    <3>6. \A k \in 1 .. n : file[k] \in AllWords
      BY <1>1, <1>2, <3>1, <3>5, WordsOfVersion
    <3>7. file \in Seq(AllWords)
      BY <3>4, <3>6
    <3> QED BY <1>1, <3>1, <3>2, <3>7 DEF Holds, Begins, FileInv
  <2> QED BY <2>1, <2>2
<1>4. GotInv
  <2>1. Len(got) = 0 /\ got \in Seq(AllWords)
    BY <1>1
  <2> DEFINE v == [k \in 1 .. 0 |-> 0]
  <2>2. Aged(got, v, writes)
    BY <1>1, <2>1 DEF Aged
  <2> QED BY <2>1, <2>2 DEF GotInv
<1>5. WritingInv /\ ReadingInv
  BY <1>1 DEF WritingInv, ReadingInv
<1> QED BY <1>2, <1>3, <1>4, <1>5 DEF IInv

\* What a reader has read stays what it was, whatever is written afterwards.
LEMMA GotKept ==
  ASSUME GotInv, writes \in Nat, found' = found, got' = got,
         writes' \in Nat, writes' >= writes
  PROVE  GotInv'
<1>1. PICK v : Aged(got, v, writes)
  BY DEF GotInv
<1>2. Aged(got, v, writes)'
  BY <1>1, SameVersions DEF Aged
<1> QED BY <1>2 DEF GotInv

LEMMA doWriteInv == IInv /\ doWrite => IInv'
<1> SUFFICES ASSUME IInv, doWrite PROVE IInv'
  OBVIOUS
<1>1. /\ writes \in Nat /\ MaxWrites \in Nat /\ writes' = writes + 1 /\ writes' \in 0 .. MaxWrites
      /\ file' = <<>> /\ writing' = Written(writes') /\ found' = found
      /\ reader' = reader /\ pc' = pc /\ got' = got /\ began' = began
  BY MaxWritesAssumption DEF IInv, TypeOK, doWrite
<1>2. torn' \in BOOLEAN /\ (pc' = "read" => torn') /\ (~torn' => ~torn)
  BY <1>1 DEF IInv, TypeOK, doWrite, Touched
<1>3. TypeOK'
  BY <1>1, <1>2 DEF IInv, TypeOK
<1>4. There(writes') /\ Len(Version(writes')) = 11
  <2>1. There(writes')
    BY <1>1 DEF There
  <2> QED BY <1>1, <2>1, LengthOfVersion DEF IInv
<1>5. There(writes)' /\ Len(Version(writes)') = 11
  BY <1>1, <1>4 DEF There, Version
<1>6. Holds' /\ Len(file') = 0
  BY <1>1, <1>5 DEF Holds, Begins
<1>7. FileInv' /\ WritingInv'
  BY <1>1, <1>6 DEF FileInv, WritingInv
<1>8. GotInv'
  BY <1>1, GotKept DEF IInv
<1>9. ReadingInv'
  BY <1>1, <1>2, <1>6 DEF IInv, ReadingInv, Whole
<1> QED BY <1>3, <1>7, <1>8, <1>9 DEF IInv

LEMMA WriteWordInv == IInv /\ WriteWord => IInv'
<1> SUFFICES ASSUME IInv, WriteWord PROVE IInv'
  OBVIOUS
<1>1. /\ writes \in Nat /\ writes \in 0 .. MaxWrites /\ MaxWrites \in Nat /\ writes >= 1
      /\ writing = Written(writes) /\ Holds /\ Len(file) < 11
      /\ file' = Append(file, writing[Len(file) + 1])
      /\ writing' = IF Len(file') = Len(writing) THEN None ELSE writing
      /\ found' = found /\ writes' = writes
      /\ reader' = reader /\ pc' = pc /\ got' = got /\ began' = began
  BY MaxWritesAssumption DEF IInv, TypeOK, WritingInv, WriteWord
<1>2. torn' \in BOOLEAN /\ (pc' = "read" => torn') /\ (~torn' => ~torn)
  BY <1>1 DEF IInv, TypeOK, WriteWord, Touched
<1>3. TypeOK'
  BY <1>1, <1>2 DEF IInv, TypeOK
<1> DEFINE q == Version(writes)
<1>4. q = writing /\ There(writes) /\ Len(q) = 11 /\ Begins(file, q) /\ Len(file) \in Nat
  BY <1>1, LengthOfVersion DEF IInv, Holds, Version, Begins
<1>5. q[Len(file) + 1] \in AllWords
  <2>1. Len(file) + 1 \in 1 .. Len(q)
    BY <1>1, <1>4
  <2> QED BY <1>1, <1>4, <2>1, WordsOfVersion DEF IInv
<1>6. Begins(file', q) /\ Len(file') = Len(file) + 1
  <2> HIDE DEF q
  <2>1. file' = Append(file, q[Len(file) + 1])
    BY <1>1, <1>4
  <2>2. Len(q) \in Nat /\ Len(file) < Len(q) /\ Begins(file, q)
    BY <1>1, <1>4
  <2> DEFINE r == Append(file, q[Len(file) + 1])
  <2>3. Begins(r, q) /\ Len(r) = Len(file) + 1
    BY <1>5, <2>2, BeginsMore
  <2> QED BY <2>1, <2>3
<1>7. Holds'
  <2>1. Version(writes)' = q /\ There(writes)'
    BY <1>1, <1>4 DEF Version, There
  <2> HIDE DEF q
  <2> QED BY <1>6, <2>1 DEF Holds, Begins
<1>8. FileInv' /\ WritingInv'
  <2>1. writing' # None => Len(file') < 11
    BY <1>1, <1>4, <1>6
  <2> QED BY <1>1, <1>7, <2>1 DEF FileInv, WritingInv
<1>9. GotInv'
  BY <1>1, GotKept DEF IInv
<1>10. ReadingInv'
  BY <1>1, <1>2, <1>7 DEF IInv, ReadingInv, Whole
<1> QED BY <1>3, <1>8, <1>9, <1>10 DEF IInv

LEMMA OpenInv == IInv /\ Open => IInv'
<1> SUFFICES ASSUME IInv, Open PROVE IInv'
  OBVIOUS
<1>1. /\ writes \in Nat /\ pc = "start" /\ got = <<>> /\ began = None
      /\ file' = file /\ found' = found /\ writes' = writes /\ writing' = writing
      /\ reader' = reader /\ got' = got /\ torn' = torn
      /\ \/ file = None /\ pc' = "failed" /\ began' = None
         \/ file # None /\ pc' = "read" /\ began' = file
  BY MaxWritesAssumption DEF IInv, TypeOK, Open, ReadingInv
<1>2. TypeOK' /\ (Holds' <=> Holds)
  BY <1>1, SameVersions DEF IInv, TypeOK, Holds, Version, There
<1>3. GotInv'
  BY <1>1, GotKept DEF IInv
<1>4. FileInv' /\ WritingInv'
  BY <1>1, <1>2 DEF IInv, FileInv, WritingInv
<1>5. ReadingInv'
  <2>1. CASE pc' = "failed"
    BY <1>1, <2>1, NoneAssumption DEF ReadingInv
  <2>2. CASE pc' = "read"
    <3>1. Holds
      BY <1>1, <2>2 DEF IInv, FileInv
    <3>2. Begins(<<>>, file)
      BY <3>1 DEF Holds, Begins
    <3> QED BY <1>1, <1>2, <2>2, <3>1, <3>2 DEF ReadingInv
  <2> QED BY <1>1, <2>1, <2>2
<1> QED BY <1>2, <1>3, <1>4, <1>5 DEF IInv

\* The word read is that of the run which is the last when it is read.
LEMMA ReadWordInv == IInv /\ ReadWord => IInv'
<1> SUFFICES ASSUME IInv, ReadWord PROVE IInv'
  OBVIOUS
<1> DEFINE x == file[Len(got) + 1]
           q == Version(writes)
<1>1. /\ writes \in Nat /\ writes \in 0 .. MaxWrites /\ MaxWrites \in Nat
      /\ pc = "read" /\ pc' = pc /\ got' = Append(got, x)
      /\ file' = file /\ found' = found /\ writes' = writes /\ writing' = writing
      /\ reader' = reader /\ began' = began /\ torn' = torn
  BY MaxWritesAssumption DEF IInv, TypeOK, ReadWord
<1>2. /\ file \in Seq(AllWords) /\ Len(file) <= Len(q) /\ There(writes)
      /\ \A k \in 1 .. Len(file) : file[k] = q[k]
  BY <1>1 DEF IInv, ReadingInv, Holds, Begins
<1>3. got \in Seq(AllWords) /\ Len(got) \in Nat /\ Len(file) \in Nat /\ Len(got) < Len(file)
  BY <1>2 DEF IInv, GotInv, ReadWord, AtEnd
<1>4. Len(got) + 1 \in 1 .. Len(file) /\ x \in AllWords /\ x = q[Len(got) + 1]
  BY <1>2, <1>3
<1>5. Len(got) + 1 <= Len(q)
  <2>1. Len(q) \in 2 .. 11
    BY <1>1, <1>2, LengthOfVersion DEF IInv
  <2> HIDE DEF q
  <2> QED BY <1>2, <1>3, <2>1
<1>6. /\ got' \in Seq(AllWords) /\ Len(got') = Len(got) + 1 /\ got'[Len(got) + 1] = x
      /\ \A k \in 1 .. Len(got) : got'[k] = got[k]
  <2> HIDE DEF x
  <2> QED BY <1>1, <1>3, <1>4
<1>7. TypeOK' /\ (Holds' <=> Holds)
  BY <1>1, SameVersions DEF IInv, TypeOK, Holds, Version, There
<1>8. FileInv' /\ WritingInv'
  BY <1>1, <1>7 DEF IInv, FileInv, WritingInv
<1>9. GotInv'
  <2>1. PICK v : Aged(got, v, writes)
    BY DEF IInv, GotInv
  <2>2. PICK m \in Nat : m = Len(got) + 1
    BY <1>3
  <2>3. PICK u : u = [k \in 1 .. m |-> IF k = m THEN writes ELSE v[k]]
    OBVIOUS
  <2>4. \A k \in 1 .. Len(got) : v[k] \in 0 .. writes
    BY <2>1 DEF Aged
  <2>5. /\ \A k \in 1 .. m : k = m \/ k \in 1 .. Len(got)
        /\ m \in 1 .. m /\ \A k \in 1 .. Len(got) : k \in 1 .. m /\ k # m
        /\ writes \in 0 .. writes
    BY <1>1, <1>3, <2>2
  <2>6. /\ u \in [1 .. m -> 0 .. writes] /\ u[m] = writes
        /\ \A k \in 1 .. Len(got) : u[k] = v[k] /\ v[k] \in 0 .. writes
    BY <2>3, <2>4, <2>5
  <2>7. \A i, j \in 1 .. m : i <= j => u[i] <= u[j]
    <3> TAKE i, j \in 1 .. m
    <3> HAVE i <= j
    <3>1. CASE j = m
      BY <1>1, <2>6, <3>1
    <3>2. CASE j # m
      <4>1. i \in 1 .. Len(got) /\ j \in 1 .. Len(got)
        BY <1>3, <2>2, <3>2
      <4> QED BY <2>1, <2>6, <4>1 DEF Aged
    <3> QED BY <3>1, <3>2
  <2>8. \A k \in 1 .. m : There(u[k]) /\ k <= Len(Version(u[k])) /\ got'[k] = Version(u[k])[k]
    <3> TAKE k \in 1 .. m
    <3>1. CASE k = m
      BY <1>2, <1>4, <1>5, <1>6, <2>2, <2>6, <3>1
    <3>2. CASE k \in 1 .. Len(got)
      BY <1>6, <2>1, <2>6, <3>2 DEF Aged
    <3> QED BY <2>5, <3>1, <3>2
  <2>9. Aged(got, u, writes)'
    <3> HIDE DEF x, q
    <3>1. Len(got') = m
      BY <1>6, <2>2
    <3>2. \A n : Version(n)' = Version(n) /\ (There(n)' <=> There(n))
      BY <1>1, SameVersions
    <3> QED BY <1>1, <2>6, <2>7, <2>8, <3>1, <3>2 DEF Aged
  <2> QED BY <1>6, <2>9 DEF GotInv
<1>10. ReadingInv'
  <2>1. ~torn => Begins(got', began)
    <3> SUFFICES ASSUME ~torn PROVE Begins(got', began)
      OBVIOUS
    <3>1. began = file /\ Begins(got, file)
      BY <1>1 DEF IInv, ReadingInv
    <3>2. Begins(Append(got, file[Len(got) + 1]), file)
      BY <1>3, <1>4, <3>1, BeginsMore
    <3> QED BY <1>1, <3>1, <3>2
  <2> QED BY <1>1, <1>7, <2>1 DEF IInv, ReadingInv
<1> QED BY <1>7, <1>8, <1>9, <1>10 DEF IInv

\* A file that doWrite has finished does not end before the message does.
LEMMA ReadEndInv == IInv /\ ReadEnd => IInv'
<1> SUFFICES ASSUME IInv, ReadEnd PROVE IInv'
  OBVIOUS
<1>1. /\ writes \in Nat /\ MaxWrites \in Nat /\ pc = "read" /\ pc' = "failed" /\ ~Enough /\ AtEnd
      /\ file' = file /\ found' = found /\ writes' = writes /\ writing' = writing
      /\ reader' = reader /\ got' = got /\ began' = began /\ torn' = torn
  BY MaxWritesAssumption DEF IInv, TypeOK, ReadEnd
<1>2. TypeOK' /\ (Holds' <=> Holds) /\ GotInv'
  BY <1>1, SameVersions, GotKept DEF IInv, TypeOK, Holds, Version, There
<1>3. FileInv' /\ WritingInv'
  BY <1>1, <1>2 DEF IInv, FileInv, WritingInv, ReadingInv
<1>4. ASSUME ~torn, NEW n \in 1 .. MaxWrites, began = Written(n) PROVE FALSE
  <2>1. file = began /\ Begins(got, began) /\ Len(got) >= Len(file)
    BY <1>1, <1>4 DEF IInv, ReadingInv, AtEnd
  <2>2. Len(began) = 11 /\ began[1] = 11
    BY <1>4, AudioFull DEF Written, Full
  <2>3. Len(got) \in Nat /\ Len(got) = 11 /\ got[1] = 11
    <3>1. /\ got \in Seq(AllWords) /\ Len(got) <= 11 /\ Len(got) >= 11
          /\ \A k \in 1 .. Len(got) : got[k] = began[k]
      BY <2>1, <2>2 DEF Begins
    <3>2. Len(got) \in Nat /\ Len(got) = 11
      <4>1. Len(got) \in Nat
        BY <3>1
      <4>2. \A m \in Nat : m <= 11 /\ m >= 11 => m = 11
        OBVIOUS
      <4> QED BY <3>1, <4>1, <4>2, Zenon
    <3>3. 1 \in 1 .. Len(got)
      BY <3>2
    <3> QED BY <2>2, <3>1, <3>2, <3>3
  <2>4. got # <<>>
    BY <2>3
  <2> QED BY <1>1, <2>3, <2>4 DEF Enough, Whole
<1>5. ReadingInv'
  BY <1>1, <1>4 DEF ReadingInv
<1> QED BY <1>2, <1>3, <1>5 DEF IInv

LEMMA ShowInv == IInv /\ Show => IInv'
<1> SUFFICES ASSUME IInv, Show PROVE IInv'
  OBVIOUS
<1>1. /\ writes \in Nat /\ pc = "read" /\ pc' = "shown" /\ Whole(got)
      /\ file' = file /\ found' = found /\ writes' = writes /\ writing' = writing
      /\ reader' = reader /\ got' = got /\ began' = began /\ torn' = torn
  BY MaxWritesAssumption DEF IInv, TypeOK, Show, Enough
<1>2. TypeOK' /\ (Holds' <=> Holds) /\ GotInv'
  BY <1>1, SameVersions, GotKept DEF IInv, TypeOK, Holds, Version, There
<1>3. FileInv' /\ WritingInv'
  BY <1>1, <1>2 DEF IInv, FileInv, WritingInv, ReadingInv
<1>4. ReadingInv'
  BY <1>1 DEF IInv, ReadingInv, Whole
<1> QED BY <1>2, <1>3, <1>4 DEF IInv

LEMMA StepInv == IInv /\ [Next]_vars => IInv'
<1> SUFFICES ASSUME IInv, [Next]_vars PROVE IInv'
  OBVIOUS
<1>1. CASE UNCHANGED vars
  <2>1. /\ file' = file /\ found' = found /\ writes' = writes /\ writing' = writing
        /\ reader' = reader /\ pc' = pc /\ got' = got /\ began' = began /\ torn' = torn
    BY <1>1 DEF vars
  <2>2. writes \in Nat
    BY MaxWritesAssumption DEF IInv, TypeOK
  <2>3. TypeOK' /\ (Holds' <=> Holds) /\ GotInv'
    BY <2>1, <2>2, SameVersions, GotKept DEF IInv, TypeOK, Holds, Version, There
  <2> QED BY <2>1, <2>3 DEF IInv, FileInv, WritingInv, ReadingInv, Whole
<1> QED BY <1>1, doWriteInv, WriteWordInv, OpenInv, ReadWordInv, ReadEndInv, ShowInv
        DEF Next, Read

LEMMA InvHolds == Spec => []IInv
  BY InitInv, StepInv, PTL DEF Spec

-------------------------------------------------------------------------------
(* What follows *)

\* All that an undisturbed reader of a file of doWrite has when it has enough.
LEMMA UndisturbedWords ==
  ASSUME IInv, pc = "shown", ~torn, NEW n \in 1 .. MaxWrites, began = Written(n)
  PROVE  Full(got, Run(n))
<1>1. Begins(got, began) /\ got # <<>> /\ Len(got) >= got[1] /\ got \in Seq(AllWords)
  BY DEF IInv, ReadingInv, Whole, Begins
<1>2. Full(began, Run(n))
  BY AudioFull DEF Written
<1>3. Len(began) = 11 /\ began[1] = 11
  BY <1>2 DEF Full
<1>4. /\ Len(got) \in Nat /\ Len(got) >= 1 /\ Len(got) <= 11
      /\ \A k \in 1 .. Len(got) : got[k] = began[k]
  BY <1>1, <1>3 DEF Begins
<1>5. 1 \in 1 .. Len(got)
  BY <1>4
<1>6. Len(got) = 11
  <2>1. Len(got) >= 11
    BY <1>1, <1>3, <1>4, <1>5
  <2>2. \A m \in Nat : m <= 11 /\ m >= 11 => m = 11
    OBVIOUS
  <2> QED BY <1>4, <2>1, <2>2, Zenon
<1>7. \A k \in 1 .. 11 : got[k] = began[k]
  BY <1>4, <1>6
<1>8. /\ got[1] = began[1] /\ got[2] = began[2] /\ got[3] = began[3] /\ got[4] = began[4]
      /\ got[5] = began[5] /\ got[6] = began[6] /\ got[7] = began[7] /\ got[8] = began[8]
      /\ got[9] = began[9] /\ got[10] = began[10] /\ got[11] = began[11]
  BY <1>7
<1> QED BY <1>2, <1>6, <1>8 DEF Full

LEMMA ReadsRight == IInv => UndisturbedReadsRight
<1> SUFFICES ASSUME IInv, pc \in {"shown", "failed"}, ~torn,
                    NEW n \in 1 .. writes, began = Written(n)
             PROVE  result.exit = 0 /\ ShowsOf(n, n, n, n, n)
  BY DEF UndisturbedReadsRight
<1>1. n \in 1 .. MaxWrites /\ n > 0 /\ reader \in {"rust", "go", "py"}
  BY MaxWritesAssumption DEF IInv, TypeOK
<1>2. pc = "shown"
  BY <1>1 DEF IInv, ReadingInv
<1>3. Full(got, Run(n))
  BY <1>1, <1>2, UndisturbedWords
<1>4. /\ Framed(got) /\ Leads(got) /\ HasPts(got) /\ HasBytes(got) /\ got[3][0] = 0
      /\ got[7] = BYTES /\ got[8] = ToPts
  BY <1>3 DEF Full, Framed, Leads, HasPts, HasBytes
<1>5. BYTES # Null /\ ToPts # Null
  BY NullAssumption DEF ToPts
<1> DEFINE s == Seen(got)
           a == Run(n)
<1>6. /\ s.channels = Lane(got[5][2]) /\ s.stream_id = Num(got[6], 0)
      /\ s.num = Num(got[9], 0) /\ s.den = Num(got[9], 2)
      /\ s.first = got[10] /\ s.last = got[11]
  BY <1>4, <1>5 DEF Seen
<1> HIDE DEF s
<1>7. /\ got[5][2] = a.channels /\ got[6][0] = a.stream_id /\ got[6][1] = 0
      /\ got[9][0] = a.num /\ got[9][1] = 0 /\ got[9][2] = a.den /\ got[9][3] = 0
      /\ got[10] = a.data /\ got[11] = a.data
  BY <1>3 DEF Full
<1>8. a.den = 60
  BY DEF Run
<1> HIDE DEF a
<1>9. /\ Num(got[6], 0) = number32(a.stream_id) /\ Num(got[9], 0) = number32(a.num)
      /\ Num(got[9], 2) = number32(a.den)
  <2>1. 2 + 1 = 3 /\ 0 + 1 = 1
    OBVIOUS
  <2> QED BY <1>7, <2>1, NumReads
<1>10. number32(60) # number32(0)
  <2>1. number32(60)[0] = 60 /\ number32(0)[0] = 0
    BY DEF number32
  <2> QED BY <2>1
<1>11. result.exit = 0 /\ Tells(s)
  BY <1>1, <1>2, <1>4, <1>6, <1>8, <1>9, <1>10, AudioResult DEF s
<1>12. Contents(n) = a
  BY <1>1 DEF Contents, a
<1> QED BY <1>6, <1>7, <1>9, <1>11, <1>12, ShowsTold

LEMMA ReadsSane == IInv => TornReadsSane
<1> SUFFICES ASSUME IInv, pc = "shown", result.shown # None
             PROVE  \E a \in 0 .. writes : \E b \in a .. writes : \E c \in b .. writes :
                      \E d \in c .. writes : \E e \in d .. writes : ShowsOf(a, b, c, d, e)
  BY DEF TornReadsSane
<1>1. PICK v : Aged(got, v, writes)
  BY DEF IInv, GotInv
<1>2. /\ got \in Seq(AllWords) /\ got # <<>> /\ Len(got) >= got[1] /\ TypeOK
      /\ writes \in Nat
  BY MaxWritesAssumption DEF IInv, GotInv, ReadingInv, Whole, TypeOK
<1>3. Len(got) \in Nat /\ Len(got) >= 1
  BY <1>2
<1> QED BY <1>1, <1>2, <1>3, MixedSane

(***************************************************************************)
(* However many runs of doWrite there are: a reader that opens a file that *)
(* one of them has finished, and that no other disturbs, ends well and     *)
(* shows what the run wrote, read with the stubs of its own language.      *)
(***************************************************************************)
THEOREM AlwaysReadsRight == Spec => []UndisturbedReadsRight
  BY InvHolds, ReadsRight, PTL

(***************************************************************************)
(* However many runs of doWrite rewrite the file under a reader, what it   *)
(* shows was written where it lies, nothing is older than what lies before *)
(* it, and what is no audio frame never passes for one.                    *)
(***************************************************************************)
THEOREM AlwaysReadsSane == Spec => []TornReadsSane
  BY InvHolds, ReadsSane, PTL
===============================================================================
