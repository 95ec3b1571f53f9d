----------------------------- MODULE FramesSchema -----------------------------
(***************************************************************************)
(* rust/src/schema/frames_capnp.rs: one definition per generated module,   *)
(* as in CalculatorSchema.                                                 *)
(***************************************************************************)
EXTENDS StructLayout

rational == Struct("rust", STRUCT_SIZE(1, 0),
  [num |-> Data(U32, 0), den |-> Data(U32, 1)], NoPipeline)

\* stream_id one place too far.
audio_frame_late == Struct("rust", STRUCT_SIZE(2, 2),
  [num_samples |-> Data(U32, 0), channels |-> Data(U16, 2), data |-> Pointer(0),
   stream_id |-> Data(U32, 3), pts |-> Pointer(1)], [pts |-> 1])
audio_frame == Struct("rust", STRUCT_SIZE(2, 2),
  [num_samples |-> Data(U32, 0), channels |-> Data(U16, 2), data |-> Pointer(0),
   stream_id |-> Data(U32, 2), pts |-> Pointer(1)], [pts |-> 1])

PixelFormatVariants == 1

video_frame == Struct("rust", STRUCT_SIZE(2, 2),
  [width |-> Data(U32, 0), height |-> Data(U32, 1), data |-> Pointer(0),
   pixel_format |-> Enum(Data(U16, 4), PixelFormatVariants),
   stream_id |-> Data(U32, 3), pts |-> Pointer(1)], [pts |-> 1])

frame == Union("rust", STRUCT_SIZE(1, 1),
  [audio_frame |-> Pointer(0), video_frame |-> Pointer(0)], NoPipeline,
  Data(U16, 0), [audio_frame |-> 0, video_frame |-> 1], NoGroup)

frames == Struct("rust", STRUCT_SIZE(0, 1), [frames |-> Pointer(0)], NoPipeline)

FramesStructs ==
  [rational |-> rational, audio_frame |-> audio_frame, video_frame |-> video_frame,
   frame |-> frame, frames |-> frames]
===============================================================================
