------------------------------ MODULE StubTables ------------------------------
(***************************************************************************)
(* The stubs that capnpc-ts and capnpc-go generated from the same schemas, *)
(* ts/src/*.capnp.ts and go/*/*.capnp.go, with the offsets as they stand   *)
(* there, in bytes.  Their init of the call group sets the discriminant    *)
(* and leaves the pointers as they are.  Go's promises follow the members  *)
(* of a union and of its group too.                                        *)
(***************************************************************************)
EXTENDS CalculatorSchema, FramesSchema

Call_ts == [members |-> {"function", "params"}, tag |-> 3, clears |-> FALSE]

Call_go == [members |-> {"function", "params"}, tag |-> 3, clears |-> FALSE]

expression_ts ==
  Union("ts", ObjectSize(16, 2),
    [literal |-> Bytes(F64, 0), previous_result |-> Pointer(0),
     parameter |-> Bytes(U32, 0), function |-> Pointer(0), params |-> Pointer(1)],
    NoPipeline, Bytes(U16, 8),
    [literal |-> 0, previous_result |-> 1, parameter |-> 2, function |-> 3,
     params |-> 3], Call_ts)

read_params_ts == Struct("ts", ObjectSize(0, 0), NoFields, NoPipeline)

read_results_ts ==
  Struct("ts", ObjectSize(8, 0), [value |-> Bytes(F64, 0)], NoPipeline)

call_params_ts == Struct("ts", ObjectSize(0, 1), [params |-> Pointer(0)], NoPipeline)

call_results_ts ==
  Struct("ts", ObjectSize(8, 0), [value |-> Bytes(F64, 0)], NoPipeline)

evaluate_params_ts ==
  Struct("ts", ObjectSize(0, 1), [expression |-> Pointer(0)], NoPipeline)

evaluate_results_ts ==
  Struct("ts", ObjectSize(0, 1), [value |-> Pointer(0)], [value |-> 0])

def_function_params_ts ==
  Struct("ts", ObjectSize(8, 1),
    [param_count |-> Bytes(U32, 0), body |-> Pointer(0)], NoPipeline)

def_function_results_ts ==
  Struct("ts", ObjectSize(0, 1), [func |-> Pointer(0)], [func |-> 0])

get_operator_params_ts ==
  Struct("ts", ObjectSize(8, 0), [op |-> Enum(Bytes(U16, 0), 4)], NoPipeline)

get_operator_results_ts ==
  Struct("ts", ObjectSize(0, 1), [func |-> Pointer(0)], [func |-> 0])

CalculatorStructs_ts ==
  [expression |-> expression_ts, read_params |-> read_params_ts,
   read_results |-> read_results_ts, call_params |-> call_params_ts,
   call_results |-> call_results_ts, evaluate_params |-> evaluate_params_ts,
   evaluate_results |-> evaluate_results_ts,
   def_function_params |-> def_function_params_ts,
   def_function_results |-> def_function_results_ts,
   get_operator_params |-> get_operator_params_ts,
   get_operator_results |-> get_operator_results_ts]

expression_go ==
  Union("go", ObjectSize(16, 2),
    [literal |-> Bytes(F64, 0), previous_result |-> Pointer(0),
     parameter |-> Bytes(U32, 0), function |-> Pointer(0), params |-> Pointer(1)],
    [previous_result |-> 0, function |-> 0], Bytes(U16, 8),
    [literal |-> 0, previous_result |-> 1, parameter |-> 2, function |-> 3,
     params |-> 3], Call_go)

read_params_go == Struct("go", ObjectSize(0, 0), NoFields, NoPipeline)

read_results_go ==
  Struct("go", ObjectSize(8, 0), [value |-> Bytes(F64, 0)], NoPipeline)

call_params_go == Struct("go", ObjectSize(0, 1), [params |-> Pointer(0)], NoPipeline)

call_results_go ==
  Struct("go", ObjectSize(8, 0), [value |-> Bytes(F64, 0)], NoPipeline)

evaluate_params_go ==
  Struct("go", ObjectSize(0, 1), [expression |-> Pointer(0)], [expression |-> 0])

evaluate_results_go ==
  Struct("go", ObjectSize(0, 1), [value |-> Pointer(0)], [value |-> 0])

def_function_params_go ==
  Struct("go", ObjectSize(8, 1),
    [param_count |-> Bytes(U32, 0), body |-> Pointer(0)], [body |-> 0])

def_function_results_go ==
  Struct("go", ObjectSize(0, 1), [func |-> Pointer(0)], [func |-> 0])

get_operator_params_go ==
  Struct("go", ObjectSize(8, 0), [op |-> Bytes(U16, 0)], NoPipeline)

get_operator_results_go ==
  Struct("go", ObjectSize(0, 1), [func |-> Pointer(0)], [func |-> 0])

CalculatorStructs_go ==
  [expression |-> expression_go, read_params |-> read_params_go,
   read_results |-> read_results_go, call_params |-> call_params_go,
   call_results |-> call_results_go, evaluate_params |-> evaluate_params_go,
   evaluate_results |-> evaluate_results_go,
   def_function_params |-> def_function_params_go,
   def_function_results |-> def_function_results_go,
   get_operator_params |-> get_operator_params_go,
   get_operator_results |-> get_operator_results_go]

rational_ts ==
  Struct("ts", ObjectSize(8, 0), [num |-> Bytes(U32, 0), den |-> Bytes(U32, 4)],
    NoPipeline)

audio_frame_ts ==
  Struct("ts", ObjectSize(16, 2),
    [num_samples |-> Bytes(U32, 0), channels |-> Bytes(U16, 4), data |-> Pointer(0),
     stream_id |-> Bytes(U32, 8), pts |-> Pointer(1)], NoPipeline)

video_frame_ts ==
  Struct("ts", ObjectSize(16, 2),
    [width |-> Bytes(U32, 0), height |-> Bytes(U32, 4), data |-> Pointer(0),
     pixel_format |-> Enum(Bytes(U16, 8), 1), stream_id |-> Bytes(U32, 12),
     pts |-> Pointer(1)], NoPipeline)

frame_ts ==
  Union("ts", ObjectSize(8, 1),
    [audio_frame |-> Pointer(0), video_frame |-> Pointer(0)], NoPipeline,
    Bytes(U16, 0), [audio_frame |-> 0, video_frame |-> 1], NoGroup)

frames_ts == Struct("ts", ObjectSize(0, 1), [frames |-> Pointer(0)], NoPipeline)

FramesStructs_ts ==
  [rational |-> rational_ts, audio_frame |-> audio_frame_ts,
   video_frame |-> video_frame_ts, frame |-> frame_ts, frames |-> frames_ts]

rational_go ==
  Struct("go", ObjectSize(8, 0), [num |-> Bytes(U32, 0), den |-> Bytes(U32, 4)],
    NoPipeline)

audio_frame_go ==
  Struct("go", ObjectSize(16, 2),
    [num_samples |-> Bytes(U32, 0), channels |-> Bytes(U16, 4), data |-> Pointer(0),
     stream_id |-> Bytes(U32, 8), pts |-> Pointer(1)], [pts |-> 1])

video_frame_go ==
  Struct("go", ObjectSize(16, 2),
    [width |-> Bytes(U32, 0), height |-> Bytes(U32, 4), data |-> Pointer(0),
     pixel_format |-> Bytes(U16, 8), stream_id |-> Bytes(U32, 12),
     pts |-> Pointer(1)], [pts |-> 1])

frame_go ==
  Union("go", ObjectSize(8, 1),
    [audio_frame |-> Pointer(0), video_frame |-> Pointer(0)],
    [audio_frame |-> 0, video_frame |-> 0], Bytes(U16, 0),
    [audio_frame |-> 0, video_frame |-> 1], NoGroup)

frames_go == Struct("go", ObjectSize(0, 1), [frames |-> Pointer(0)], NoPipeline)

FramesStructs_go ==
  [rational |-> rational_go, audio_frame |-> audio_frame_go,
   video_frame |-> video_frame_go, frame |-> frame_go, frames |-> frames_go]

Stubs ==
  [rust |-> [calculator |-> CalculatorStructs, frames |-> FramesStructs],
   ts |-> [calculator |-> CalculatorStructs_ts, frames |-> FramesStructs_ts],
   go |-> [calculator |-> CalculatorStructs_go, frames |-> FramesStructs_go]]
===============================================================================
