--------------------------- MODULE CalculatorSchema ---------------------------
(***************************************************************************)
(* rust/src/schema/calculator_capnp.rs: one definition per generated       *)
(* module.  A struct module is its size and the place each accessor of its *)
(* Reader and its Builder uses; the rest of it (Owned, the traits that     *)
(* make Readers and Builders from pointers, reborrow, total_size) is the   *)
(* same in all and is what StructBuilder's actions do.  An interface is    *)
(* the method number each request of its Client carries and the method     *)
(* that ServerDispatch runs for each number.                               *)
(***************************************************************************)
EXTENDS StructLayout

Interface(id, requests, dispatch) ==
  [id |-> id, requests |-> requests, dispatch |-> dispatch]

calculator == Interface("97983392df35cc36",
  [evaluate |-> 0, def_function |-> 1, get_operator |-> 2],
  [m \in 0 .. 2 |-> <<"evaluate", "def_function", "get_operator">>[m + 1]])

value == Interface("c3e69d34d3ee48d2", [read |-> 0], [m \in 0 .. 0 |-> "read"])

function == Interface("ede83a3d96840394", [call |-> 0], [m \in 0 .. 0 |-> "call"])

interfaces == [calculator |-> calculator, value |-> value, function |-> function]

(***************************************************************************)
(* Expression: literal and parameter share the first word, previousResult  *)
(* and the group's function the first pointer.  init_call clears both      *)
(* pointers before it hands out the group's builder.                       *)
(***************************************************************************)
call == Struct("rust", STRUCT_SIZE(2, 2),
  [function |-> Pointer(0), params |-> Pointer(1)], [function |-> 0])

ExpressionTags == [literal |-> 0, previous_result |-> 1, parameter |-> 2,
                   function |-> 3, params |-> 3]

init_call == [members |-> FieldNames(call), tag |-> 3, clears |-> TRUE]

expression == Union("rust", STRUCT_SIZE(2, 2),
  [literal |-> Data(F64, 0), previous_result |-> Pointer(0),
   parameter |-> Data(U32, 0),
   function |-> call.fields.function, params |-> call.fields.params],
  NoPipeline, Data(U16, 4), ExpressionTags, init_call)

(***************************************************************************)
(* Parameters and results of the methods.                                  *)
(***************************************************************************)
NoFields == [f \in {} |-> Pointer(0)]

read_params == Struct("rust", STRUCT_SIZE(0, 0), NoFields, NoPipeline)

read_results == Struct("rust", STRUCT_SIZE(1, 0), [value |-> Data(F64, 0)], NoPipeline)

call_params == Struct("rust", STRUCT_SIZE(0, 1), [params |-> Pointer(0)], NoPipeline)

call_results == Struct("rust", STRUCT_SIZE(1, 0), [value |-> Data(F64, 0)], NoPipeline)

OperatorVariantsShort == 3
OperatorVariants == 4

NotInSchema == 0 - 1

from_u16(variants, x) == IF x < variants THEN x ELSE NotInSchema

evaluate_params == Struct("rust", STRUCT_SIZE(0, 1),
  [expression |-> Pointer(0)], [expression |-> 0])

evaluate_results_next == Struct("rust", STRUCT_SIZE(0, 1),
  [value |-> Pointer(0)], [value |-> 1])
evaluate_results == Struct("rust", STRUCT_SIZE(0, 1),
  [value |-> Pointer(0)], [value |-> 0])

def_function_params == Struct("rust", STRUCT_SIZE(1, 1),
  [param_count |-> Data(U32, 0), body |-> Pointer(0)], [body |-> 0])

def_function_results == Struct("rust", STRUCT_SIZE(0, 1),
  [func |-> Pointer(0)], [func |-> 0])

get_operator_params == Struct("rust", STRUCT_SIZE(1, 0),
  [op |-> Enum(Data(U16, 0), OperatorVariants)], NoPipeline)

get_operator_results == Struct("rust", STRUCT_SIZE(0, 1),
  [func |-> Pointer(0)], [func |-> 0])

CalculatorStructs ==
  [expression |-> expression,
   read_params |-> read_params, read_results |-> read_results,
   call_params |-> call_params, call_results |-> call_results,
   evaluate_params |-> evaluate_params, evaluate_results |-> evaluate_results,
   def_function_params |-> def_function_params,
   def_function_results |-> def_function_results,
   get_operator_params |-> get_operator_params,
   get_operator_results |-> get_operator_results]
===============================================================================
