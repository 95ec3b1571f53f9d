----------------------------- MODULE StructBuilder ----------------------------
(***************************************************************************)
(* A struct of one of the generated types, built and rebuilt through its   *)
(* Builder: the accessors are called in any order, any number of times, on *)
(* a fresh struct or on one that came in a message.  A message may come    *)
(* from a program built with an older or a newer schema, whose struct is   *)
(* smaller or larger, and whose discriminants may be unknown here.         *)
(*                                                                         *)
(* The stubs of the three languages guard these accessors differently: see *)
(* Borrows, Enlarges and ChecksGroup.                                      *)
(***************************************************************************)
EXTENDS StructLayout

CONSTANTS Types,       \* the generated types
          Numbers,     \* for each width, the numbers that setters are given
          Pointers,    \* the capabilities, lists and structs they are given
          Received     \* the structs a message may hold

\* What a slot of each section may hold.
Contents == [data |-> Lanes, pointers |-> Pointers \cup {Null}]

IsStruct(s) ==
  /\ DOMAIN s = Sections
  /\ \A c \in Sections : DOMAIN s[c] \subseteq Nat /\ s[c] \in [DOMAIN s[c] -> Contents[c]]

Widths == {U16, U32, F64}

ASSUME TypesAssumption ==
  \A t \in Types :
    /\ WellFormed(t)
    /\ \A f \in FieldNames(t) :
         /\ t.fields[f].width \in Widths
         /\ t.fields[f].section = "pointers" => t.fields[f].width = 1
    /\ \A f \in DOMAIN t.tags : t.tags[f] \in Lanes

ASSUME NumbersAssumption ==
  \A w \in Widths : Numbers[w] \subseteq [0 .. (w - 1) -> Lanes]

ASSUME AbsentAssumption ==
  \A w \in Widths : \A c \in Sections : Absent \notin [0 .. (w - 1) -> Contents[c]]

\* No place that the type uses is cut in two.
NoneCut(t, s) ==
  /\ \A f \in FieldNames(t) : Uncut(s, t.fields[f])
  /\ DOMAIN t.tags # {} => Uncut(s, t.which)

ASSUME ReceivedAssumption ==
  \A s \in Received : IsStruct(s) /\ \A t \in Types : NoneCut(t, s)

VARIABLES type,        \* the generated type in use
          op,          \* the accessor called last, with its argument
          mem,         \* the struct's memory
          open,        \* it can be written to: in Rust, a Builder of it exists
          held         \* the program holds an object of the struct's group

vars == <<type, op, mem, open, held>>

\* What the setter of a field takes.
Settable(f) ==
  IF f.section = "pointers" THEN {Lane(p) : p \in Pointers}
  ELSE {v \in Numbers[f.width] : f.variants # 0 => v[0] < f.variants}

Called(name) == [name |-> name]

Init ==
  /\ type \in Types
  /\ op = Called("none")
  /\ mem \in Received
  /\ open = FALSE
  /\ held = FALSE

\* FromPointerBuilder::init_pointer: a struct of the type's size, all zero.
init_pointer ==
  /\ ~open
  /\ mem' = init_struct(type.size)
  /\ open' = TRUE
  /\ op' = Called("init_pointer")
  /\ UNCHANGED <<type, held>>

\* A Builder of what was received, whatever size it has.
get_from_pointer_as_is ==
  /\ ~open
  /\ open' = TRUE
  /\ op' = Called("get_from_pointer")
  /\ UNCHANGED <<type, mem, held>>
\* A Builder of what was received that overwrites it.
get_from_pointer_afresh ==
  /\ ~open
  /\ mem' = [c \in Sections |-> [j \in 0 .. (type.size[c] - 1) |->
               IF j \in DOMAIN mem[c] THEN mem[c][j] ELSE Zero[c]]]
  /\ open' = TRUE
  /\ op' = Called("get_from_pointer")
  /\ UNCHANGED <<type, held>>
\* FromPointerBuilder::get_from_pointer: what is there, large enough to write to;
\* in Go, p.Struct(): what is there.
get_from_pointer ==
  /\ ~open
  /\ mem' = IF Enlarges(type) THEN get_struct(mem, type.size) ELSE mem
  /\ open' = TRUE
  /\ op' = Called("get_from_pointer")
  /\ UNCHANGED <<type, held>>

\* The setter of a group's member is one of the group's object.
Reaches(f) ==
  /\ open
  /\ f \in type.group.members => held

\* In Rust the object of a group ends with the next use of the struct; elsewhere it
\* can be kept, and in TypeScript it follows the pointer to the struct.
LetsGo(kept) == held' = (held /\ (kept \/ ~Borrows(type)))

\* set_ of a field, or init_ of one that is a struct or a list.
Set(f, v) ==
  /\ Reaches(f)
  /\ ~Enlarges(type) => Fits(type, mem, f)
  /\ mem' = set(type, mem, f, v)
  /\ op' = [name |-> "set", field |-> f, value |-> v]
  /\ LetsGo(f \in type.group.members)
  /\ UNCHANGED <<type, open>>

\* In Go, a setter panics that finds its field outside the struct; by then it may
\* have set the discriminant.
SetOutside(f) ==
  /\ Reaches(f)
  /\ ~Enlarges(type) /\ ~Fits(type, mem, f)
  /\ mem' = IF Tags(type, f) /\ Inside(mem, type.which)
              THEN set_field(mem, type.which, Lane(type.tags[f])) ELSE mem
  /\ op' = [name |-> "set_outside", field |-> f]
  /\ open' = FALSE
  /\ UNCHANGED <<type, held>>

\* init_ of the group, which hands out its object.
InitGroup ==
  /\ open
  /\ type.group.members # {}
  /\ ~Enlarges(type) => Inside(mem, type.which)
  /\ mem' = init_group(type, mem)
  /\ op' = Called("init_group")
  /\ held' = TRUE
  /\ UNCHANGED <<type, open>>

InitGroupOutside ==
  /\ open
  /\ type.group.members # {}
  /\ ~Enlarges(type) /\ ~Inside(mem, type.which)
  /\ op' = Called("init_group_outside")
  /\ open' = FALSE
  /\ UNCHANGED <<type, mem, held>>

\* The group's object is got: from which() in Rust, from getCall() in TypeScript,
\* which both look at the discriminant, and from Call() in Go.
GetGroup ==
  /\ open
  /\ type.group.members # {}
  /\ ChecksGroup(type) => which(type, mem) = type.group.tag
  /\ op' = Called("get_group")
  /\ held' = TRUE
  /\ UNCHANGED <<type, mem, open>>

\* The struct is read from, or passed on.
into_reader ==
  /\ open
  /\ open' = FALSE
  /\ op' = Called("into_reader")
  /\ LetsGo(FALSE)
  /\ UNCHANGED <<type, mem>>

Next ==
  \/ init_pointer
  \/ get_from_pointer
  \/ \E f \in FieldNames(type) : \E v \in Settable(type.fields[f]) : Set(f, v)
  \/ \E f \in FieldNames(type) : SetOutside(f)
  \/ InitGroup
  \/ InitGroupOutside
  \/ GetGroup
  \/ into_reader

Spec == Init /\ [][Next]_vars

-------------------------------------------------------------------------------
(***************************************************************************)
(* A struct keeps its shape, and one that a Builder of Rust or an object   *)
(* of TypeScript writes to is at least as large as the type says: their    *)
(* setters, which look at no bounds, reach nothing outside it.             *)
(***************************************************************************)
TypeOK ==
  /\ type \in Types
  /\ open \in BOOLEAN /\ held \in BOOLEAN
  /\ IsStruct(mem)
  /\ open /\ Enlarges(type) =>
       \A c \in Sections : 0 .. (type.size[c] - 1) \subseteq DOMAIN mem[c]

(***************************************************************************)
(* The struct is the record it stands for, to a program that asks for the  *)
(* discriminant first: a field reads as it was last set, whatever else was *)
(* written before or after, a union has one member in effect, enlarging a  *)
(* received struct changes nothing that can be read, and no write is lost  *)
(* in one that was not enlarged.  Only through the object of a group that  *)
(* is out of effect, kept or got unchecked, can a write change another     *)
(* member of the union, and in Rust there is no such object.               *)
(***************************************************************************)
AsRecord == INSTANCE StructRecord WITH record <- Selected(type, mem)

RecordRefined == AsRecord!RecordSpec

\* The places that the type knows of.
Known(t, c) ==
  {j \in 0 .. (t.size[c] - 1) :
     \/ \E f \in FieldNames(t) : t.fields[f].section = c /\ j \in Slots(t.fields[f])
     \/ DOMAIN t.tags # {} /\ c = "data" /\ j \in Slots(t.which)}

(***************************************************************************)
(* What a newer sender put into places that this type does not know stays  *)
(* as it was while the struct is rebuilt, init_pointer excepted.           *)
(***************************************************************************)
UnknownKept ==
  [][op'.name # "init_pointer" =>
       \A c \in Sections : \A j \in DOMAIN mem[c] \ Known(type, c) :
         j \in DOMAIN mem'[c] /\ mem'[c][j] = mem[c][j]]_vars
===============================================================================
