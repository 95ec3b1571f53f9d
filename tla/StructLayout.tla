----------------------------- MODULE StructLayout -----------------------------
(***************************************************************************)
(* What the generated code of rust/src/schema, ts/src/*.capnp.ts and       *)
(* go/*/*.capnp.go relies on: a struct of a Cap'n Proto message is a data  *)
(* section and a pointer section, a field is a fixed place in one of them, *)
(* and the members of a union share places and are told apart by a 16-bit  *)
(* discriminant.                                                           *)
(*                                                                         *)
(* The data section is cut into lanes of 16 bits, the narrowest field the  *)
(* schemas have.  A number of 32 or 64 bits is its 2 or 4 lanes, so that   *)
(* writing one field over part of another shows.                           *)
(***************************************************************************)
EXTENDS Integers

CONSTANTS Null,        \* an empty pointer slot
          Absent       \* what a getter gives that finds another member in effect

Sections == {"data", "pointers"}

\* What a slot holds in a struct that nobody has written to.
Zero == [data |-> 0, pointers |-> Null]

(***************************************************************************)
(* Fields.  The offsets of Rust count in units of the field's own width,   *)
(* those of TypeScript and Go in bytes.                                    *)
(***************************************************************************)
U16 == 1
U32 == 2
F64 == 4

\* What 16 bits may hold.
Lanes == 0 .. 65535

Field(section, start, width, variants) ==
  [section |-> section, start |-> start, width |-> width, variants |-> variants]

Data(width, offset) == Field("data", width * offset, width, 0)

Bytes(width, offset) == Field("data", offset \div 2, width, 0)

Pointer(index) == Field("pointers", index, 1, 0)

\* A number of 16 bits whose setter takes an enumeration of so many variants.
Enum(field, variants) == [field EXCEPT !.variants = variants]

Slots(f) == f.start .. (f.start + f.width - 1)

Overlap(f, g) == f.section = g.section /\ Slots(f) \cap Slots(g) # {}

(***************************************************************************)
(* Sizes: in words and pointers in Rust, in bytes and pointers elsewhere.  *)
(***************************************************************************)
STRUCT_SIZE(words, pointers) == [data |-> 4 * words, pointers |-> pointers]

ObjectSize(bytes, pointers) == [data |-> bytes \div 2, pointers |-> pointers]

(***************************************************************************)
(* A generated struct type: the language of its stub, its size, its fields *)
(* by name, the pointers that its Pipeline follows, where the discriminant *)
(* is and which value of it puts each union member in effect.              *)
(* The members of a group are reached through an object of the group's     *)
(* own, which init_ of the group returns; clears says if it empties them   *)
(* first.                                                                  *)
(***************************************************************************)
NoTags == [f \in {} |-> 0]

NoPipeline == [f \in {} |-> 0]

NoGroup == [members |-> {}, tag |-> 0, clears |-> FALSE]

Struct(lang, size, fields, pipeline) ==
  [lang |-> lang, size |-> size, fields |-> fields, pipeline |-> pipeline,
   which |-> Data(U16, 0), tags |-> NoTags, group |-> NoGroup]

Union(lang, size, fields, pipeline, tag_at, tags, group) ==
  [lang |-> lang, size |-> size, fields |-> fields, pipeline |-> pipeline,
   which |-> tag_at, tags |-> tags, group |-> group]

(***************************************************************************)
(* What the generators do differently.  The builder of a group borrows the *)
(* struct in Rust, so that nothing else writes to it meanwhile; elsewhere  *)
(* a group's object can be kept.  Go takes a received struct as it is and  *)
(* checks the bounds of every access, Rust and TypeScript copy one that is *)
(* too small.  Go gets at a group without a look at the discriminant.      *)
(***************************************************************************)
Borrows(t) == t.lang = "rust"

Enlarges(t) == t.lang # "go"

ChecksGroup(t) == t.lang # "go"

FieldNames(t) == DOMAIN t.fields

IsMember(t, f) == f \in DOMAIN t.tags

\* The fields that are not in effect once f is: the other members of the union.
Excluded(t, f, g) == IsMember(t, f) /\ IsMember(t, g) /\ t.tags[f] # t.tags[g]

(***************************************************************************)
(* A type is well formed when its fields lie inside the struct, clear of   *)
(* the discriminant and of each other, members of one union excepted, and  *)
(* only the members of a group share a value of the discriminant.          *)
(***************************************************************************)
InStruct(t, f) == /\ f.section \in Sections
                  /\ f.start \in Nat /\ f.width \in Nat \ {0}
                  /\ f.start + f.width <= t.size[f.section]

WellFormed(t) ==
  /\ t.size \in [Sections -> Nat]
  /\ \A f \in FieldNames(t) : InStruct(t, t.fields[f])
  /\ \A f, g \in FieldNames(t) :
       f # g /\ ~Excluded(t, f, g) => ~Overlap(t.fields[f], t.fields[g])
  /\ DOMAIN t.tags \subseteq FieldNames(t)
  /\ DOMAIN t.tags # {} =>
       /\ InStruct(t, t.which) /\ t.which.section = "data" /\ t.which.width = U16
       /\ \A f \in FieldNames(t) : ~Overlap(t.fields[f], t.which)
       /\ \A f \in DOMAIN t.tags : t.tags[f] \in Nat
  /\ t.group.members \subseteq DOMAIN t.tags
  /\ \A f \in t.group.members : t.tags[f] = t.group.tag
  /\ \A f, g \in DOMAIN t.tags :
       t.tags[f] = t.tags[g] => f = g \/ {f, g} \subseteq t.group.members

(***************************************************************************)
(* The library's accessors (capnp::private::layout and its like).  A field *)
(* beyond the end of a struct, which came from a sender with an older      *)
(* schema, reads as its default.                                           *)
(***************************************************************************)
Default(f) == [k \in 0 .. (f.width - 1) |-> Zero[f.section]]

\* A struct holds a field in full or not at all: sections are whole words and
\* no field lies across two.
Uncut(s, f) == \/ Slots(f) \subseteq DOMAIN s[f.section]
               \/ Slots(f) \cap DOMAIN s[f.section] = {}

get_field(s, f) ==
  IF Slots(f) \subseteq DOMAIN s[f.section]
    THEN [k \in 0 .. (f.width - 1) |-> s[f.section][f.start + k]]
    ELSE Default(f)

set_field(s, f, v) ==
  [c \in DOMAIN s |->
     [j \in DOMAIN s[c] |->
        IF c = f.section /\ j \in Slots(f) THEN v[j - f.start] ELSE s[c][j]]]

init_struct(size) ==
  [c \in Sections |-> [j \in 0 .. (size[c] - 1) |-> Zero[c]]]

\* A struct smaller than asked for is copied into one that is large enough.
get_struct(s, size) ==
  [c \in Sections |->
     [j \in DOMAIN s[c] \cup 0 .. (size[c] - 1) |->
        IF j \in DOMAIN s[c] THEN s[c][j] ELSE Zero[c]]]

(***************************************************************************)
(* What the generated accessors make of them.                              *)
(***************************************************************************)
Lane(x) == [k \in 0 .. 0 |-> x]

which(t, s) == get_field(s, t.which)[0]

InEffect(t, s, f) == IsMember(t, f) => which(t, s) = t.tags[f]

get(t, s, f) == get_field(s, t.fields[f])

Unchecked(t, f) == f \in t.group.members /\ ~ChecksGroup(t)

\* All that the getters give.
Reading(t, s) ==
  [f \in FieldNames(t) |->
     IF InEffect(t, s, f) \/ Unchecked(t, f) THEN get(t, s, f) ELSE Absent]

\* What they give to a program that asks for the discriminant first, as evaluate
\* in main.go does.
Selected(t, s) ==
  [f \in FieldNames(t) |-> IF InEffect(t, s, f) THEN get(t, s, f) ELSE Absent]

\* set_ and init_ of a union member write the discriminant first; those of a
\* group's member leave it, since init_ of the group has set it.
Tags(t, f) == IsMember(t, f) /\ f \notin t.group.members

set(t, s, f, v) ==
  set_field(IF Tags(t, f) THEN set_field(s, t.which, Lane(t.tags[f])) ELSE s,
            t.fields[f], v)

\* What set writes to lies inside the struct, which Go's library looks at first.
Inside(s, f) == Slots(f) \subseteq DOMAIN s[f.section]

Fits(t, s, f) == Inside(s, t.fields[f]) /\ (Tags(t, f) => Inside(s, t.which))

clear(t, s) ==
  [c \in Sections |->
     [j \in DOMAIN s[c] |->
        IF \E f \in t.group.members :
             t.fields[f].section = c /\ j \in Slots(t.fields[f])
          THEN Zero[c] ELSE s[c][j]]]

\* The group is put in effect with what its members' places held before.
init_group_keeping(t, s) == set_field(s, t.which, Lane(t.group.tag))
init_group(t, s) ==
  LET tagged == set_field(s, t.which, Lane(t.group.tag))
  IN  IF t.group.clears THEN clear(t, tagged) ELSE tagged
===============================================================================
