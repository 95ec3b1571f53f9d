-------------------------- MODULE StructLayout_proofs -------------------------
(***************************************************************************)
(* Facts about the accessors of a struct's memory, for any struct and any  *)
(* field.  The proofs about the stubs rest on them.                        *)
(***************************************************************************)
EXTENDS StructLayout, TLAPS

-------------------------------------------------------------------------------
(* Places in memory *)

\* A place as the schemas have them.
IsPlace(f) == /\ f.section \in Sections
              /\ f.start \in Nat /\ f.width \in Nat \ {0}

\* Offsets in bytes and in units of a field's width come to the same places.
LEMMA Offsets ==
  /\ Bytes(U16, 0) = Data(U16, 0) /\ Bytes(U16, 4) = Data(U16, 2)
  /\ Bytes(U16, 8) = Data(U16, 4)
  /\ Bytes(U32, 0) = Data(U32, 0) /\ Bytes(U32, 4) = Data(U32, 1)
  /\ Bytes(U32, 8) = Data(U32, 2) /\ Bytes(U32, 12) = Data(U32, 3)
  /\ Bytes(F64, 0) = Data(F64, 0)
  BY DEF Bytes, Data, U16, U32, F64

(***************************************************************************)
(* set_field changes no section's extent, and only the field's own slots.  *)
(***************************************************************************)
LEMMA SetFieldShape ==
  ASSUME NEW s, DOMAIN s = Sections, NEW f, f.section \in Sections, NEW v
  PROVE  /\ DOMAIN set_field(s, f, v) = Sections
         /\ \A c \in Sections : DOMAIN set_field(s, f, v)[c] = DOMAIN s[c]
         /\ \A c \in Sections : \A j \in DOMAIN s[c] :
              set_field(s, f, v)[c][j] =
                IF c = f.section /\ j \in Slots(f) THEN v[j - f.start] ELSE s[c][j]
  BY DEF set_field

(***************************************************************************)
(* A field reads as it was set.                                            *)
(***************************************************************************)
LEMMA GetSetSame ==
  ASSUME NEW s, DOMAIN s = Sections, NEW f, IsPlace(f),
         Slots(f) \subseteq DOMAIN s[f.section],
         NEW C, NEW v \in [0 .. (f.width - 1) -> C]
  PROVE  get_field(set_field(s, f, v), f) = v
<1> DEFINE u == set_field(s, f, v)
<1>1. DOMAIN u[f.section] = DOMAIN s[f.section]
  BY SetFieldShape DEF IsPlace
<1>2. get_field(u, f) = [k \in 0 .. (f.width - 1) |-> u[f.section][f.start + k]]
  BY <1>1 DEF get_field
<1>3. ASSUME NEW k \in 0 .. (f.width - 1) PROVE u[f.section][f.start + k] = v[k]
  <2>1. f.start + k \in Slots(f) /\ (f.start + k) - f.start = k
    BY DEF Slots, IsPlace
  <2> QED BY <2>1, SetFieldShape DEF IsPlace
<1> HIDE DEF u
<1>4. [k \in 0 .. (f.width - 1) |-> u[f.section][f.start + k]]
        = [k \in 0 .. (f.width - 1) |-> v[k]]
  BY <1>3
<1>5. v = [k \in 0 .. (f.width - 1) |-> v[k]]
  OBVIOUS
<1> QED BY <1>2, <1>4, <1>5 DEF u

(***************************************************************************)
(* A field that does not overlap the one set reads as before.              *)
(***************************************************************************)
LEMMA GetSetOther ==
  ASSUME NEW s, DOMAIN s = Sections, NEW f, IsPlace(f), NEW g, IsPlace(g),
         ~Overlap(f, g), NEW v
  PROVE  get_field(set_field(s, f, v), g) = get_field(s, g)
<1> DEFINE u == set_field(s, f, v)
<1>1. DOMAIN u[g.section] = DOMAIN s[g.section]
  BY SetFieldShape DEF IsPlace
<1>2. CASE Slots(g) \subseteq DOMAIN s[g.section]
  <2>1. ASSUME NEW k \in 0 .. (g.width - 1)
        PROVE  u[g.section][g.start + k] = s[g.section][g.start + k]
    <3>1. g.start + k \in Slots(g)
      BY DEF Slots, IsPlace
    <3>2. ~(g.section = f.section /\ g.start + k \in Slots(f))
      BY <3>1 DEF Overlap
    <3> QED BY <3>1, <3>2, <1>2, SetFieldShape DEF IsPlace
  <2> HIDE DEF u
  <2>2. [k \in 0 .. (g.width - 1) |-> u[g.section][g.start + k]]
          = [k \in 0 .. (g.width - 1) |-> s[g.section][g.start + k]]
    BY <2>1
  <2>3. get_field(u, g) = get_field(s, g)
    BY <2>2, <1>1, <1>2 DEF get_field
  <2> QED BY <2>3 DEF u
<1>3. CASE ~(Slots(g) \subseteq DOMAIN s[g.section])
  <2> HIDE DEF u
  <2>1. get_field(u, g) = get_field(s, g)
    BY <1>1, <1>3 DEF get_field
  <2> QED BY <2>1 DEF u
<1> QED BY <1>2, <1>3

(***************************************************************************)
(* A field of a fresh struct reads as its default.                         *)
(***************************************************************************)
LEMMA FreshReads ==
  ASSUME NEW size, NEW f, IsPlace(f)
  PROVE  get_field(init_struct(size), f) = Default(f)
<1> DEFINE u == init_struct(size)
<1>1. u[f.section] = [j \in 0 .. (size[f.section] - 1) |-> Zero[f.section]]
  BY DEF init_struct, IsPlace
<1> HIDE DEF u
<1>2. CASE Slots(f) \subseteq DOMAIN u[f.section]
  <2>1. ASSUME NEW k \in 0 .. (f.width - 1) PROVE u[f.section][f.start + k] = Zero[f.section]
    <3>1. f.start + k \in Slots(f)
      BY DEF Slots, IsPlace
    <3> QED BY <1>1, <1>2, <3>1
  <2> QED BY <1>2, <2>1 DEF get_field, Default, u
<1>3. CASE ~(Slots(f) \subseteq DOMAIN u[f.section])
  BY <1>3 DEF get_field, u
<1> QED BY <1>2, <1>3
===============================================================================
