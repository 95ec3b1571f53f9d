------------------------- MODULE StructBuilder_proofs -------------------------
(***************************************************************************)
(* Proofs about StructBuilder, for every set of well-formed types, every   *)
(* value that setters may be given and every struct that may be received.  *)
(***************************************************************************)
EXTENDS StubsAgree, StructLayout_proofs

-------------------------------------------------------------------------------
(* Memory and its contents *)

(***************************************************************************)
(* Unwritten memory is of its section's type.                              *)
(***************************************************************************)
LEMMA ZeroTyped == \A c \in Sections : Zero[c] \in Contents[c]
<1>1. Zero["data"] \in Contents["data"]
  BY DEF Zero, Contents, Lanes
<1>2. Zero["pointers"] \in Contents["pointers"]
  BY DEF Zero, Contents
<1> QED BY <1>1, <1>2 DEF Sections

(***************************************************************************)
(* What a getter returns is of the field's type, within the struct or not. *)
(***************************************************************************)
LEMMA GetTyped ==
  ASSUME NEW s, IsStruct(s), NEW f, IsPlace(f)
  PROVE  get_field(s, f) \in [0 .. (f.width - 1) -> Contents[f.section]]
<1>1. Zero[f.section] \in Contents[f.section]
  BY ZeroTyped DEF IsPlace
<1>2. CASE Slots(f) \subseteq DOMAIN s[f.section]
  <2>1. ASSUME NEW k \in 0 .. (f.width - 1)
        PROVE  s[f.section][f.start + k] \in Contents[f.section]
    <3>1. f.start + k \in Slots(f)
      BY DEF Slots, IsPlace
    <3> QED BY <3>1, <1>2 DEF IsStruct, IsPlace
  <2> QED BY <2>1, <1>2 DEF get_field
<1>3. CASE ~(Slots(f) \subseteq DOMAIN s[f.section])
  BY <1>1, <1>3 DEF get_field, Default
<1> QED BY <1>2, <1>3

(***************************************************************************)
(* Setting a field to a value of its type leaves a struct.                 *)
(***************************************************************************)
LEMMA SetFieldStruct ==
  ASSUME NEW s, IsStruct(s), NEW f, IsPlace(f),
         NEW v \in [0 .. (f.width - 1) -> Contents[f.section]]
  PROVE  IsStruct(set_field(s, f, v))
<1> DEFINE u == set_field(s, f, v)
<1>1. DOMAIN s = Sections /\ f.section \in Sections
  BY DEF IsStruct, IsPlace
<1>2. DOMAIN u = Sections /\ \A c \in Sections : DOMAIN u[c] = DOMAIN s[c]
  BY <1>1, SetFieldShape
<1>3. ASSUME NEW c \in Sections PROVE u[c] \in [DOMAIN s[c] -> Contents[c]]
  <2>1. CASE c = f.section
    <3>1. u[c] = [j \in DOMAIN s[c] |-> IF j \in Slots(f) THEN v[j - f.start] ELSE s[c][j]]
      BY <1>1, <2>1 DEF set_field
    <3>2. ASSUME NEW j \in DOMAIN s[c], j \in Slots(f)
          PROVE  v[j - f.start] \in Contents[c]
      <4>1. j - f.start \in 0 .. (f.width - 1)
        BY <3>2 DEF Slots, IsPlace
      <4> QED BY <4>1, <2>1
    <3>3. ASSUME NEW j \in DOMAIN s[c] PROVE s[c][j] \in Contents[c]
      BY DEF IsStruct
    <3> QED BY <3>1, <3>2, <3>3
  <2>2. CASE c # f.section
    <3>1. u[c] = [j \in DOMAIN s[c] |-> s[c][j]]
      BY <1>1, <2>2 DEF set_field
    <3> QED BY <3>1 DEF IsStruct
  <2> QED BY <2>1, <2>2
<1> HIDE DEF u
<1>4. IsStruct(u)
  BY <1>2, <1>3 DEF IsStruct
<1> QED BY <1>4 DEF u

-------------------------------------------------------------------------------
(* Types *)

\* The struct has all the slots of the type.
Roomy(t, s) == \A c \in Sections : 0 .. (t.size[c] - 1) \subseteq DOMAIN s[c]

\* The type has a union.
IsUnion(t) == DOMAIN t.tags # {}

(***************************************************************************)
(* What the proofs use of a type.                                          *)
(***************************************************************************)
LEMMA Places ==
  ASSUME NEW t \in Types
  PROVE  /\ t.size \in [Sections -> Nat]
         /\ \A f \in FieldNames(t) :
              IsPlace(t.fields[f])
              /\ Slots(t.fields[f]) \subseteq 0 .. (t.size[t.fields[f].section] - 1)
         /\ IsUnion(t) =>
              /\ IsPlace(t.which) /\ t.which.section = "data" /\ t.which.width = 1
              /\ Slots(t.which) \subseteq 0 .. (t.size["data"] - 1)
              /\ \A f \in FieldNames(t) : ~Overlap(t.fields[f], t.which)
         /\ \A f \in DOMAIN t.tags : f \in FieldNames(t) /\ t.tags[f] \in Lanes
         /\ \A f, g \in FieldNames(t) :
              f # g /\ ~Excluded(t, f, g) => ~Overlap(t.fields[f], t.fields[g])
<1>1. WellFormed(t)
  BY TypesAssumption
<1>2. ASSUME NEW f, InStruct(t, f)
      PROVE  IsPlace(f) /\ Slots(f) \subseteq 0 .. (t.size[f.section] - 1)
  <2>1. t.size[f.section] \in Nat
    BY <1>1, <1>2 DEF WellFormed, InStruct
  <2> QED BY <1>2, <2>1 DEF InStruct, IsPlace, Slots
<1>3. \A f \in DOMAIN t.tags : t.tags[f] \in Lanes
  BY TypesAssumption
<1> QED BY <1>1, <1>2, <1>3 DEF WellFormed, IsUnion, U16

(***************************************************************************)
(* In a struct with room for the type every place of it is there.          *)
(***************************************************************************)
LEMMA RoomyHolds ==
  ASSUME NEW t \in Types, NEW s, Roomy(t, s)
  PROVE  /\ \A f \in FieldNames(t) :
              Slots(t.fields[f]) \subseteq DOMAIN s[t.fields[f].section]
         /\ IsUnion(t) => Slots(t.which) \subseteq DOMAIN s["data"]
<1>1. ASSUME NEW f \in FieldNames(t)
      PROVE  Slots(t.fields[f]) \subseteq DOMAIN s[t.fields[f].section]
  <2>1. t.fields[f].section \in Sections
    BY Places DEF IsPlace
  <2> QED BY <2>1, Places DEF Roomy
<1>2. IsUnion(t) => Slots(t.which) \subseteq DOMAIN s["data"]
  <2>1. "data" \in Sections
    BY DEF Sections
  <2> QED BY <2>1, Places DEF Roomy
<1> QED BY <1>1, <1>2

(***************************************************************************)
(* Setters are given values of the field's type.                           *)
(***************************************************************************)
LEMMA SettableTyped ==
  ASSUME NEW t \in Types, NEW f \in FieldNames(t), NEW v \in Settable(t.fields[f])
  PROVE  v \in [0 .. (t.fields[f].width - 1) -> Contents[t.fields[f].section]]
<1> DEFINE p == t.fields[f]
<1>1. p.section \in Sections
  BY Places DEF IsPlace
<1>2. p.width \in Widths /\ (p.section = "pointers" => p.width = 1)
  BY TypesAssumption
<1>3. CASE p.section = "pointers"
  <2>1. p.width = 1
    BY <1>2, <1>3
  <2>2. v \in {Lane(q) : q \in Pointers}
    BY <1>3 DEF Settable
  <2>3. PICK q \in Pointers : v = Lane(q)
    BY <2>2
  <2>4. q \in Contents["pointers"]
    BY DEF Contents
  <2> QED BY <1>3, <2>1, <2>3, <2>4 DEF Lane
<1>4. CASE p.section = "data"
  <2>1. p.width \in Widths
    BY <1>2, <1>4
  <2>2. v \in Numbers[p.width]
    BY <1>4 DEF Settable
  <2>3. Contents["data"] = Lanes
    BY DEF Contents
  <2> QED BY <1>4, <2>1, <2>2, <2>3, NumbersAssumption
<1> QED BY <1>1, <1>3, <1>4 DEF Sections

-------------------------------------------------------------------------------
(* set_ and init_ of a field *)

(***************************************************************************)
(* Setting the discriminant to a tag keeps a struct a struct, puts the tag *)
(* in effect and changes no field.                                         *)
(***************************************************************************)
LEMMA Tagged ==
  ASSUME NEW t \in Types, IsUnion(t), NEW s, IsStruct(s), NEW tag \in Lanes
  PROVE  /\ IsStruct(set_field(s, t.which, Lane(tag)))
         /\ \A c \in Sections : DOMAIN set_field(s, t.which, Lane(tag))[c] = DOMAIN s[c]
         /\ Inside(s, t.which) => which(t, set_field(s, t.which, Lane(tag))) = tag
         /\ \A g \in FieldNames(t) :
              get(t, set_field(s, t.which, Lane(tag)), g) = get(t, s, g)
<1>1. IsPlace(t.which) /\ t.which.section = "data" /\ t.which.width = 1
  BY Places
<1>2. DOMAIN s = Sections
  BY DEF IsStruct
<1>3. Lane(tag) \in [0 .. (t.which.width - 1) -> Contents[t.which.section]]
  <2>1. Contents["data"] = Lanes
    BY DEF Contents
  <2>2. Lane(tag) \in [0 .. 0 -> Lanes]
    BY DEF Lane
  <2>3. t.which.width - 1 = 0
    BY <1>1
  <2> QED BY <1>1, <2>1, <2>2, <2>3
<1>4. IsStruct(set_field(s, t.which, Lane(tag)))
  BY <1>1, <1>3, SetFieldStruct
<1>5. \A c \in Sections : DOMAIN set_field(s, t.which, Lane(tag))[c] = DOMAIN s[c]
  BY <1>1, <1>2, SetFieldShape DEF IsPlace
<1>6. ASSUME Inside(s, t.which)
      PROVE  which(t, set_field(s, t.which, Lane(tag))) = tag
  <2>1. Slots(t.which) \subseteq DOMAIN s[t.which.section]
    BY <1>6 DEF Inside
  <2>2. get_field(set_field(s, t.which, Lane(tag)), t.which) = Lane(tag)
    BY <1>1, <1>2, <1>3, <2>1, GetSetSame
  <2>3. Lane(tag)[0] = tag
    BY DEF Lane
  <2> QED BY <2>2, <2>3 DEF which
<1>7. ASSUME NEW g \in FieldNames(t)
      PROVE  get(t, set_field(s, t.which, Lane(tag)), g) = get(t, s, g)
  <2>1. IsPlace(t.fields[g]) /\ ~Overlap(t.fields[g], t.which)
    BY Places
  <2>2. ~Overlap(t.which, t.fields[g])
    BY <2>1 DEF Overlap
  <2> QED BY <1>1, <1>2, <2>1, <2>2, GetSetOther DEF get
<1> QED BY <1>4, <1>5, <1>6, <1>7

(***************************************************************************)
(* A setter keeps a struct a struct and its extent.                        *)
(***************************************************************************)
LEMMA SetShape ==
  ASSUME NEW t \in Types, NEW s, IsStruct(s), NEW f \in FieldNames(t),
         NEW v \in Settable(t.fields[f])
  PROVE  /\ IsStruct(set(t, s, f, v))
         /\ \A c \in Sections : DOMAIN set(t, s, f, v)[c] = DOMAIN s[c]
<1> DEFINE base == IF Tags(t, f) THEN set_field(s, t.which, Lane(t.tags[f])) ELSE s
<1>1. IsStruct(base) /\ \A c \in Sections : DOMAIN base[c] = DOMAIN s[c]
  <2>1. CASE Tags(t, f)
    <3>1. IsUnion(t) /\ t.tags[f] \in Lanes
      BY <2>1, Places DEF Tags, IsMember, IsUnion
    <3> QED BY <2>1, <3>1, Tagged
  <2>2. CASE ~Tags(t, f)
    BY <2>2
  <2> QED BY <2>1, <2>2
<1>2. set(t, s, f, v) = set_field(base, t.fields[f], v)
  BY DEF set
<1> HIDE DEF base
<1>3. IsPlace(t.fields[f])
  BY Places
<1>4. IsStruct(set_field(base, t.fields[f], v))
  BY <1>1, <1>3, SettableTyped, SetFieldStruct
<1>5. \A c \in Sections : DOMAIN set_field(base, t.fields[f], v)[c] = DOMAIN base[c]
  BY <1>1, <1>3, SetFieldShape DEF IsStruct, IsPlace
<1> QED BY <1>1, <1>2, <1>4, <1>5

(***************************************************************************)
(* What is read after a setter, and which member is in effect.             *)
(***************************************************************************)
LEMMA SetReads ==
  ASSUME NEW t \in Types, NEW s, IsStruct(s), NEW f \in FieldNames(t), Fits(t, s, f),
         NEW v \in Settable(t.fields[f])
  PROVE  /\ get(t, set(t, s, f, v), f) = v
         /\ \A g \in FieldNames(t) :
              g # f /\ ~Excluded(t, f, g) => get(t, set(t, s, f, v), g) = get(t, s, g)
         /\ Tags(t, f) => which(t, set(t, s, f, v)) = t.tags[f]
         /\ IsUnion(t) /\ ~Tags(t, f) => which(t, set(t, s, f, v)) = which(t, s)
<1> DEFINE base == IF Tags(t, f) THEN set_field(s, t.which, Lane(t.tags[f])) ELSE s
<1>1. Tags(t, f) => IsUnion(t) /\ t.tags[f] \in Lanes
  BY Places DEF Tags, IsMember, IsUnion
<1>2. IsStruct(base) /\ \A c \in Sections : DOMAIN base[c] = DOMAIN s[c]
  BY <1>1, Tagged
<1>3. \A g \in FieldNames(t) : get(t, base, g) = get(t, s, g)
  BY <1>1, Tagged
<1>4. Tags(t, f) => which(t, base) = t.tags[f]
  BY <1>1, Tagged DEF Fits
<1>5. ~Tags(t, f) => which(t, base) = which(t, s)
  OBVIOUS
<1>6. set(t, s, f, v) = set_field(base, t.fields[f], v)
  BY DEF set
<1> HIDE DEF base
<1>7. IsPlace(t.fields[f]) /\ DOMAIN base = Sections
  BY <1>2, Places DEF IsStruct
<1>8. get(t, set(t, s, f, v), f) = v
  <2>1. Slots(t.fields[f]) \subseteq DOMAIN base[t.fields[f].section]
    BY <1>2, <1>7 DEF IsPlace, Fits, Inside
  <2>2. v \in [0 .. (t.fields[f].width - 1) -> Contents[t.fields[f].section]]
    BY SettableTyped
  <2>3. get_field(set_field(base, t.fields[f], v), t.fields[f]) = v
    BY <1>7, <2>1, <2>2, GetSetSame
  <2> QED BY <1>6, <2>3 DEF get
<1>9. ASSUME NEW g \in FieldNames(t), g # f, ~Excluded(t, f, g)
      PROVE  get(t, set(t, s, f, v), g) = get(t, s, g)
  <2>1. IsPlace(t.fields[g]) /\ ~Overlap(t.fields[f], t.fields[g])
    BY <1>9, Places
  <2>2. get(t, set(t, s, f, v), g) = get(t, base, g)
    BY <1>6, <1>7, <2>1, GetSetOther DEF get
  <2> QED BY <1>3, <2>2
<1>10. IsUnion(t) => which(t, set(t, s, f, v)) = which(t, base)
  <2>1. IsUnion(t) => IsPlace(t.which) /\ ~Overlap(t.fields[f], t.which)
    BY Places
  <2> QED BY <1>6, <1>7, <2>1, GetSetOther DEF which
<1> QED BY <1>1, <1>4, <1>5, <1>8, <1>9, <1>10

(***************************************************************************)
(* A setter writes one field of the record, and of a union it takes the    *)
(* other members out of effect.                                            *)
(***************************************************************************)
LEMMA SetIsWrite ==
  ASSUME NEW t \in Types, NEW s, IsStruct(s), NEW f \in FieldNames(t), Fits(t, s, f),
         NEW v \in Settable(t.fields[f]),
         f \in t.group.members => InEffect(t, s, f)
  PROVE  Selected(t, set(t, s, f, v)) =
           [g \in FieldNames(t) |->
              IF g = f THEN v ELSE IF Excluded(t, f, g) THEN Absent ELSE Selected(t, s)[g]]
<1> DEFINE u == set(t, s, f, v)
<1>1. /\ get(t, u, f) = v
      /\ \A g \in FieldNames(t) : g # f /\ ~Excluded(t, f, g) => get(t, u, g) = get(t, s, g)
      /\ IsMember(t, f) => which(t, u) = t.tags[f]
      /\ IsUnion(t) /\ ~IsMember(t, f) => which(t, u) = which(t, s)
  <2>1. IsMember(t, f) /\ ~Tags(t, f) => IsUnion(t) /\ which(t, s) = t.tags[f]
    BY DEF Tags, InEffect, IsMember, IsUnion
  <2>2. Tags(t, f) => IsMember(t, f)
    BY DEF Tags
  <2> QED BY <2>1, <2>2, SetReads
<1> HIDE DEF u
<1> DEFINE after(g) == IF InEffect(t, u, g) THEN get(t, u, g) ELSE Absent
           before(g) == IF InEffect(t, s, g) THEN get(t, s, g) ELSE Absent
<1>2. after(f) = v
  BY <1>1 DEF InEffect
<1>3. ASSUME NEW g \in FieldNames(t), g # f, Excluded(t, f, g) PROVE after(g) = Absent
  BY <1>1, <1>3 DEF InEffect, Excluded
<1>4. ASSUME NEW g \in FieldNames(t), g # f, ~Excluded(t, f, g) PROVE after(g) = before(g)
  <2>1. get(t, u, g) = get(t, s, g)
    BY <1>1, <1>4
  <2>2. InEffect(t, u, g) <=> InEffect(t, s, g)
    <3>1. CASE ~IsMember(t, g)
      BY <3>1 DEF InEffect
    <3>2. CASE IsMember(t, g) /\ ~IsMember(t, f)
      BY <1>1, <3>2 DEF InEffect, IsMember, IsUnion
    <3>3. CASE IsMember(t, g) /\ IsMember(t, f)
      <4>1. t.tags[f] = t.tags[g]
        BY <1>4, <3>3 DEF Excluded
      <4>2. f \in t.group.members
        <5>1. WellFormed(t)
          BY TypesAssumption
        <5> QED BY <5>1, <4>1, <3>3, <1>4 DEF WellFormed, IsMember
      <4>3. which(t, s) = t.tags[f]
        BY <4>2, <3>3 DEF InEffect
      <4> QED BY <1>1, <3>3, <4>1, <4>3 DEF InEffect
    <3> QED BY <3>1, <3>2, <3>3
  <2> QED BY <2>1, <2>2
<1>5. Selected(t, u) = [g \in FieldNames(t) |-> after(g)]
  BY DEF Selected
<1>6. \A g \in FieldNames(t) : Selected(t, s)[g] = before(g)
  BY DEF Selected
<1> HIDE DEF after, before
<1>7. Selected(t, u) =
        [g \in FieldNames(t) |->
           IF g = f THEN v ELSE IF Excluded(t, f, g) THEN Absent ELSE Selected(t, s)[g]]
  BY <1>2, <1>3, <1>4, <1>5, <1>6
<1> QED BY <1>7 DEF u

(***************************************************************************)
(* The setter of a group's member leaves what is in effect in effect, and  *)
(* changes members of the union at most that exclude its own.              *)
(***************************************************************************)
LEMMA StraySet ==
  ASSUME NEW t \in Types, NEW s, IsStruct(s), NEW f \in t.group.members, Fits(t, s, f),
         f \in FieldNames(t), NEW v \in Settable(t.fields[f]), ~InEffect(t, s, f)
  PROVE  /\ \A g \in FieldNames(t) :
              InEffect(t, set(t, s, f, v), g) <=> InEffect(t, s, g)
         /\ \A g \in FieldNames(t) : ~Excluded(t, f, g) =>
              Selected(t, set(t, s, f, v))[g] = Selected(t, s)[g]
<1> DEFINE u == set(t, s, f, v)
<1>1. ~Tags(t, f) /\ IsUnion(t)
  BY DEF Tags, InEffect, IsMember, IsUnion
<1>2. /\ which(t, u) = which(t, s)
      /\ \A g \in FieldNames(t) : g # f /\ ~Excluded(t, f, g) => get(t, u, g) = get(t, s, g)
  BY <1>1, SetReads
<1> HIDE DEF u
<1>3. \A g \in FieldNames(t) : InEffect(t, u, g) <=> InEffect(t, s, g)
  BY <1>2 DEF InEffect
<1>4. ASSUME NEW g \in FieldNames(t), ~Excluded(t, f, g)
      PROVE  Selected(t, u)[g] = Selected(t, s)[g]
  BY <1>2, <1>3, <1>4 DEF Selected
<1> QED BY <1>3, <1>4 DEF u

(***************************************************************************)
(* A setter that finds no room for its field has at most put it in effect, *)
(* and then the field gives its default.                                   *)
(***************************************************************************)
LEMMA SetNothing ==
  ASSUME NEW t \in Types, NEW s, IsStruct(s), NEW f \in FieldNames(t),
         ~Fits(t, s, f), Tags(t, f), Inside(s, t.which)
  PROVE  Selected(t, set_field(s, t.which, Lane(t.tags[f]))) =
           [g \in FieldNames(t) |->
              IF g = f THEN Default(t.fields[f])
              ELSE IF Excluded(t, f, g) THEN Absent ELSE Selected(t, s)[g]]
<1> DEFINE u == set_field(s, t.which, Lane(t.tags[f]))
<1>1. IsMember(t, f) /\ IsUnion(t) /\ t.tags[f] \in Lanes
  BY Places DEF Tags, IsMember, IsUnion
<1>2. /\ which(t, u) = t.tags[f]
      /\ \A g \in FieldNames(t) : get(t, u, g) = get(t, s, g)
  BY <1>1, Tagged
<1> HIDE DEF u
<1>3. get(t, s, f) = Default(t.fields[f])
  BY DEF Fits, Inside, get, get_field
<1> DEFINE after(g) == IF InEffect(t, u, g) THEN get(t, u, g) ELSE Absent
           before(g) == IF InEffect(t, s, g) THEN get(t, s, g) ELSE Absent
<1>4. after(f) = Default(t.fields[f])
  BY <1>2, <1>3 DEF InEffect
<1>5. ASSUME NEW g \in FieldNames(t), g # f, Excluded(t, f, g) PROVE after(g) = Absent
  BY <1>2, <1>5 DEF InEffect, Excluded
<1>6. ASSUME NEW g \in FieldNames(t), g # f, ~Excluded(t, f, g) PROVE after(g) = before(g)
  <2>1. ~IsMember(t, g)
    <3>1. WellFormed(t)
      BY TypesAssumption
    <3> QED BY <3>1, <1>6, <1>1 DEF WellFormed, IsMember, Excluded, Tags
  <2> QED BY <1>2, <2>1 DEF InEffect
<1>7. Selected(t, u) = [g \in FieldNames(t) |-> after(g)]
  BY DEF Selected
<1>8. \A g \in FieldNames(t) : Selected(t, s)[g] = before(g)
  BY DEF Selected
<1> HIDE DEF after, before
<1>9. Selected(t, u) =
        [g \in FieldNames(t) |->
           IF g = f THEN Default(t.fields[f])
           ELSE IF Excluded(t, f, g) THEN Absent ELSE Selected(t, s)[g]]
  BY <1>4, <1>5, <1>6, <1>7, <1>8
<1> QED BY <1>9 DEF u

-------------------------------------------------------------------------------
(* init_ of a group *)

\* The slots of the group's members.
Cleared(t, c) ==
  {j \in Nat : \E f \in t.group.members :
                 t.fields[f].section = c /\ j \in Slots(t.fields[f])}

(***************************************************************************)
(* clear keeps a struct a struct and its extent, empties the members'      *)
(* slots and leaves the others.                                            *)
(***************************************************************************)
LEMMA ClearShape ==
  ASSUME NEW t \in Types, NEW s, IsStruct(s)
  PROVE  /\ IsStruct(clear(t, s))
         /\ \A c \in Sections : DOMAIN clear(t, s)[c] = DOMAIN s[c]
         /\ \A c \in Sections : \A j \in DOMAIN s[c] :
              clear(t, s)[c][j] = IF j \in Cleared(t, c) THEN Zero[c] ELSE s[c][j]
<1> DEFINE u == clear(t, s)
<1>1. \A c \in Sections :
        u[c] = [j \in DOMAIN s[c] |->
                  IF \E f \in t.group.members :
                       t.fields[f].section = c /\ j \in Slots(t.fields[f])
                    THEN Zero[c] ELSE s[c][j]]
  BY DEF clear
<1>2. DOMAIN u = Sections
  BY DEF clear
<1> HIDE DEF u
<1>3. \A c \in Sections : DOMAIN u[c] = DOMAIN s[c]
  BY <1>1
<1>4. ASSUME NEW c \in Sections, NEW j \in DOMAIN s[c]
      PROVE  u[c][j] = IF j \in Cleared(t, c) THEN Zero[c] ELSE s[c][j]
  <2>1. j \in Nat
    BY DEF IsStruct
  <2>2. j \in Cleared(t, c) <=> \E f \in t.group.members :
          t.fields[f].section = c /\ j \in Slots(t.fields[f])
    BY <2>1 DEF Cleared
  <2> QED BY <1>1, <2>2
<1>5. ASSUME NEW c \in Sections PROVE u[c] \in [DOMAIN s[c] -> Contents[c]]
  <2>1. ASSUME NEW j \in DOMAIN s[c] PROVE u[c][j] \in Contents[c]
    BY <1>4, ZeroTyped DEF IsStruct
  <2>2. u[c] = [j \in DOMAIN s[c] |-> u[c][j]]
    BY <1>1
  <2> QED BY <2>1, <2>2
<1>6. IsStruct(u)
  BY <1>2, <1>3, <1>5 DEF IsStruct
<1> QED BY <1>3, <1>4, <1>6 DEF u

(***************************************************************************)
(* After clear a member reads as its default, and a place that overlaps no *)
(* member reads as before.                                                 *)
(***************************************************************************)
LEMMA ClearReads ==
  ASSUME NEW t \in Types, NEW s, IsStruct(s)
  PROVE  /\ \A g \in t.group.members :
              get_field(clear(t, s), t.fields[g]) = Default(t.fields[g])
         /\ \A p : /\ IsPlace(p)
                   /\ \A g \in t.group.members : ~Overlap(t.fields[g], p)
                   => get_field(clear(t, s), p) = get_field(s, p)
<1> DEFINE u == clear(t, s)
<1>1. \A c \in Sections : DOMAIN u[c] = DOMAIN s[c]
  BY ClearShape
<1>2. \A c \in Sections : \A j \in DOMAIN s[c] :
        u[c][j] = IF j \in Cleared(t, c) THEN Zero[c] ELSE s[c][j]
  BY ClearShape
<1> HIDE DEF u
<1>3. ASSUME NEW g \in t.group.members
      PROVE  get_field(u, t.fields[g]) = Default(t.fields[g])
  <2> DEFINE p == t.fields[g]
  <2>1. g \in FieldNames(t)
    <3>1. WellFormed(t)
      BY TypesAssumption
    <3> QED BY <3>1 DEF WellFormed
  <2>2. IsPlace(p)
    BY <2>1, Places
  <2>3. CASE Slots(p) \subseteq DOMAIN u[p.section]
    <3>1. ASSUME NEW k \in 0 .. (p.width - 1)
          PROVE  u[p.section][p.start + k] = Zero[p.section]
      <4>1. p.start + k \in Slots(p) /\ p.start + k \in Nat
        BY <2>2 DEF Slots, IsPlace
      <4>2. p.start + k \in Cleared(t, p.section)
        BY <4>1 DEF Cleared
      <4>3. p.start + k \in DOMAIN s[p.section] /\ p.section \in Sections
        BY <1>1, <2>2, <2>3, <4>1 DEF IsPlace
      <4> QED BY <1>2, <4>2, <4>3
    <3> HIDE DEF p
    <3>2. get_field(u, p) = Default(p)
      BY <2>3, <3>1 DEF get_field, Default
    <3> QED BY <3>2 DEF p
  <2>4. CASE ~(Slots(p) \subseteq DOMAIN u[p.section])
    BY <2>4 DEF get_field
  <2> QED BY <2>3, <2>4
<1>4. ASSUME NEW p, IsPlace(p), \A g \in t.group.members : ~Overlap(t.fields[g], p)
      PROVE  get_field(u, p) = get_field(s, p)
  <2>1. p.section \in Sections
    BY <1>4 DEF IsPlace
  <2>2. CASE Slots(p) \subseteq DOMAIN s[p.section]
    <3>1. ASSUME NEW k \in 0 .. (p.width - 1)
          PROVE  u[p.section][p.start + k] = s[p.section][p.start + k]
      <4>1. p.start + k \in Slots(p)
        BY <1>4 DEF Slots, IsPlace
      <4>2. p.start + k \notin Cleared(t, p.section)
        BY <1>4, <4>1 DEF Cleared, Overlap
      <4> QED BY <1>2, <2>1, <2>2, <4>1, <4>2
    <3> QED BY <1>1, <2>1, <2>2, <3>1 DEF get_field
  <2>3. CASE ~(Slots(p) \subseteq DOMAIN s[p.section])
    BY <1>1, <2>1, <2>3 DEF get_field
  <2> QED BY <2>2, <2>3
<1> QED BY <1>3, <1>4 DEF u

(***************************************************************************)
(* A field's value is not Absent.                                          *)
(***************************************************************************)
LEMMA GetNotAbsent ==
  ASSUME NEW t \in Types, NEW s, IsStruct(s), NEW g \in FieldNames(t)
  PROVE  get(t, s, g) # Absent
<1>1. IsPlace(t.fields[g]) /\ t.fields[g].width \in Widths
  BY Places, TypesAssumption
<1>2. get_field(s, t.fields[g])
        \in [0 .. (t.fields[g].width - 1) -> Contents[t.fields[g].section]]
  BY <1>1, GetTyped
<1>3. Absent \notin [0 .. (t.fields[g].width - 1) -> Contents[t.fields[g].section]]
  BY <1>1, AbsentAssumption DEF IsPlace
<1> QED BY <1>2, <1>3 DEF get

(***************************************************************************)
(* init_ of a group keeps the struct, puts the group in effect, empties it *)
(* if it is of the kind that does, and changes no other field.             *)
(***************************************************************************)
LEMMA GroupReads ==
  ASSUME NEW t \in Types, t.group.members # {}, NEW s, IsStruct(s)
  PROVE  /\ IsStruct(init_group(t, s))
         /\ \A c \in Sections : DOMAIN init_group(t, s)[c] = DOMAIN s[c]
         /\ Inside(s, t.which) => which(t, init_group(t, s)) = t.group.tag
         /\ t.group.clears => \A g \in t.group.members :
              get(t, init_group(t, s), g) = Default(t.fields[g])
         /\ \A g \in FieldNames(t) : ~IsMember(t, g) =>
              get(t, init_group(t, s), g) = get(t, s, g)
<1> DEFINE tagged == set_field(s, t.which, Lane(t.group.tag))
           u == init_group(t, s)
<1>1. WellFormed(t)
  BY TypesAssumption
<1>2. IsUnion(t) /\ t.group.tag \in Lanes
  <2>1. PICK m \in t.group.members : TRUE
    OBVIOUS
  <2>2. m \in DOMAIN t.tags /\ t.tags[m] = t.group.tag
    BY <1>1 DEF WellFormed
  <2> QED BY <2>2, Places DEF IsUnion
<1>3. /\ IsStruct(tagged)
      /\ \A c \in Sections : DOMAIN tagged[c] = DOMAIN s[c]
      /\ Inside(s, t.which) => which(t, tagged) = t.group.tag
      /\ \A g \in FieldNames(t) : get(t, tagged, g) = get(t, s, g)
  BY <1>2, Tagged
<1>4. u = IF t.group.clears THEN clear(t, tagged) ELSE tagged
  BY DEF init_group
<1> HIDE DEF tagged, u
<1>5. CASE ~t.group.clears
  BY <1>3, <1>4, <1>5 DEF u
<1>6. CASE t.group.clears
  <2>1. u = clear(t, tagged)
    BY <1>4, <1>6
  <2>2. IsStruct(u) /\ \A c \in Sections : DOMAIN u[c] = DOMAIN s[c]
    BY <1>3, <2>1, ClearShape
  <2>3. \A g \in t.group.members : get(t, u, g) = Default(t.fields[g])
    BY <1>3, <2>1, ClearReads DEF get
  <2>4. which(t, u) = which(t, tagged)
    <3>1. IsPlace(t.which) /\ \A g \in t.group.members : ~Overlap(t.fields[g], t.which)
      BY <1>1, <1>2, Places DEF WellFormed
    <3> QED BY <1>3, <2>1, <3>1, ClearReads DEF which
  <2>5. ASSUME NEW g \in FieldNames(t), ~IsMember(t, g)
        PROVE  get(t, u, g) = get(t, tagged, g)
    <3>1. \A m \in t.group.members : ~Overlap(t.fields[m], t.fields[g])
      <4>1. ASSUME NEW m \in t.group.members
            PROVE  m \in FieldNames(t) /\ m # g /\ ~Excluded(t, m, g)
        BY <1>1, <2>5 DEF WellFormed, IsMember, Excluded
      <4> QED BY <4>1, Places
    <3>2. IsPlace(t.fields[g])
      BY Places
    <3> QED BY <1>3, <2>1, <3>1, <3>2, ClearReads DEF get
  <2> QED BY <1>3, <2>2, <2>3, <2>4, <2>5 DEF u
<1> QED BY <1>5, <1>6

-------------------------------------------------------------------------------
(* Fresh and received structs *)

(***************************************************************************)
(* With room for the type, no place is cut.                                *)
(***************************************************************************)
LEMMA RoomyUncut ==
  ASSUME NEW t \in Types, NEW s, Roomy(t, s)
  PROVE  NoneCut(t, s)
<1>1. \A f \in FieldNames(t) : Uncut(s, t.fields[f])
  BY RoomyHolds DEF Uncut
<1>2. IsUnion(t) => Uncut(s, t.which)
  BY RoomyHolds, Places DEF Uncut
<1> QED BY <1>1, <1>2 DEF NoneCut, IsUnion

(***************************************************************************)
(* A fresh struct has room for the type, every field at its default, and   *)
(* the union at the member whose tag is 0.                                 *)
(***************************************************************************)
LEMMA FreshStruct ==
  ASSUME NEW t \in Types
  PROVE  /\ IsStruct(init_struct(t.size))
         /\ Roomy(t, init_struct(t.size))
         /\ \A g \in FieldNames(t) :
              get(t, init_struct(t.size), g) = Default(t.fields[g])
         /\ IsUnion(t) => which(t, init_struct(t.size)) = 0
<1> DEFINE u == init_struct(t.size)
<1>1. /\ DOMAIN u = Sections
      /\ \A c \in Sections : u[c] = [j \in 0 .. (t.size[c] - 1) |-> Zero[c]]
  BY DEF init_struct
<1>2. \A c \in Sections : t.size[c] \in Nat
  BY Places
<1> HIDE DEF u
<1>3. Roomy(t, u)
  BY <1>1 DEF Roomy
<1>4. IsStruct(u)
  <2>1. ASSUME NEW c \in Sections
        PROVE  DOMAIN u[c] \subseteq Nat /\ u[c] \in [DOMAIN u[c] -> Contents[c]]
    <3>1. u[c] = [j \in 0 .. (t.size[c] - 1) |-> Zero[c]] /\ t.size[c] \in Nat
      BY <1>1, <1>2
    <3>2. Zero[c] \in Contents[c]
      BY ZeroTyped
    <3> QED BY <3>1, <3>2
  <2> QED BY <1>1, <2>1 DEF IsStruct
<1>5. ASSUME NEW p, IsPlace(p) PROVE get_field(u, p) = Default(p)
  BY <1>5, FreshReads DEF u
<1>6. \A g \in FieldNames(t) : get(t, u, g) = Default(t.fields[g])
  BY <1>3, <1>5, Places, RoomyHolds DEF get
<1>7. ASSUME IsUnion(t) PROVE which(t, u) = 0
  <2>1. get_field(u, t.which) = Default(t.which)
    BY <1>3, <1>5, <1>7, Places, RoomyHolds
  <2>2. Default(t.which)[0] = Zero["data"]
    BY <1>7, Places DEF Default
  <2> QED BY <2>1, <2>2 DEF which, Zero
<1> QED BY <1>3, <1>4, <1>6, <1>7 DEF u

(***************************************************************************)
(* Enlarging a struct in which nothing is cut gives it room for the type,  *)
(* keeps all it holds, and changes nothing that can be read.               *)
(***************************************************************************)
LEMMA Enlarged ==
  ASSUME NEW t \in Types, NEW s, IsStruct(s), NoneCut(t, s)
  PROVE  /\ IsStruct(get_struct(s, t.size))
         /\ Roomy(t, get_struct(s, t.size))
         /\ \A c \in Sections : \A j \in DOMAIN s[c] :
              j \in DOMAIN get_struct(s, t.size)[c]
              /\ get_struct(s, t.size)[c][j] = s[c][j]
         /\ \A g \in FieldNames(t) : get(t, get_struct(s, t.size), g) = get(t, s, g)
         /\ IsUnion(t) => which(t, get_struct(s, t.size)) = which(t, s)
<1> DEFINE u == get_struct(s, t.size)
<1>1. /\ DOMAIN u = Sections
      /\ \A c \in Sections :
           u[c] = [j \in DOMAIN s[c] \cup 0 .. (t.size[c] - 1) |->
                     IF j \in DOMAIN s[c] THEN s[c][j] ELSE Zero[c]]
  BY DEF get_struct
<1>2. \A c \in Sections : t.size[c] \in Nat /\ DOMAIN s[c] \subseteq Nat
  BY Places DEF IsStruct
<1> HIDE DEF u
<1>3. Roomy(t, u)
  BY <1>1 DEF Roomy
<1>4. IsStruct(u)
  <2>1. ASSUME NEW c \in Sections
        PROVE  DOMAIN u[c] \subseteq Nat /\ u[c] \in [DOMAIN u[c] -> Contents[c]]
    <3>1. \A j \in DOMAIN s[c] : s[c][j] \in Contents[c]
      BY DEF IsStruct
    <3> DEFINE D == DOMAIN s[c] \cup 0 .. (t.size[c] - 1)
    <3>2. D \subseteq Nat
      BY <1>2
    <3>3. Zero[c] \in Contents[c]
      BY ZeroTyped
    <3> HIDE DEF D
    <3>4. u[c] = [j \in D |-> IF j \in DOMAIN s[c] THEN s[c][j] ELSE Zero[c]]
      BY <1>1 DEF D
    <3>5. u[c] \in [D -> Contents[c]] /\ DOMAIN u[c] = D
      BY <3>1, <3>3, <3>4
    <3> QED BY <3>2, <3>5
  <2> QED BY <1>1, <2>1 DEF IsStruct
<1>5. ASSUME NEW c \in Sections, NEW j \in DOMAIN s[c]
      PROVE  j \in DOMAIN u[c] /\ u[c][j] = s[c][j]
  <2>1. u[c] = [i \in DOMAIN s[c] \cup 0 .. (t.size[c] - 1) |->
                  IF i \in DOMAIN s[c] THEN s[c][i] ELSE Zero[c]]
    BY <1>1
  <2> QED BY <2>1
<1>6. ASSUME NEW c \in Sections, NEW j \in DOMAIN u[c], j \notin DOMAIN s[c]
      PROVE  u[c][j] = Zero[c]
  <2> DEFINE D == DOMAIN s[c] \cup 0 .. (t.size[c] - 1)
  <2> HIDE DEF D
  <2>1. u[c] = [i \in D |-> IF i \in DOMAIN s[c] THEN s[c][i] ELSE Zero[c]]
    BY <1>1 DEF D
  <2> QED BY <2>1, <1>6
<1>7. ASSUME NEW p, IsPlace(p), Slots(p) \subseteq DOMAIN u[p.section], Uncut(s, p)
      PROVE  get_field(u, p) = get_field(s, p)
  <2>1. ASSUME NEW k \in 0 .. (p.width - 1) PROVE p.start + k \in Slots(p)
    BY <1>7 DEF Slots, IsPlace
  <2>2. p.section \in Sections
    BY <1>7 DEF IsPlace
  <2>3. CASE Slots(p) \subseteq DOMAIN s[p.section]
    <3>1. ASSUME NEW k \in 0 .. (p.width - 1)
          PROVE  u[p.section][p.start + k] = s[p.section][p.start + k]
      BY <1>5, <2>1, <2>2, <2>3
    <3> QED BY <1>7, <2>3, <3>1 DEF get_field
  <2>4. CASE Slots(p) \cap DOMAIN s[p.section] = {}
    <3>1. ASSUME NEW k \in 0 .. (p.width - 1)
          PROVE  u[p.section][p.start + k] = Zero[p.section]
      <4> DEFINE j == p.start + k
      <4>1. j \in DOMAIN u[p.section] /\ j \notin DOMAIN s[p.section]
        BY <1>7, <2>1, <2>4
      <4> HIDE DEF j
      <4>2. u[p.section][j] = Zero[p.section]
        BY <1>6, <2>2, <4>1
      <4> QED BY <4>2 DEF j
    <3>2. get_field(u, p) = Default(p)
      BY <1>7, <3>1 DEF get_field, Default
    <3>3. ~(Slots(p) \subseteq DOMAIN s[p.section])
      <4>1. 0 \in 0 .. (p.width - 1)
        BY <1>7 DEF IsPlace
      <4> QED BY <2>1, <2>4, <4>1
    <3> QED BY <3>2, <3>3 DEF get_field
  <2> QED BY <1>7, <2>3, <2>4 DEF Uncut
<1>8. \A g \in FieldNames(t) : get(t, u, g) = get(t, s, g)
  BY <1>3, <1>7, Places, RoomyHolds DEF get, NoneCut
<1>9. IsUnion(t) => which(t, u) = which(t, s)
  BY <1>3, <1>7, Places, RoomyHolds DEF which, NoneCut, IsUnion
<1> QED BY <1>3, <1>4, <1>5, <1>8, <1>9 DEF u

-------------------------------------------------------------------------------
(* The specification *)

\* In Rust, whoever holds the object of a group holds it alone and in effect.
HeldInEffect == Borrows(type) /\ held => open /\ which(type, mem) = type.group.tag

\* TypeOK, no place of the type is cut in two, which makes enlarging invisible, and
\* what borrowing gives in Rust.
IInv == TypeOK /\ NoneCut(type, mem) /\ HeldInEffect

(***************************************************************************)
(* The parts of IInv under the names of the lemmas.                        *)
(***************************************************************************)
LEMMA InvParts ==
  IInv <=> /\ type \in Types /\ open \in BOOLEAN /\ held \in BOOLEAN /\ IsStruct(mem)
           /\ (open /\ Enlarges(type) => Roomy(type, mem)) /\ NoneCut(type, mem)
           /\ HeldInEffect
  BY DEF IInv, TypeOK, Roomy

(***************************************************************************)
(* A struct with the extent of another has its room, and is cut nowhere if *)
(* that one is not.                                                        *)
(***************************************************************************)
LEMMA SameRoom ==
  ASSUME NEW t \in Types, NEW s, NEW u,
         \A c \in Sections : DOMAIN u[c] = DOMAIN s[c]
  PROVE  (Roomy(t, s) => Roomy(t, u)) /\ (NoneCut(t, s) => NoneCut(t, u))
<1>1. Roomy(t, s) => Roomy(t, u)
  BY DEF Roomy
<1>2. ASSUME NoneCut(t, s) PROVE NoneCut(t, u)
  <2>1. \A f \in FieldNames(t) : Uncut(u, t.fields[f])
    BY <1>2, Places DEF NoneCut, Uncut, IsPlace
  <2>2. DOMAIN t.tags # {} => Uncut(u, t.which)
    BY <1>2, Places DEF NoneCut, Uncut, IsPlace, IsUnion
  <2> QED BY <2>1, <2>2 DEF NoneCut
<1> QED BY <1>1, <1>2

(***************************************************************************)
(* A struct that its Builder may write to has room for what is set: it was *)
(* enlarged, or the setter has looked.                                     *)
(***************************************************************************)
LEMMA SetFits ==
  ASSUME NEW t \in Types, NEW s, Enlarges(t) => Roomy(t, s), NEW f \in FieldNames(t),
         ~Enlarges(t) => Fits(t, s, f)
  PROVE  Fits(t, s, f)
<1>1. ASSUME Enlarges(t) PROVE Fits(t, s, f)
  BY <1>1, RoomyHolds, Places DEF Fits, Inside, Tags, IsMember, IsUnion
<1> QED BY <1>1

(***************************************************************************)
(* The initial states satisfy the invariant.                               *)
(***************************************************************************)
LEMMA InitInv == Init => IInv
<1> SUFFICES ASSUME Init PROVE IInv
  OBVIOUS
<1>1. type \in Types /\ mem \in Received /\ open = FALSE /\ held = FALSE
  BY DEF Init
<1>2. IsStruct(mem) /\ NoneCut(type, mem)
  BY <1>1, ReceivedAssumption
<1>3. HeldInEffect
  BY <1>1 DEF HeldInEffect
<1> QED BY <1>1, <1>2, <1>3, InvParts

(***************************************************************************)
(* Every accessor keeps the invariant.                                     *)
(***************************************************************************)
LEMMA StepInv == IInv /\ [Next]_vars => IInv'
<1> SUFFICES ASSUME IInv, [Next]_vars PROVE IInv'
  OBVIOUS
<1>1. /\ type \in Types /\ IsStruct(mem) /\ open \in BOOLEAN /\ held \in BOOLEAN
      /\ open /\ Enlarges(type) => Roomy(type, mem)
      /\ NoneCut(type, mem)
      /\ HeldInEffect
  BY InvParts
<1>2. IInv' <=> /\ type' \in Types /\ open' \in BOOLEAN /\ held' \in BOOLEAN
                /\ IsStruct(mem')
                /\ (open' /\ Enlarges(type') => Roomy(type', mem')) /\ NoneCut(type', mem')
                /\ HeldInEffect'
  BY DEF IInv, TypeOK, Roomy, Enlarges
<1>3. HeldInEffect' <=>
        (Borrows(type') /\ held' => open' /\ which(type', mem') = type'.group.tag)
  BY DEF HeldInEffect, Borrows, which
<1>4. ASSUME type' = type, open' \in BOOLEAN, held' \in BOOLEAN, IsStruct(mem'),
             Roomy(type, mem'),
             Borrows(type) /\ held' => open' /\ which(type, mem') = type.group.tag
      PROVE  IInv'
  BY <1>1, <1>2, <1>3, <1>4, RoomyUncut
<1>5. ASSUME type' = type, open' \in BOOLEAN, held' \in BOOLEAN, IsStruct(mem'),
             \A c \in Sections : DOMAIN mem'[c] = DOMAIN mem[c],
             open' => open,
             Borrows(type) /\ held' => open' /\ which(type, mem') = type.group.tag
      PROVE  IInv'
  <2>1. (Roomy(type, mem) => Roomy(type, mem')) /\ NoneCut(type, mem')
    BY <1>1, <1>5, SameRoom
  <2> QED BY <1>1, <1>2, <1>3, <1>5, <2>1
<1>6. Borrows(type) => Enlarges(type)
  BY DEF Borrows, Enlarges
<1>7. CASE init_pointer
  <2>1. /\ ~open /\ mem' = init_struct(type.size) /\ open' = TRUE /\ type' = type
        /\ held' = held
    BY <1>7 DEF init_pointer
  <2>2. ~(Borrows(type) /\ held')
    BY <1>1, <2>1 DEF HeldInEffect
  <2> QED BY <1>1, <1>4, <2>1, <2>2, FreshStruct
<1>8. CASE get_from_pointer
  <2>1. /\ ~open /\ mem' = (IF Enlarges(type) THEN get_struct(mem, type.size) ELSE mem)
        /\ open' = TRUE /\ type' = type /\ held' = held
    BY <1>8 DEF get_from_pointer
  <2>2. ~(Borrows(type) /\ held')
    BY <1>1, <2>1 DEF HeldInEffect
  <2>3. CASE Enlarges(type)
    BY <1>1, <1>4, <2>1, <2>2, <2>3, Enlarged
  <2>4. CASE ~Enlarges(type)
    BY <1>1, <1>2, <1>3, <2>1, <2>2, <2>4
  <2> QED BY <2>3, <2>4
<1>9. ASSUME NEW f \in FieldNames(type), NEW v \in Settable(type.fields[f]), Set(f, v)
      PROVE  IInv'
  <2>1. /\ open /\ mem' = set(type, mem, f, v) /\ type' = type /\ open' = open
        /\ ~Enlarges(type) => Fits(type, mem, f)
        /\ held' = (held /\ (f \in type.group.members \/ ~Borrows(type)))
    BY <1>9 DEF Set, Reaches, LetsGo
  <2>2. IsStruct(mem') /\ \A c \in Sections : DOMAIN mem'[c] = DOMAIN mem[c]
    BY <1>1, <2>1, SetShape
  <2>3. ASSUME Borrows(type), held' PROVE which(type, mem') = type.group.tag
    <3>1. f \in type.group.members /\ which(type, mem) = type.group.tag
      BY <1>1, <2>1, <2>3 DEF HeldInEffect
    <3>2. ~Tags(type, f) /\ IsUnion(type)
      <4>1. WellFormed(type)
        BY <1>1, TypesAssumption
      <4> QED BY <3>1, <4>1 DEF Tags, WellFormed, IsUnion
    <3>3. Fits(type, mem, f)
      BY <1>1, <2>1, SetFits
    <3> QED BY <1>1, <2>1, <3>1, <3>2, <3>3, SetReads
  <2>4. held' \in BOOLEAN
    BY <2>1
  <2> QED BY <1>1, <1>5, <2>1, <2>2, <2>3, <2>4
<1>10. ASSUME NEW f \in FieldNames(type), SetOutside(f) PROVE IInv'
  <2>1. /\ ~Enlarges(type) /\ type' = type /\ open' = FALSE /\ held' = held /\ open
        /\ mem' = IF Tags(type, f) /\ Inside(mem, type.which)
                    THEN set_field(mem, type.which, Lane(type.tags[f])) ELSE mem
    BY <1>10 DEF SetOutside, Reaches
  <2>2. IsStruct(mem') /\ \A c \in Sections : DOMAIN mem'[c] = DOMAIN mem[c]
    <3>1. CASE Tags(type, f) /\ Inside(mem, type.which)
      <4>1. IsUnion(type) /\ type.tags[f] \in Lanes
        BY <1>1, <3>1, Places DEF Tags, IsMember, IsUnion
      <4> QED BY <1>1, <2>1, <3>1, <4>1, Tagged
    <3>2. CASE ~(Tags(type, f) /\ Inside(mem, type.which))
      BY <1>1, <2>1, <3>2
    <3> QED BY <3>1, <3>2
  <2> QED BY <1>1, <1>5, <1>6, <2>1, <2>2
<1>11. CASE InitGroup
  <2>1. /\ open /\ type.group.members # {} /\ mem' = init_group(type, mem)
        /\ type' = type /\ open' = open /\ held' = TRUE
    BY <1>11 DEF InitGroup
  <2>2. IsStruct(mem') /\ \A c \in Sections : DOMAIN mem'[c] = DOMAIN mem[c]
    BY <1>1, <2>1, GroupReads
  <2>3. ASSUME Borrows(type) PROVE which(type, mem') = type.group.tag
    <3>1. IsUnion(type)
      <4>1. WellFormed(type)
        BY <1>1, TypesAssumption
      <4> QED BY <2>1, <4>1 DEF WellFormed, IsUnion
    <3>2. Inside(mem, type.which)
      BY <1>1, <1>6, <2>1, <2>3, <3>1, RoomyHolds, Places DEF Inside
    <3> QED BY <1>1, <2>1, <3>2, GroupReads
  <2> QED BY <1>1, <1>5, <2>1, <2>2, <2>3
<1>12. CASE InitGroupOutside
  <2>1. /\ ~Enlarges(type) /\ type' = type /\ open' = FALSE /\ held' = held /\ mem' = mem
    BY <1>12 DEF InitGroupOutside
  <2> QED BY <1>1, <1>5, <1>6, <2>1
<1>13. CASE GetGroup
  <2>1. /\ open /\ type' = type /\ open' = open /\ held' = TRUE /\ mem' = mem
        /\ ChecksGroup(type) => which(type, mem) = type.group.tag
    BY <1>13 DEF GetGroup
  <2>2. Borrows(type) => ChecksGroup(type)
    BY DEF Borrows, ChecksGroup
  <2> QED BY <1>1, <1>5, <2>1, <2>2
<1>14. CASE into_reader
  <2>1. open' = FALSE /\ type' = type /\ mem' = mem /\ held' = (held /\ ~Borrows(type))
    BY <1>14 DEF into_reader, LetsGo
  <2>2. held' \in BOOLEAN /\ ~(Borrows(type) /\ held')
    BY <2>1
  <2> QED BY <1>1, <1>5, <2>1, <2>2
<1>15. CASE UNCHANGED vars
  <2>1. open' = open /\ type' = type /\ mem' = mem /\ held' = held
    BY <1>15 DEF vars
  <2> QED BY <1>1, <1>2, <1>3, <2>1 DEF HeldInEffect
<1> QED BY <1>7, <1>8, <1>9, <1>10, <1>11, <1>12, <1>13, <1>14, <1>15 DEF Next

(***************************************************************************)
(* The invariant holds throughout.                                         *)
(***************************************************************************)
LEMMA InvHolds == Spec => []IInv
  BY InitInv, StepInv, PTL DEF Spec

(***************************************************************************)
(* For any well-formed types: whatever accessors are called in whatever    *)
(* order, on a fresh struct or a received one of any size, memory keeps    *)
(* its shape, and what Rust or TypeScript writes to is never smaller than  *)
(* their setters, which check no bounds, take it to be.                    *)
(***************************************************************************)
THEOREM TypeCorrect == Spec => []TypeOK
<1>1. IInv => TypeOK
  BY DEF IInv
<1> QED BY <1>1, InvHolds, PTL

-------------------------------------------------------------------------------
(* What the type does not know *)

\* The slot belongs to no field of the type and is not the discriminant's.
Unknown(t, c, j) ==
  /\ \A f \in FieldNames(t) : ~(t.fields[f].section = c /\ j \in Slots(t.fields[f]))
  /\ IsUnion(t) => ~(c = "data" /\ j \in Slots(t.which))

(***************************************************************************)
(* Known leaves out exactly those, since every place lies in the struct.   *)
(***************************************************************************)
LEMMA NotKnown ==
  ASSUME NEW t \in Types, NEW c \in Sections, NEW j, j \notin Known(t, c)
  PROVE  Unknown(t, c, j)
<1>1. \A f \in FieldNames(t) : ~(t.fields[f].section = c /\ j \in Slots(t.fields[f]))
  BY Places DEF Known
<1>2. IsUnion(t) => ~(c = "data" /\ j \in Slots(t.which))
  BY Places DEF Known, IsUnion
<1> QED BY <1>1, <1>2 DEF Unknown

(***************************************************************************)
(* A setter leaves what the type does not know.                            *)
(***************************************************************************)
LEMMA SetKeeps ==
  ASSUME NEW t \in Types, NEW s, IsStruct(s), NEW f \in FieldNames(t),
         NEW v \in Settable(t.fields[f]),
         NEW c \in Sections, NEW j \in DOMAIN s[c], Unknown(t, c, j)
  PROVE  set(t, s, f, v)[c][j] = s[c][j]
<1> DEFINE base == IF Tags(t, f) THEN set_field(s, t.which, Lane(t.tags[f])) ELSE s
<1>1. Tags(t, f) => IsUnion(t) /\ t.tags[f] \in Lanes
  BY Places DEF Tags, IsMember, IsUnion
<1>2. IsStruct(base) /\ DOMAIN base[c] = DOMAIN s[c]
  BY <1>1, Tagged
<1>3. base[c][j] = s[c][j]
  <2>1. CASE Tags(t, f)
    <3>1. t.which.section = "data" /\ ~(c = "data" /\ j \in Slots(t.which))
      BY <1>1, <2>1, Places DEF Unknown
    <3>2. DOMAIN s = Sections /\ t.which.section \in Sections
      BY <3>1 DEF IsStruct, Sections
    <3> QED BY <2>1, <3>1, <3>2, SetFieldShape
  <2>2. CASE ~Tags(t, f)
    BY <2>2
  <2> QED BY <2>1, <2>2
<1>4. set(t, s, f, v) = set_field(base, t.fields[f], v)
  BY DEF set
<1> HIDE DEF base
<1>5. set_field(base, t.fields[f], v)[c][j] = base[c][j]
  <2>1. ~(c = t.fields[f].section /\ j \in Slots(t.fields[f]))
    BY DEF Unknown
  <2>2. DOMAIN base = Sections /\ t.fields[f].section \in Sections
    BY <1>2, Places DEF IsStruct, IsPlace
  <2> QED BY <1>2, <2>1, <2>2, SetFieldShape
<1> QED BY <1>3, <1>4, <1>5

(***************************************************************************)
(* So does init_ of a group.                                               *)
(***************************************************************************)
LEMMA GroupKeeps ==
  ASSUME NEW t \in Types, t.group.members # {}, NEW s, IsStruct(s),
         NEW c \in Sections, NEW j \in DOMAIN s[c], Unknown(t, c, j)
  PROVE  init_group(t, s)[c][j] = s[c][j]
<1> DEFINE tagged == set_field(s, t.which, Lane(t.group.tag))
<1>1. WellFormed(t)
  BY TypesAssumption
<1>2. IsUnion(t) /\ t.group.tag \in Lanes
  <2>1. PICK m \in t.group.members : TRUE
    OBVIOUS
  <2>2. m \in DOMAIN t.tags /\ t.tags[m] = t.group.tag
    BY <1>1 DEF WellFormed
  <2> QED BY <2>2, Places DEF IsUnion
<1>3. IsStruct(tagged) /\ DOMAIN tagged[c] = DOMAIN s[c]
  BY <1>2, Tagged
<1>4. tagged[c][j] = s[c][j]
  <2>1. t.which.section = "data" /\ ~(c = "data" /\ j \in Slots(t.which))
    BY <1>2, Places DEF Unknown
  <2>2. DOMAIN s = Sections /\ t.which.section \in Sections
    BY <2>1 DEF IsStruct, Sections
  <2> QED BY <2>1, <2>2, SetFieldShape
<1>5. init_group(t, s) = IF t.group.clears THEN clear(t, tagged) ELSE tagged
  BY DEF init_group
<1> HIDE DEF tagged
<1>6. clear(t, tagged)[c][j] = tagged[c][j]
  <2>1. j \notin Cleared(t, c)
    BY <1>1 DEF Unknown, Cleared, WellFormed
  <2> QED BY <1>3, <2>1, ClearShape
<1> QED BY <1>4, <1>5, <1>6

(***************************************************************************)
(* For any well-formed types: what a newer sender put into slots that the  *)
(* type does not know survives every accessor but init_pointer, so a       *)
(* program that changes a field and passes a message on loses nothing.     *)
(***************************************************************************)
THEOREM UnknownSurvives == Spec => UnknownKept
<1> DEFINE Kept == op'.name # "init_pointer" =>
             \A c \in Sections : \A j \in DOMAIN mem[c] \ Known(type, c) :
               j \in DOMAIN mem'[c] /\ mem'[c][j] = mem[c][j]
<1>1. IInv /\ [Next]_vars => [Kept]_vars
  <2> SUFFICES ASSUME IInv, Next, op'.name # "init_pointer",
                      NEW c \in Sections, NEW j \in DOMAIN mem[c], j \notin Known(type, c)
               PROVE  j \in DOMAIN mem'[c] /\ mem'[c][j] = mem[c][j]
    OBVIOUS
  <2>1. /\ type \in Types /\ IsStruct(mem) /\ NoneCut(type, mem)
    BY InvParts
  <2>2. Unknown(type, c, j)
    BY <2>1, NotKnown
  <2>3. CASE init_pointer
    BY <2>3 DEF init_pointer, Called
  <2>4. CASE get_from_pointer
    <3>1. mem' = IF Enlarges(type) THEN get_struct(mem, type.size) ELSE mem
      BY <2>4 DEF get_from_pointer
    <3> QED BY <2>1, <3>1, Enlarged
  <2>5. ASSUME NEW f \in FieldNames(type), NEW v \in Settable(type.fields[f]), Set(f, v)
        PROVE  j \in DOMAIN mem'[c] /\ mem'[c][j] = mem[c][j]
    <3>1. mem' = set(type, mem, f, v)
      BY <2>5 DEF Set
    <3> QED BY <2>1, <2>2, <3>1, SetShape, SetKeeps
  <2>6. CASE InitGroup
    <3>1. type.group.members # {} /\ mem' = init_group(type, mem)
      BY <2>6 DEF InitGroup
    <3> QED BY <2>1, <2>2, <3>1, GroupReads, GroupKeeps
  <2>7. CASE into_reader
    BY <2>7 DEF into_reader
  <2>8. ASSUME NEW f \in FieldNames(type), SetOutside(f)
        PROVE  j \in DOMAIN mem'[c] /\ mem'[c][j] = mem[c][j]
    <3>1. mem' = IF Tags(type, f) /\ Inside(mem, type.which)
                   THEN set_field(mem, type.which, Lane(type.tags[f])) ELSE mem
      BY <2>8 DEF SetOutside
    <3>2. ASSUME Tags(type, f)
          PROVE  LET u == set_field(mem, type.which, Lane(type.tags[f]))
                 IN  j \in DOMAIN u[c] /\ u[c][j] = mem[c][j]
      <4>1. IsUnion(type)
        BY <3>2 DEF Tags, IsMember, IsUnion
      <4>2. type.which.section = "data" /\ ~(c = "data" /\ j \in Slots(type.which))
        BY <2>1, <2>2, <4>1, Places DEF Unknown
      <4>3. DOMAIN mem = Sections /\ type.which.section \in Sections
        BY <2>1, <4>2 DEF IsStruct, Sections
      <4> QED BY <4>2, <4>3, SetFieldShape
    <3> QED BY <3>1, <3>2
  <2>9. CASE InitGroupOutside \/ GetGroup
    BY <2>9 DEF InitGroupOutside, GetGroup
  <2> QED BY <2>3, <2>4, <2>5, <2>6, <2>7, <2>8, <2>9 DEF Next
<1> QED BY <1>1, InvHolds, PTL DEF Spec, UnknownKept

-------------------------------------------------------------------------------
(* The refinement *)

(***************************************************************************)
(* The record's definitions are those of the layout.                       *)
(***************************************************************************)
LEMMA SameWords ==
  /\ \A t : AsRecord!FieldNames(t) = FieldNames(t)
  /\ \A t, f : AsRecord!IsMember(t, f) <=> IsMember(t, f)
  /\ \A t, f, g : AsRecord!Excluded(t, f, g) <=> Excluded(t, f, g)
  /\ \A f : AsRecord!Default(f) = Default(f)
  /\ \A t : AsRecord!Borrows(t) <=> Borrows(t)
  /\ \A t : AsRecord!Enlarges(t) <=> Enlarges(t)
<1>1. \A t : AsRecord!FieldNames(t) = FieldNames(t)
  BY DEF AsRecord!FieldNames, FieldNames
<1>2. \A t, f : AsRecord!IsMember(t, f) <=> IsMember(t, f)
  BY DEF AsRecord!IsMember, IsMember
<1>3. \A t, f, g : AsRecord!Excluded(t, f, g) <=> Excluded(t, f, g)
  BY <1>2 DEF AsRecord!Excluded, Excluded
<1>4. \A f : AsRecord!Default(f) = Default(f)
  BY DEF AsRecord!Default, Default, AsRecord!Zero, Zero
<1>5. \A t : AsRecord!Borrows(t) <=> Borrows(t)
  BY DEF AsRecord!Borrows, Borrows
<1>6. \A t : AsRecord!Enlarges(t) <=> Enlarges(t)
  BY DEF AsRecord!Enlarges, Enlarges
<1> QED BY <1>1, <1>2, <1>3, <1>4, <1>5, <1>6

(***************************************************************************)
(* Two structs that give the same fields and have the same member in       *)
(* effect read the same.                                                   *)
(***************************************************************************)
LEMMA SameReading ==
  ASSUME NEW t \in Types, NEW s, NEW u,
         \A g \in FieldNames(t) : get(t, u, g) = get(t, s, g),
         IsUnion(t) => which(t, u) = which(t, s)
  PROVE  Selected(t, u) = Selected(t, s)
<1>1. \A g \in FieldNames(t) : InEffect(t, u, g) <=> InEffect(t, s, g)
  BY DEF InEffect, IsMember, IsUnion
<1> QED BY <1>1 DEF Selected

(***************************************************************************)
(* For any well-formed types of the three stubs: a struct built and        *)
(* rebuilt through its accessors is, to a program that asks for the        *)
(* discriminant first, the record that StructRecord describes.  A field    *)
(* reads as it was last set, a union has one member in effect, a group     *)
(* that clears starts empty, enlarging and closing change nothing, and Go  *)
(* loses no write in a struct too short for it but refuses it.  Writing    *)
(* through the object of a group that is out of effect is the exception:   *)
(* Go and TypeScript allow it and it may change the member in effect, no   *)
(* other field and not which one that is; in Rust it cannot happen.        *)
(***************************************************************************)
THEOREM ImplementsRecord == Spec => RecordRefined
<1>1. Init => AsRecord!RecordInit
  BY SameWords DEF AsRecord!RecordInit, Selected
<1>2. IInv /\ [Next]_vars => [AsRecord!RecordNext]_(AsRecord!recordVars)
  <2> SUFFICES ASSUME IInv, [Next]_vars
               PROVE  AsRecord!RecordNext \/ UNCHANGED <<type, op, Selected(type, mem)>>
    BY DEF AsRecord!recordVars
  <2>1. /\ type \in Types /\ IsStruct(mem) /\ NoneCut(type, mem)
        /\ open /\ Enlarges(type) => Roomy(type, mem)
        /\ HeldInEffect
    BY InvParts
  <2> DEFINE R == Selected(type, mem)
             R1 == Selected(type, mem')
  <2>2. ASSUME type' = type PROVE Selected(type, mem)' = R1
    BY <2>2
  <2>3. CASE init_pointer
    <3>1. mem' = init_struct(type.size) /\ type' = type /\ op'.name = "init_pointer"
      BY <2>3 DEF init_pointer, Called
    <3>2. ASSUME NEW g \in FieldNames(type)
          PROVE  InEffect(type, mem', g) <=> ~(IsMember(type, g) /\ type.tags[g] # 0)
      BY <2>1, <3>1, FreshStruct DEF InEffect, IsMember, IsUnion
    <3>3. R1 = [g \in FieldNames(type) |->
                  IF IsMember(type, g) /\ type.tags[g] # 0
                    THEN Absent ELSE Default(type.fields[g])]
      BY <2>1, <3>1, <3>2, FreshStruct DEF Selected
    <3>4. AsRecord!Fresh
      BY <2>2, <3>1, <3>3, SameWords DEF AsRecord!Fresh
    <3> QED BY <3>1, <3>4 DEF AsRecord!RecordNext
  <2>4. CASE get_from_pointer
    <3>1. /\ mem' = IF Enlarges(type) THEN get_struct(mem, type.size) ELSE mem
          /\ type' = type /\ op'.name = "get_from_pointer"
      BY <2>4 DEF get_from_pointer, Called
    <3>2. R1 = R
      BY <2>1, <3>1, Enlarged, SameReading
    <3>3. AsRecord!Reopen
      BY <2>2, <3>1, <3>2 DEF AsRecord!Reopen
    <3> QED BY <3>1, <3>3 DEF AsRecord!RecordNext
  <2>5. ASSUME NEW f \in FieldNames(type), NEW v \in Settable(type.fields[f]), Set(f, v)
        PROVE  AsRecord!RecordNext
    <3>1. /\ open /\ mem' = set(type, mem, f, v) /\ type' = type
          /\ f \in type.group.members => held
          /\ ~Enlarges(type) => Fits(type, mem, f)
          /\ op'.name = "set" /\ op'.field = f /\ op'.value = v
      BY <2>5 DEF Set, Reaches
    <3>2. Fits(type, mem, f)
      BY <2>1, <3>1, SetFits
    <3>3. CASE f \in type.group.members => InEffect(type, mem, f)
      <4>1. R1 = [g \in FieldNames(type) |->
                    IF g = f THEN v ELSE IF Excluded(type, f, g) THEN Absent ELSE R[g]]
        BY <2>1, <3>1, <3>2, <3>3, SetIsWrite
      <4>2. f \in type.group.members => R[f] # Absent
        BY <2>1, <3>3, GetNotAbsent DEF Selected
      <4> HIDE DEF R, R1
      <4>3. AsRecord!Write
        BY <2>2, <3>1, <4>1, <4>2, SameWords DEF AsRecord!Write, R
      <4> QED BY <3>1, <4>3 DEF AsRecord!RecordNext
    <3>4. CASE f \in type.group.members /\ ~InEffect(type, mem, f)
      <4>1. ~Borrows(type)
        <5>1. WellFormed(type)
          BY <2>1, TypesAssumption
        <5>2. type.tags[f] = type.group.tag
          BY <3>4, <5>1 DEF WellFormed
        <5> QED BY <2>1, <3>1, <3>4, <5>2 DEF HeldInEffect, InEffect
      <4>2. /\ \A g \in FieldNames(type) :
                 InEffect(type, mem', g) <=> InEffect(type, mem, g)
            /\ \A g \in FieldNames(type) : ~Excluded(type, f, g) => R1[g] = R[g]
        BY <2>1, <3>1, <3>2, <3>4, StraySet
      <4>3. IsStruct(mem')
        BY <2>1, <3>1, SetShape
      <4>4. ASSUME NEW g \in FieldNames(type) PROVE R1[g] = Absent <=> R[g] = Absent
        BY <2>1, <4>2, <4>3, GetNotAbsent DEF Selected
      <4>5. R[f] = Absent
        BY <3>4 DEF Selected
      <4>6. DOMAIN R1 = FieldNames(type)
        BY DEF Selected
      <4> HIDE DEF R, R1
      <4>7. AsRecord!Stray
        BY <2>2, <3>1, <3>4, <4>1, <4>2, <4>4, <4>5, <4>6, SameWords DEF AsRecord!Stray, R
      <4> QED BY <3>1, <4>7 DEF AsRecord!RecordNext
    <3> QED BY <3>3, <3>4
  <2>6. CASE InitGroup
    <3>1. /\ open /\ type.group.members # {} /\ mem' = init_group(type, mem)
          /\ ~Enlarges(type) => Inside(mem, type.which)
          /\ type' = type /\ op'.name = "init_group"
      BY <2>6 DEF InitGroup, Called
    <3>2. WellFormed(type)
      BY <2>1, TypesAssumption
    <3>inside. Inside(mem, type.which)
      <4>1. IsUnion(type)
        BY <3>1, <3>2 DEF WellFormed, IsUnion
      <4> QED BY <2>1, <3>1, <4>1, RoomyHolds, Places DEF Inside
    <3>3. /\ IsStruct(mem') /\ which(type, mem') = type.group.tag
          /\ type.group.clears => \A g \in type.group.members :
               get(type, mem', g) = Default(type.fields[g])
          /\ \A g \in FieldNames(type) : ~IsMember(type, g) =>
               get(type, mem', g) = get(type, mem, g)
      BY <2>1, <3>1, <3>inside, GroupReads
    <3>4. DOMAIN R1 = FieldNames(type)
      BY DEF Selected
    <3>5. \A g \in FieldNames(type) :
            /\ R1[g] = IF InEffect(type, mem', g) THEN get(type, mem', g) ELSE Absent
            /\ R[g] = IF InEffect(type, mem, g) THEN get(type, mem, g) ELSE Absent
      BY DEF Selected
    <3>6. ASSUME NEW g \in FieldNames(type), g \in type.group.members
          PROVE  R1[g] # Absent /\ (type.group.clears => R1[g] = Default(type.fields[g]))
      <4>1. type.tags[g] = type.group.tag
        BY <3>2, <3>6 DEF WellFormed
      <4>2. InEffect(type, mem', g)
        BY <3>3, <4>1 DEF InEffect
      <4> QED BY <2>1, <3>3, <3>5, <3>6, <4>2, GetNotAbsent
    <3>7. ASSUME NEW g \in FieldNames(type), g \notin type.group.members
          PROVE  R1[g] = IF IsMember(type, g) THEN Absent ELSE R[g]
      <4>1. CASE IsMember(type, g)
        <5>1. PICK m \in type.group.members : TRUE
          BY <3>1
        <5>2. m \in DOMAIN type.tags /\ type.tags[m] = type.group.tag /\ m # g
          BY <3>2, <3>7 DEF WellFormed
        <5>3. type.tags[g] # type.group.tag
          BY <3>2, <3>7, <4>1, <5>2 DEF WellFormed, IsMember
        <5>4. ~InEffect(type, mem', g)
          BY <3>3, <4>1, <5>3 DEF InEffect
        <5> QED BY <3>5, <4>1, <5>4
      <4>2. CASE ~IsMember(type, g)
        BY <3>3, <3>5, <4>2 DEF InEffect
      <4> QED BY <4>1, <4>2
    <3> HIDE DEF R, R1
    <3>8. AsRecord!InitGroup
      BY <2>2, <3>1, <3>4, <3>6, <3>7, SameWords DEF AsRecord!InitGroup, R
    <3> QED BY <3>1, <3>8 DEF AsRecord!RecordNext
  <2>7. CASE into_reader
    <3>1. mem' = mem /\ type' = type /\ op'.name = "into_reader"
      BY <2>7 DEF into_reader, Called
    <3>2. AsRecord!Reopen
      BY <2>2, <3>1 DEF AsRecord!Reopen
    <3> QED BY <3>1, <3>2 DEF AsRecord!RecordNext
  <2>8. ASSUME NEW f \in FieldNames(type), SetOutside(f) PROVE AsRecord!RecordNext
    <3>1. /\ mem' = IF Tags(type, f) /\ Inside(mem, type.which)
                      THEN set_field(mem, type.which, Lane(type.tags[f])) ELSE mem
          /\ ~Enlarges(type) /\ ~Fits(type, mem, f)
          /\ type' = type /\ op'.name = "set_outside" /\ op'.field = f
      BY <2>8 DEF SetOutside
    <3>2. CASE Tags(type, f) /\ Inside(mem, type.which)
      <4>1. R1 = [g \in FieldNames(type) |->
                    IF g = f THEN Default(type.fields[f])
                    ELSE IF Excluded(type, f, g) THEN Absent ELSE R[g]]
        BY <2>1, <3>1, <3>2, SetNothing
      <4>2. IsMember(type, f)
        BY <3>2 DEF Tags
      <4> HIDE DEF R, R1
      <4>3. AsRecord!SetOutside
        BY <2>2, <3>1, <4>1, <4>2, SameWords DEF AsRecord!SetOutside, R
      <4> QED BY <3>1, <4>3 DEF AsRecord!RecordNext
    <3>3. CASE ~(Tags(type, f) /\ Inside(mem, type.which))
      <4>1. mem' = mem
        BY <3>1, <3>3
      <4>2. AsRecord!SetOutside
        BY <2>2, <3>1, <4>1, SameWords DEF AsRecord!SetOutside
      <4> QED BY <3>1, <4>2 DEF AsRecord!RecordNext
    <3> QED BY <3>2, <3>3
  <2>9. CASE InitGroupOutside
    <3>1. mem' = mem /\ type' = type /\ op'.name = "init_group_outside"
      BY <2>9 DEF InitGroupOutside, Called
    <3>2. AsRecord!Reopen
      BY <2>2, <3>1 DEF AsRecord!Reopen
    <3> QED BY <3>1, <3>2 DEF AsRecord!RecordNext
  <2>10. CASE GetGroup
    <3>1. mem' = mem /\ type' = type /\ op'.name = "get_group"
      BY <2>10 DEF GetGroup, Called
    <3>2. AsRecord!Reopen
      BY <2>2, <3>1 DEF AsRecord!Reopen
    <3> QED BY <3>1, <3>2 DEF AsRecord!RecordNext
  <2>11. CASE UNCHANGED vars
    BY <2>11 DEF vars
  <2> QED BY <2>3, <2>4, <2>5, <2>6, <2>7, <2>8, <2>9, <2>10, <2>11 DEF Next
<1> QED BY <1>1, <1>2, InvHolds, PTL DEF Spec, RecordRefined, AsRecord!RecordSpec

-------------------------------------------------------------------------------
(* The tables of the three stubs *)

\* The two types have the same fields at the same places and the same union,
\* whatever numbers a getter takes for variants and whatever a Pipeline follows.
Alike(t, u) ==
  /\ t.tags = u.tags /\ t.which = u.which
  /\ DOMAIN t.fields = DOMAIN u.fields
  /\ \A f \in DOMAIN t.fields :
       /\ t.fields[f].section = u.fields[f].section
       /\ t.fields[f].start = u.fields[f].start /\ t.fields[f].width = u.fields[f].width

LEMMA AlikeReads ==
  ASSUME NEW t, NEW u, Alike(t, u), NEW s
  PROVE  /\ Selected(t, s) = Selected(u, s)
         /\ DOMAIN t.tags = DOMAIN u.tags /\ which(t, s) = which(u, s)
<1>1. FieldNames(t) = FieldNames(u)
  BY DEF Alike, FieldNames
<1>2. ASSUME NEW f \in FieldNames(t) PROVE get(t, s, f) = get(u, s, f)
  <2>1. /\ t.fields[f].section = u.fields[f].section
        /\ t.fields[f].start = u.fields[f].start /\ t.fields[f].width = u.fields[f].width
    BY DEF Alike, FieldNames
  <2>2. Slots(t.fields[f]) = Slots(u.fields[f]) /\ Default(t.fields[f]) = Default(u.fields[f])
    BY <2>1 DEF Slots, Default
  <2> QED BY <2>1, <2>2 DEF get, get_field
<1>3. \A f : InEffect(t, s, f) <=> InEffect(u, s, f)
  BY DEF Alike, InEffect, IsMember, which
<1>4. DOMAIN t.tags = DOMAIN u.tags /\ which(t, s) = which(u, s)
  BY DEF Alike, which
<1> QED BY <1>1, <1>2, <1>3, <1>4 DEF Selected

(***************************************************************************)
(* Where the group's members are checked, all that the getters give is     *)
(* what is in effect.                                                      *)
(***************************************************************************)
LEMMA CheckedReads ==
  ASSUME NEW t, ChecksGroup(t), NEW s
  PROVE  Reading(t, s) = Selected(t, s)
<1>1. \A f : ~Unchecked(t, f)
  BY DEF Unchecked
<1> QED BY <1>1 DEF Reading, Selected

LEMMA ExpressionAgrees ==
  /\ Alike(CalculatorStructs_ts.expression, CalculatorStructs.expression)
  /\ Alike(CalculatorStructs_go.expression, CalculatorStructs.expression)
<1>1. call.fields.function = Pointer(0) /\ call.fields.params = Pointer(1)
  BY DEF call, Struct
<1> QED BY <1>1, Offsets DEF Alike, CalculatorStructs_ts, CalculatorStructs_go,
         CalculatorStructs, expression, expression_ts, expression_go, Union, ExpressionTags

\* Structs that differ in their size's unit and in what their Pipelines follow.
LEMMA StructsAlike ==
  ASSUME NEW fields, NEW lang, NEW size, NEW pipeline, NEW lang2, NEW size2, NEW pipeline2
  PROVE  Alike(Struct(lang, size, fields, pipeline), Struct(lang2, size2, fields, pipeline2))
  BY DEF Alike, Struct

\* An enumeration lies where its number does.
LEMMA EnumPlace ==
  ASSUME NEW width, NEW offset, NEW variants
  PROVE  LET e == Enum(Data(width, offset), variants)
             d == Data(width, offset)
         IN  e.section = d.section /\ e.start = d.start /\ e.width = d.width
  BY DEF Enum, Data, Field

LEMMA OperatorParamsAgree ==
  /\ Alike(CalculatorStructs_ts.get_operator_params, CalculatorStructs.get_operator_params)
  /\ Alike(CalculatorStructs_go.get_operator_params, CalculatorStructs.get_operator_params)
<1>1. CalculatorStructs_ts.get_operator_params =
        Struct("ts", ObjectSize(8, 0), [op |-> Enum(Data(U16, 0), 4)], NoPipeline)
  BY Offsets DEF CalculatorStructs_ts, get_operator_params_ts
<1>2. CalculatorStructs_go.get_operator_params =
        Struct("go", ObjectSize(8, 0), [op |-> Data(U16, 0)], NoPipeline)
  BY Offsets DEF CalculatorStructs_go, get_operator_params_go
<1>3. CalculatorStructs.get_operator_params =
        Struct("rust", STRUCT_SIZE(1, 0), [op |-> Enum(Data(U16, 0), 4)], NoPipeline)
  BY DEF CalculatorStructs, get_operator_params, OperatorVariants
<1>4. Alike(Struct("go", ObjectSize(8, 0), [op |-> Data(U16, 0)], NoPipeline),
            Struct("rust", STRUCT_SIZE(1, 0), [op |-> Enum(Data(U16, 0), 4)], NoPipeline))
  BY EnumPlace DEF Alike, Struct
<1> QED BY <1>1, <1>2, <1>3, <1>4, StructsAlike

LEMMA CalculatorAgrees ==
  ASSUME NEW n \in DOMAIN CalculatorStructs
  PROVE  /\ Alike(CalculatorStructs_ts[n], CalculatorStructs[n])
         /\ Alike(CalculatorStructs_go[n], CalculatorStructs[n])
<1>1. CASE n = "read_params"
  BY <1>1, Offsets, StructsAlike DEF CalculatorStructs, CalculatorStructs_ts,
     CalculatorStructs_go, read_params, read_params_ts, read_params_go
<1>2. CASE n = "read_results"
  BY <1>2, Offsets, StructsAlike DEF CalculatorStructs, CalculatorStructs_ts,
     CalculatorStructs_go, read_results, read_results_ts, read_results_go
<1>3. CASE n = "call_params"
  BY <1>3, Offsets, StructsAlike DEF CalculatorStructs, CalculatorStructs_ts,
     CalculatorStructs_go, call_params, call_params_ts, call_params_go
<1>4. CASE n = "call_results"
  BY <1>4, Offsets, StructsAlike DEF CalculatorStructs, CalculatorStructs_ts,
     CalculatorStructs_go, call_results, call_results_ts, call_results_go
<1>5. CASE n = "evaluate_params"
  BY <1>5, Offsets, StructsAlike DEF CalculatorStructs, CalculatorStructs_ts,
     CalculatorStructs_go, evaluate_params, evaluate_params_ts, evaluate_params_go
<1>6. CASE n = "evaluate_results"
  BY <1>6, Offsets, StructsAlike DEF CalculatorStructs, CalculatorStructs_ts,
     CalculatorStructs_go, evaluate_results, evaluate_results_ts, evaluate_results_go
<1>7. CASE n = "def_function_params"
  BY <1>7, Offsets, StructsAlike DEF CalculatorStructs, CalculatorStructs_ts,
     CalculatorStructs_go, def_function_params, def_function_params_ts, def_function_params_go
<1>8. CASE n = "def_function_results"
  BY <1>8, Offsets, StructsAlike DEF CalculatorStructs, CalculatorStructs_ts,
     CalculatorStructs_go, def_function_results, def_function_results_ts, def_function_results_go
<1>9. CASE n = "get_operator_results"
  BY <1>9, Offsets, StructsAlike DEF CalculatorStructs, CalculatorStructs_ts,
     CalculatorStructs_go, get_operator_results, get_operator_results_ts, get_operator_results_go
<1>10. CASE n \in {"expression", "get_operator_params"}
  BY <1>10, ExpressionAgrees, OperatorParamsAgree
<1> QED BY <1>1, <1>2, <1>3, <1>4, <1>5, <1>6, <1>7, <1>8, <1>9, <1>10 DEF CalculatorStructs

LEMMA PixelsAgree ==
  /\ Alike(FramesStructs_ts.video_frame, FramesStructs.video_frame)
  /\ Alike(FramesStructs_go.video_frame, FramesStructs.video_frame)
<1> DEFINE fields(pixels) ==
             [width |-> Data(U32, 0), height |-> Data(U32, 1), data |-> Pointer(0),
              pixel_format |-> pixels, stream_id |-> Data(U32, 3), pts |-> Pointer(1)]
<1>1. FramesStructs_ts.video_frame =
        Struct("ts", ObjectSize(16, 2), fields(Enum(Data(U16, 4), 1)), NoPipeline)
  BY Offsets DEF FramesStructs_ts, video_frame_ts
<1>2. FramesStructs_go.video_frame =
        Struct("go", ObjectSize(16, 2), fields(Data(U16, 4)), [pts |-> 1])
  BY Offsets DEF FramesStructs_go, video_frame_go
<1>3. FramesStructs.video_frame =
        Struct("rust", STRUCT_SIZE(2, 2), fields(Enum(Data(U16, 4), 1)), [pts |-> 1])
  BY DEF FramesStructs, video_frame, PixelFormatVariants
<1>4. Alike(Struct("go", ObjectSize(16, 2), fields(Data(U16, 4)), [pts |-> 1]),
            Struct("rust", STRUCT_SIZE(2, 2), fields(Enum(Data(U16, 4), 1)), [pts |-> 1]))
  BY EnumPlace DEF Alike, Struct
<1> QED BY <1>1, <1>2, <1>3, <1>4, StructsAlike

LEMMA FramesAgree ==
  ASSUME NEW n \in DOMAIN FramesStructs
  PROVE  /\ Alike(FramesStructs_ts[n], FramesStructs[n])
         /\ Alike(FramesStructs_go[n], FramesStructs[n])
<1>1. CASE n = "rational"
  BY <1>1, Offsets, StructsAlike DEF FramesStructs, FramesStructs_ts, FramesStructs_go,
     rational, rational_ts, rational_go
<1>2. CASE n = "audio_frame"
  BY <1>2, Offsets, StructsAlike DEF FramesStructs, FramesStructs_ts, FramesStructs_go,
     audio_frame, audio_frame_ts, audio_frame_go
<1>3. CASE n = "video_frame"
  BY <1>3, PixelsAgree
<1>4. CASE n = "frame"
  BY <1>4, Offsets DEF FramesStructs, FramesStructs_ts, FramesStructs_go, frame, frame_ts,
     frame_go, Union, Alike
<1>5. CASE n = "frames"
  BY <1>5, StructsAlike DEF FramesStructs, FramesStructs_ts, FramesStructs_go, frames,
     frames_ts, frames_go
<1> QED BY <1>1, <1>2, <1>3, <1>4, <1>5 DEF FramesStructs

(***************************************************************************)
(* What is in effect of a struct, and what its fields give, is the same    *)
(* through the stubs of Rust, TypeScript and Go, whatever the struct holds *)
(* and however short it is: the three tables of offsets, made by three     *)
(* generators, say the same.  Rust and TypeScript agree on all that their  *)
(* getters give; Go's differ for the call group when it is out of effect.  *)
(***************************************************************************)
THEOREM LanguagesAlwaysAgree == Spec => []LanguagesAgree
<1>1. /\ DOMAIN Stubs = {"rust", "ts", "go"}
      /\ \A l \in DOMAIN Stubs : /\ DOMAIN Stubs[l]["calculator"] = DOMAIN CalculatorStructs
                                 /\ DOMAIN Stubs[l]["frames"] = DOMAIN FramesStructs
  <2>1. /\ DOMAIN CalculatorStructs_ts = DOMAIN CalculatorStructs
        /\ DOMAIN CalculatorStructs_go = DOMAIN CalculatorStructs
    BY DEF CalculatorStructs, CalculatorStructs_ts, CalculatorStructs_go
  <2>2. /\ DOMAIN FramesStructs_ts = DOMAIN FramesStructs
        /\ DOMAIN FramesStructs_go = DOMAIN FramesStructs
    BY DEF FramesStructs, FramesStructs_ts, FramesStructs_go
  <2> QED BY <2>1, <2>2 DEF Stubs
<1> DEFINE Same(t, u, s) == /\ Selected(t, s) = Selected(u, s)
                            /\ DOMAIN t.tags = DOMAIN u.tags /\ which(t, s) = which(u, s)
<1>2. ASSUME NEW l \in DOMAIN Stubs, NEW n \in DOMAIN CalculatorStructs, NEW s
      PROVE  Same(Stubs[l]["calculator"][n], CalculatorStructs[n], s)
  BY <1>1, CalculatorAgrees, AlikeReads DEF Stubs
<1>3. ASSUME NEW l \in DOMAIN Stubs, NEW n \in DOMAIN FramesStructs, NEW s
      PROVE  Same(Stubs[l]["frames"][n], FramesStructs[n], s)
  BY <1>1, FramesAgree, AlikeReads DEF Stubs
<1>4. ASSUME NEW l \in DOMAIN Stubs, NEW k \in DOMAIN Stubs,
             NEW m \in {"calculator", "frames"}, NEW n \in DOMAIN Stubs[l][m], NEW s
      PROVE  ReadsAlike(Stubs[l][m][n], Stubs[k][m][n], s)
  <2> DEFINE t == Stubs[l][m][n]
             u == Stubs[k][m][n]
  <2>1. Same(t, u, s)
    BY <1>1, <1>2, <1>3
  <2> HIDE DEF t, u
  <2>2. ChecksGroup(t) /\ ChecksGroup(u) => Reading(u, s) = Reading(t, s)
    BY <2>1, CheckedReads
  <2> QED BY <2>1, <2>2 DEF ReadsAlike, t, u
<1>5. LanguagesAgree
  BY <1>4 DEF LanguagesAgree
<1> QED BY <1>5, PTL
===============================================================================
