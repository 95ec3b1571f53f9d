----------------------------- MODULE StructRecord -----------------------------
(***************************************************************************)
(* What a generated struct promises the program that uses it: it is a      *)
(* record of independent fields, and a union is one member at a time.      *)
(* Nothing here knows where a field lies.                                  *)
(***************************************************************************)
EXTENDS StructLayout

VARIABLES type,        \* the struct's generated type
          op,          \* the accessor called last, with its argument
          record       \* what it holds of each field, Absent if out of effect

recordVars == <<type, op, record>>

RecordInit == DOMAIN record = FieldNames(type)

\* A fresh struct: every field has its default; a union is at the member whose
\* discriminant is 0.
Fresh ==
  /\ op'.name = "init_pointer"
  /\ record' = [f \in FieldNames(type) |->
                  IF IsMember(type, f) /\ type.tags[f] # 0
                    THEN Absent ELSE Default(type.fields[f])]

\* A field is set to what the caller gave; of a union, the other members are no
\* longer in effect.
Write ==
  /\ op'.name = "set"
  /\ op'.field \in type.group.members => record[op'.field] # Absent
  /\ record' = [g \in FieldNames(type) |->
                  IF g = op'.field THEN op'.value
                  ELSE IF Excluded(type, op'.field, g) THEN Absent ELSE record[g]]

\* A member of a group that is not in effect is set, where the language lets a
\* program hold an object of such a group: the member stays out of effect, the
\* discriminant as it is, and of the union's members the one in effect may have
\* been written over.
Stray ==
  /\ op'.name = "set" /\ ~Borrows(type)
  /\ op'.field \in type.group.members /\ record[op'.field] = Absent
  /\ DOMAIN record' = FieldNames(type)
  /\ \A g \in FieldNames(type) :
       /\ record'[g] = Absent <=> record[g] = Absent
       /\ ~Excluded(type, op'.field, g) => record'[g] = record[g]

\* A setter has no room for its field: nothing is set, but it may have put a union
\* at its member.
SetOutside ==
  /\ op'.name = "set_outside" /\ ~Enlarges(type)
  /\ \/ UNCHANGED record
     \/ /\ IsMember(type, op'.field)
        /\ record' = [g \in FieldNames(type) |->
                       IF g = op'.field THEN Default(type.fields[g])
                       ELSE IF Excluded(type, op'.field, g) THEN Absent ELSE record[g]]

\* A group is put in effect, empty if its init_ clears it.
InitGroup ==
  /\ op'.name = "init_group"
  /\ DOMAIN record' = FieldNames(type)
  /\ \A g \in FieldNames(type) :
       IF g \in type.group.members
         THEN /\ record'[g] # Absent
              /\ type.group.clears => record'[g] = Default(type.fields[g])
         ELSE record'[g] = IF IsMember(type, g) THEN Absent ELSE record[g]

\* Getting a builder for what was received, a reader of what was built or an object
\* of the group changes nothing.
Reopen ==
  /\ op'.name \in {"get_from_pointer", "into_reader", "get_group", "init_group_outside"}
  /\ UNCHANGED record

RecordNext ==
  /\ Fresh \/ Write \/ Stray \/ SetOutside \/ InitGroup \/ Reopen
  /\ UNCHANGED type

RecordSpec == RecordInit /\ [][RecordNext]_recordVars
===============================================================================
