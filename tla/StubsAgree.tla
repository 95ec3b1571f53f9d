------------------------------ MODULE StubsAgree ------------------------------
(***************************************************************************)
(* Structs built by one program and read by another, written in another    *)
(* language.                                                               *)
(***************************************************************************)
EXTENDS StructBuilder, StubTables

(***************************************************************************)
(* A struct built with the stub of one language reads the same with the    *)
(* stubs of the other two, to a program that asks for the discriminant     *)
(* first: the same member of a union is in effect and its fields give the  *)
(* same.  To one that does not, Rust and TypeScript still give the same;   *)
(* Go gives what the places of the call group hold, whatever is in effect. *)
(***************************************************************************)
ReadsAlike(t, u, s) ==
  /\ DOMAIN t.tags # {} => which(u, s) = which(t, s)
  /\ Selected(u, s) = Selected(t, s)
  /\ ChecksGroup(t) /\ ChecksGroup(u) => Reading(u, s) = Reading(t, s)

LanguagesAgree ==
  \A l, k \in DOMAIN Stubs : \A m \in {"calculator", "frames"} :
    \A n \in DOMAIN Stubs[l][m] :
      Stubs[l][m][n] = type => ReadsAlike(type, Stubs[k][m][n], mem)
===============================================================================
