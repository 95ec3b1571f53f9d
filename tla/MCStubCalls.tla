------------------------------ MODULE MCStubCalls -----------------------------
(***************************************************************************)
(* Every method of the three interfaces, called from each language on      *)
(* objects written in each, of the interface meant and of the others.      *)
(* Numbers cover every variant of Operator.                                *)
(***************************************************************************)
EXTENDS StubCalls

CONSTANT p1

MCNumbers == [w \in {U16, U32, F64} |->
                IF w = U16 THEN {Lane(x) : x \in 0 .. 3}
                ELSE {[k \in 0 .. (w - 1) |-> k + 2]}]

MCPointers == {p1}
===============================================================================
