---------------------------- MODULE MCStructBuilder ---------------------------
(***************************************************************************)
(* Every struct type of the two schemas, as each of the three stubs has    *)
(* it.  Numbers are two of each width, with lanes that all differ;         *)
(* received structs are shorter or longer than the types, empty or filled, *)
(* and one has room for every number and for no pointer.                   *)
(***************************************************************************)
EXTENDS StubsAgree

CONSTANTS p1, p2

MCTypes == UNION {{Stubs[l][m][n] : n \in DOMAIN Stubs[l][m]} :
                    l \in DOMAIN Stubs, m \in {"calculator", "frames"}}

MCNumbers == [w \in {U16, U32, F64} |->
                {[k \in 0 .. (w - 1) |-> 0], [k \in 0 .. (w - 1) |-> k + 2]}]

MCPointers == {p1, p2}

Filled(lanes, pointers, x, p) ==
  [data |-> [j \in 0 .. (lanes - 1) |-> x], pointers |-> [j \in 0 .. (pointers - 1) |-> p]]

MCReceived == {Filled(0, 0, 0, Null), Filled(4, 1, 1, p1), Filled(12, 3, 3, p1),
               Filled(12, 1, 9, p2), Filled(8, 0, 2, Null)}
===============================================================================
