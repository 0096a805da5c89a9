----------------------------- MODULE MCDmEvents -----------------------------
(***************************************************************************)
(* A map that comes and goes.                                              *)
(***************************************************************************)
EXTENDS DmEvents

CONSTANTS m1

ThreeEach == [m \in Maps |-> 3]
FourEach  == [m \in Maps |-> 4]
=============================================================================
