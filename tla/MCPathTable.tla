---------------------------- MODULE MCPathTable -----------------------------
(***************************************************************************)
(* Two devices: d1 may be LUN A or LUN B, d2 is LUN A.                      *)
(***************************************************************************)
EXTENDS PathTable

CONSTANTS d1, d2, A, B

TwoLuns == [d \in Devs |-> IF d = d1 THEN {A, B} ELSE {A}]
=============================================================================
