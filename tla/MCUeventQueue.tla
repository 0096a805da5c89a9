--------------------------- MODULE MCUeventQueue ----------------------------
(***************************************************************************)
(* Two paths of one LUN, a third one that is blacklisted, a dm device.     *)
(***************************************************************************)
EXTENDS UeventQueue

CONSTANTS a, b, c

\* Paths of the same LUN are interchangeable.
Symmetry == Permutations({a, b})

Stable  == [p \in Paths |-> IF p = c THEN {"w2"} ELSE {"w1"}]
Renamed == [p \in Paths |-> IF p = a THEN {"w1", "w2"} ELSE {"w1"}]
=============================================================================
