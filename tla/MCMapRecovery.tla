--------------------------- MODULE MCMapRecovery ----------------------------
(* Instances of MapRecovery for TLC. *)
EXTENDS MapRecovery

CONSTANTS p1, p2

OnePath  == {p1}
TwoPaths == {p1, p2}

OneRetry   == {1}
AllRetries == {-2, -1, 1}
=============================================================================
