------------------------------ MODULE MCRunner ------------------------------
(***************************************************************************)
(* One context is enough for Runner: contexts share no variable, and the   *)
(* block is allocated again after every complete life.  AsyncChecker runs  *)
(* several contexts at once.                                               *)
(***************************************************************************)
EXTENDS Runner
=============================================================================
