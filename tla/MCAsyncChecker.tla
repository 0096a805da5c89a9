--------------------------- MODULE MCAsyncChecker ---------------------------
(***************************************************************************)
(* One checker.  Two contexts let an abandoned runner's thread live on     *)
(* beside the current check.                                               *)
(***************************************************************************)
EXTENDS AsyncChecker, TLC

Symmetry == Permutations(Ctx)
=============================================================================
