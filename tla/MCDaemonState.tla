--------------------------- MODULE MCDaemonState ---------------------------
(***************************************************************************)
(* Two maps: one may still wait for udev when the other stops waiting.     *)
(***************************************************************************)
EXTENDS DaemonState
=============================================================================
