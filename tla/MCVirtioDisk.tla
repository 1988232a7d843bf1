--------------------------- MODULE MCVirtioDisk ---------------------------
(***************************************************************************)
(* The noop driver for TLC.  Old is what blocks may hold at the start and  *)
(* nobody writes, so that a write that is lost or goes astray is seen.     *)
(***************************************************************************)
EXTENDS VirtioDisk

CONSTANT Old

WritesNew == \A p \in Procs, b \in Bufs : ~CallWrite(p, b, Old)
MCSpec == Init /\ [][Next /\ WritesNew]_vars /\ Fairness
=============================================================================
