------------------------------ MODULE MCTrivyDb ------------------------------
(***************************************************************************)
(* Two updates and a scan.  A database is rejected when it is two ticks    *)
(* old, so one that is current, one that ages and one that expires occur   *)
(* within four ticks.                                                      *)
(***************************************************************************)
EXTENDS TrivyDb
=============================================================================
