----------------------------- MODULE CampWatchMC -----------------------------
(***************************************************************************)
(* Small instances of CampWatch for TLC.                                   *)
(***************************************************************************)
EXTENDS CampWatch
=============================================================================
