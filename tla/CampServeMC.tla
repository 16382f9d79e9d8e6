----------------------------- MODULE CampServeMC -----------------------------
(***************************************************************************)
(* Small instances of CampServe for TLC.                                   *)
(***************************************************************************)
EXTENDS CampServe
=============================================================================
