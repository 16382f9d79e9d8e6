----------------------------- MODULE RegistryMC -----------------------------
(***************************************************************************)
(* Small instances of Registry for TLC.  The two cards carry different     *)
(* instance names, so an update can change an agent's name and two agents  *)
(* can advertise the same one.                                             *)
(***************************************************************************)
EXTENDS Registry

CONSTANTS i1, i2, c1, c2

NameOfCard == [c \in {c1, c2} |-> IF c = c1 THEN i1 ELSE i2]
=============================================================================
