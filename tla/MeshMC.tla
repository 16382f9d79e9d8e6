------------------------------- MODULE MeshMC -------------------------------
(***************************************************************************)
(* Small instances of Mesh for TLC: an agent a and an observer o, or an    *)
(* agent and a camp command with the library's intervals scaled down.      *)
(***************************************************************************)
EXTENDS Mesh

CONSTANTS a, o, c1, c2

\* Defaults: the TTL is four heartbeats (120 s and 30 s).
DefaultHb == [n \in Nodes |-> 1]
DefaultTtl == [n \in Nodes |-> 4]

\* build_observer: 200 ms and 2 s, against an announcer's 30 s and 120 s.
CampHb == [n \in Nodes |-> IF n = o THEN 1 ELSE 3]
CampTtl == [n \in Nodes |-> IF n = o THEN 2 ELSE 12]
=============================================================================
