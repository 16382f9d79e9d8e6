----------------------------- MODULE MeshNodeMC -----------------------------
(***************************************************************************)
(* Small instances of MeshNode for TLC: the local agent with contents c1   *)
(* and c2 and, in some runs, a peer that may announce p1, a content under  *)
(* another instance name, signed or not.                                   *)
(***************************************************************************)
EXTENDS MeshNode

CONSTANTS me, peer, c1, c2, p1, here, there, app1

AllCallers == Tasks \cup {Main} \cup Apps
AllCards == [content: Contents, signature: Contents \cup {Unsigned}]
NameOfCard == [card \in Cards |-> IF card.content = p1 THEN there ELSE here]

PeerCards == {[content |-> p1, signature |-> p1],
              [content |-> p1, signature |-> Unsigned]}

\* Node configurations.
Observer == [advertise |-> FALSE, auth |-> FALSE, verify |-> FALSE]
Plain == [advertise |-> TRUE, auth |-> FALSE, verify |-> FALSE]
Signing == [advertise |-> TRUE, auth |-> TRUE, verify |-> FALSE]
Verifying == [advertise |-> TRUE, auth |-> TRUE, verify |-> TRUE]

JustPlain == {Plain}
JustSigning == {Signing}
JustVerifying == {Verifying}
VerifyingOrObserver == {Verifying, Observer}
=============================================================================
