------------------------------ MODULE Presence ------------------------------
(***************************************************************************)
(* What the registry promises to its readers and subscribers, with no lock *)
(* and no clock: a directory that holds at most one card per agent, and a  *)
(* feed on which each change of the directory is announced once, at the    *)
(* moment it is made, one agent at a time (src/registry.rs, src/events.rs).*)
(***************************************************************************)
EXTENDS Sequences

CONSTANTS Ids, Cards, None

VARIABLES directory, feed

pvars == <<directory, feed>>

Init ==
    /\ directory = [id \in Ids |-> None]
    /\ feed = <<>>

\* One agent's card becomes `card`, and the feed says so.
Change(id, card, origin, reason) ==
    /\ directory[id] # card
    /\ directory' = [directory EXCEPT ![id] = card]
    /\ feed' = Append(feed, [id |-> id, before |-> directory[id],
                             after |-> card, origin |-> origin,
                             reason |-> reason])

\* An agent joins, or the card it advertises is replaced.
Publish(id, card, origin) == Change(id, card, origin, "NotLeft")

\* A member leaves: gracefully, or expired and then always as a remote peer.
Leave(id, origin) == Change(id, None, origin, "Graceful")
Expire(id) == Change(id, None, "Remote", "Expired")

Next ==
    \E id \in Ids :
        \/ \E card \in Cards, origin \in {"Local", "Remote"} :
              Publish(id, card, origin)
        \/ \E origin \in {"Local", "Remote"} : Leave(id, origin)
        \/ Expire(id)

Spec == Init /\ [][Next]_pvars
=============================================================================
