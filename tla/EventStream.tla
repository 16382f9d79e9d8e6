----------------------------- MODULE EventStream -----------------------------
(***************************************************************************)
(* A subscriber of the registry's feed: a tokio broadcast receiver is a    *)
(* position in the feed, and the channel keeps the last Capacity events    *)
(* (src/registry.rs).  The registry is the directory of Presence, which    *)
(* Registry implements.  The observers of the camp tool run a              *)
(* discovery-only node, whose feed has remote events only.                 *)
(***************************************************************************)
EXTENDS Presence, Integers

CONSTANTS
    Capacity,     \* events the broadcast channel keeps for slow receivers
    MaxEvents     \* bound: the directory changes at most this often

ASSUME CapacityAssumption == Capacity \in Nat \ {0} /\ MaxEvents \in Nat

\* Fault: a new receiver starts past the first event it should see.
ReceiverPastNext == Len(feed) + 2

\* What a new receiver is at: the first event not yet sent.
NewReceiver == Len(feed) + 1

CaughtUp(next) == next = Len(feed) + 1

\* RecvError::Lagged: the slot of the next event was overwritten.
Lagged(next) == Len(feed) - next >= Capacity

\* recv() returns the event at `next`.
CanReceive(next) == next <= Len(feed) /\ ~Lagged(next)

\* A reader's picture of the directory after one more event.
Applied(view, event) == [view EXCEPT ![event.id] = event.after]

\* The network changes what the observer's registry holds.
ObserverChange ==
    /\ Len(feed) < MaxEvents
    /\ \E id \in Ids :
          \/ \E card \in Cards : Publish(id, card, "Remote")
          \/ Leave(id, "Remote")
          \/ Expire(id)

Views == [Ids -> Cards \cup {None}]
Feeds == Seq([id: Ids, before: Cards \cup {None}, after: Cards \cup {None},
              origin: {"Remote"}, reason: {"NotLeft", "Graceful", "Expired"}])
=============================================================================
