-------------------------- MODULE EventStream_proofs --------------------------
(***************************************************************************)
(* What a subscriber can rely on, for any directory and any feed: the      *)
(* lemmas that the proofs about camp watch and camp serve share.           *)
(***************************************************************************)
EXTENDS EventStream, TLAPS

StreamTypeOK == directory \in Views /\ feed \in Feeds /\ Len(feed) <= MaxEvents

\* The last event about an agent says what the directory holds of it.
LastEventIsNews ==
    \A k \in 1..Len(feed) :
        (\A j \in (k + 1)..Len(feed) : feed[j].id # feed[k].id)
            => feed[k].after = directory[feed[k].id]

(***************************************************************************)
(* A picture is out of date only about agents that an event from `n` on is *)
(* still going to mention: whoever has it, and receives from n on, ends up *)
(* with the directory.                                                     *)
(***************************************************************************)
UpToDateFrom(n, picture) ==
    /\ picture \in Views
    /\ \A id \in Ids :
          (\A k \in n..Len(feed) : feed[k].id # id)
              => picture[id] = directory[id]

StreamInv == StreamTypeOK /\ LastEventIsNews

-----------------------------------------------------------------------------

\* A registry that has just been created (registry.rs:56-66).
LEMMA EmptyStream ==
    directory = [id \in Ids |-> None] /\ feed = <<>> => StreamInv
BY CapacityAssumption
   DEF StreamInv, StreamTypeOK, LastEventIsNews, Views, Feeds

\* The events of a feed are about agents and their cards (events.rs:31-56).
LEMMA EventTypes ==
    ASSUME StreamTypeOK
    PROVE  /\ Len(feed) \in Nat
           /\ \A k \in 1..Len(feed) : /\ feed[k].id \in Ids
                                     /\ feed[k].after \in Cards \cup {None}
<1> DEFINE Event == [id: Ids, before: Cards \cup {None},
                     after: Cards \cup {None}, origin: {"Remote"},
                     reason: {"NotLeft", "Graceful", "Expired"}]
<1>1. feed \in Seq(Event)
  BY DEF StreamTypeOK, Feeds
<1>2. \A e \in Event : e.id \in Ids /\ e.after \in Cards \cup {None}
  OBVIOUS
<1> HIDE DEF Event
<1>3. QED
  BY <1>1, <1>2

\* A change of the registry is a change of one card and its event.
LEMMA ChangeIsAnnounced ==
    ASSUME StreamTypeOK, ObserverChange
    PROVE  \E id \in Ids, card \in Cards \cup {None} :
              /\ directory' = [directory EXCEPT ![id] = card]
              /\ feed' \in Feeds /\ Len(feed') = Len(feed) + 1
              /\ \A k \in 1..Len(feed) : feed'[k] = feed[k]
              /\ feed'[Len(feed) + 1].id = id
              /\ feed'[Len(feed) + 1].after = card
<1> DEFINE Event == [id: Ids, before: Cards \cup {None},
                     after: Cards \cup {None}, origin: {"Remote"},
                     reason: {"NotLeft", "Graceful", "Expired"}]
<1>1. PICK id \in Ids, card \in Cards \cup {None},
           reason \in {"NotLeft", "Graceful", "Expired"} :
              Change(id, card, "Remote", reason)
  BY DEF ObserverChange, Publish, Leave, Expire
<1> DEFINE e == [id |-> id, before |-> directory[id], after |-> card,
                 origin |-> "Remote", reason |-> reason]
<1>2. e \in Event /\ e.id = id /\ e.after = card
  BY DEF StreamTypeOK, Views
<1>3. feed \in Seq(Event) /\ feed' = Append(feed, e)
  BY <1>1 DEF Change, StreamTypeOK, Feeds
<1>4. directory' = [directory EXCEPT ![id] = card]
  BY <1>1 DEF Change
<1> HIDE DEF e
<1>5. /\ feed' \in Seq(Event) /\ Len(feed') = Len(feed) + 1
      /\ \A k \in 1..Len(feed) : feed'[k] = feed[k]
      /\ feed'[Len(feed) + 1] = e
  BY <1>2, <1>3
<1>6. QED
  BY <1>2, <1>4, <1>5 DEF Feeds

LEMMA ChangeKeepsStream ==
    ASSUME StreamInv, ObserverChange
    PROVE  StreamInv'
<1>1. PICK id \in Ids, card \in Cards \cup {None} :
              /\ directory' = [directory EXCEPT ![id] = card]
              /\ feed' \in Feeds /\ Len(feed') = Len(feed) + 1
              /\ \A k \in 1..Len(feed) : feed'[k] = feed[k]
              /\ feed'[Len(feed) + 1].id = id
              /\ feed'[Len(feed) + 1].after = card
  BY ChangeIsAnnounced DEF StreamInv
<1>2. Len(feed) \in Nat /\ directory \in Views
  BY DEF StreamInv, StreamTypeOK, Feeds
<1>3. StreamTypeOK'
  BY <1>1, <1>2, CapacityAssumption DEF StreamTypeOK, ObserverChange, Views
<1>4. ASSUME NEW k \in 1..(Len(feed) + 1),
             \A j \in (k + 1)..(Len(feed) + 1) : feed'[j].id # feed'[k].id
      PROVE  feed'[k].after = directory'[feed'[k].id]
  <2>1. CASE k = Len(feed) + 1
    BY <1>1, <1>2, <2>1 DEF Views
  <2>2. CASE k \in 1..Len(feed)
    <3>1. feed'[k] = feed[k] /\ feed[k].id # id
      BY <1>1, <1>2, <1>4, <2>2
    <3>2. \A j \in (k + 1)..Len(feed) : feed[j].id # feed[k].id
      BY <1>1, <1>2, <1>4, <2>2
    <3>3. feed[k].after = directory[feed[k].id]
      BY <2>2, <3>2 DEF StreamInv, LastEventIsNews
    <3>4. feed[k].id \in Ids
      BY <2>2, EventTypes DEF StreamInv
    <3>5. QED
      BY <1>1, <1>2, <3>1, <3>3, <3>4 DEF Views
  <2>3. QED
    BY <1>2, <2>1, <2>2
<1>5. QED
  BY <1>1, <1>3, <1>4 DEF StreamInv, LastEventIsNews

\* What every step leaves alone that is not the registry's own.
LEMMA StreamUnchanged ==
    ASSUME UNCHANGED pvars
    PROVE  /\ StreamInv => StreamInv'
           /\ Len(feed') = Len(feed)
           /\ \A n, picture : UpToDateFrom(n, picture)
                                 <=> UpToDateFrom(n, picture)'
BY DEF pvars, StreamInv, StreamTypeOK, LastEventIsNews, UpToDateFrom

\* What changes later comes with a later event (registry.rs:118-134).
LEMMA ChangeKeepsPicture ==
    ASSUME StreamInv, ObserverChange,
           NEW picture, NEW n \in 1..(Len(feed) + 1), UpToDateFrom(n, picture)
    PROVE  UpToDateFrom(n, picture)'
<1>1. PICK id \in Ids, card \in Cards \cup {None} :
              /\ directory' = [directory EXCEPT ![id] = card]
              /\ feed' \in Feeds /\ Len(feed') = Len(feed) + 1
              /\ \A k \in 1..Len(feed) : feed'[k] = feed[k]
              /\ feed'[Len(feed) + 1].id = id
              /\ feed'[Len(feed) + 1].after = card
  BY ChangeIsAnnounced DEF StreamInv
<1>2. Len(feed) \in Nat /\ directory \in Views
  BY DEF StreamInv, StreamTypeOK, Feeds
<1>3. ASSUME NEW x \in Ids, \A k \in n..(Len(feed) + 1) : feed'[k].id # x
      PROVE  picture[x] = directory'[x]
  <2>1. x # id
    BY <1>1, <1>2, <1>3
  <2>2. \A k \in n..Len(feed) : feed[k].id # x
    BY <1>1, <1>2, <1>3
  <2>3. QED
    BY <1>1, <1>2, <2>1, <2>2 DEF UpToDateFrom, Views
<1>4. QED
  BY <1>1, <1>3 DEF UpToDateFrom, Views

\* A snapshot is up to date from wherever its reader goes on.
LEMMA SnapshotIsUpToDate ==
    ASSUME StreamInv, NEW n PROVE UpToDateFrom(n, directory)
BY DEF StreamInv, StreamTypeOK, UpToDateFrom

\* An event received brings its agent up to date (camp.rs:636-641, 1086).
LEMMA ReceivedIsUpToDate ==
    ASSUME StreamInv, NEW picture, NEW n \in 1..Len(feed),
           UpToDateFrom(n, picture)
    PROVE  UpToDateFrom(n + 1, Applied(picture, feed[n]))
<1>1. /\ Len(feed) \in Nat /\ directory \in Views /\ picture \in Views
      /\ feed[n].id \in Ids /\ feed[n].after \in Cards \cup {None}
  BY EventTypes DEF StreamInv, StreamTypeOK, UpToDateFrom
<1>2. Applied(picture, feed[n]) \in Views
  BY <1>1 DEF Applied, Views
<1>3. ASSUME NEW x \in Ids, \A k \in (n + 1)..Len(feed) : feed[k].id # x
      PROVE  Applied(picture, feed[n])[x] = directory[x]
  <2>1. CASE x = feed[n].id
    <3>1. feed[n].after = directory[x]
      BY <1>3, <2>1 DEF StreamInv, LastEventIsNews
    <3>2. QED
      BY <1>1, <2>1, <3>1 DEF Applied, Views
  <2>2. CASE x # feed[n].id
    <3>1. \A k \in n..Len(feed) : feed[k].id # x
      BY <1>1, <1>3, <2>2
    <3>2. QED
      BY <1>1, <2>2, <3>1 DEF Applied, Views, UpToDateFrom
  <2>3. QED
    BY <2>1, <2>2
<1>4. QED
  BY <1>2, <1>3 DEF UpToDateFrom

\* With nothing left to receive the picture is the directory.
LEMMA CaughtUpIsCurrent ==
    ASSUME StreamInv, NEW picture, NEW n \in Nat, CaughtUp(n),
           UpToDateFrom(n, picture)
    PROVE  picture = directory
<1>1. n..Len(feed) = {}
  BY EventTypes DEF StreamInv, CaughtUp
<1>2. \A id \in Ids : picture[id] = directory[id]
  BY <1>1 DEF UpToDateFrom
<1>3. QED
  BY <1>2 DEF StreamInv, StreamTypeOK, UpToDateFrom, Views
=============================================================================
