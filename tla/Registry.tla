------------------------------ MODULE Registry ------------------------------
(***************************************************************************)
(* The concurrent in-memory registry of agents (src/registry.rs): a map    *)
(* behind a tokio RwLock, a clock that stamps observations, and a          *)
(* broadcast channel on which every change of the map is announced.        *)
(*                                                                         *)
(* Callers are the tasks that share a Registry handle (listener,           *)
(* heartbeat, sweeper, application).  An operation that reads the clock    *)
(* does so BEFORE it waits for the write lock, so it takes two steps: a    *)
(* Begin action that captures the instant and an action that runs under    *)
(* the lock.  Eviction holds the lock over several steps, one per victim,  *)
(* because each departure is sent, and can be received, on its own.        *)
(***************************************************************************)
EXTENDS Integers, Sequences

CONSTANTS
    Ids,          \* agent identifiers, the keys of the map
    Cards,        \* what an agent advertises: all that same_payload_as compares
    Instances,    \* DNS-SD instance names
    InstanceOf,   \* the instance name an advertised card carries
    Callers,      \* tasks that hold a Registry handle
    None,         \* "no agent", "no card" or "no caller"
    Ttl,          \* the registry's time-to-live, in clock ticks
    MaxTime,      \* bound: the clock stops here
    MaxEvents     \* bound: no operation starts once this many events were sent

\* AgentInfo without its key: the advertised fields and last_seen.
AgentInfo == [card: Cards, last_seen: Nat]

ASSUME CardsAssumption ==
    /\ None \notin Cards /\ None \notin AgentInfo /\ None \notin Callers
    /\ InstanceOf \in [Cards -> Instances]
ASSUME TtlAssumption == Ttl \in Nat
ASSUME BoundsAssumption == MaxTime \in Nat /\ MaxEvents \in Nat

VARIABLES
    inner,        \* the map: the entry of every identifier, or None
    now,          \* the monotonic clock
    call,         \* the operation each caller has begun and not finished
    writer,       \* who holds the write lock between two steps, or None
    stale,        \* the identifiers the evicting writer has still to remove
    log           \* every event sent on the broadcast channel, in order

vars == <<inner, now, call, writer, stale, log>>

-----------------------------------------------------------------------------
(* Entries, pending operations and events. *)

Origins == {"Local", "Remote"}
Reasons == {"Graceful", "Expired", "NotLeft"}

Idle == [op |-> "idle"]
UpsertCall == [op: {"upsert"}, id: Ids, card: Cards, at: Nat, origin: Origins]
EvictCall == [op: {"evict"}, at: Nat]
Calls == {Idle} \cup UpsertCall \cup EvictCall

(***************************************************************************)
(* An AgentEvent as the transition it reports: Joined has no card before,  *)
(* Left none after.  last_seen is carried by the code's events too, but no *)
(* event is sent when only last_seen changes.                              *)
(***************************************************************************)
AgentEvent == [id: Ids, before: Cards \cup {None}, after: Cards \cup {None},
               origin: Origins, reason: Reasons]

Joined(id, card, origin) ==
    [id |-> id, before |-> None, after |-> card,
     origin |-> origin, reason |-> "NotLeft"]

Updated(id, previous, card, origin) ==
    [id |-> id, before |-> previous, after |-> card,
     origin |-> origin, reason |-> "NotLeft"]

Left(id, card, origin, reason) ==
    [id |-> id, before |-> card, after |-> None,
     origin |-> origin, reason |-> reason]

Present == {id \in Ids : inner[id] # None}

\* The advertised card on record for id, or None.
CardOf(id) == IF inner[id] = None THEN None ELSE inner[id].card

\* Fault: an agent is stale as soon as its age reaches the TTL.
FaultyIsStale(id, at) == at - inner[id].last_seen >= Ttl

IsStale(id, at) == at - inner[id].last_seen > Ttl

-----------------------------------------------------------------------------
(* The operations. *)

Init ==
    /\ inner = [id \in Ids |-> None]
    /\ now = 0
    /\ call = [c \in Callers |-> Idle]
    /\ writer = None
    /\ stale = {}
    /\ log = <<>>

\* Fault: the observation is stamped with its eviction cut-off.
FaultyBeginUpsert(c, id, card, origin) ==
    /\ call[c] = Idle
    /\ call' = [call EXCEPT ![c] = [op |-> "upsert", id |-> id, card |-> card,
                                    at |-> now - Ttl, origin |-> origin]]
    /\ UNCHANGED <<inner, now, writer, stale, log>>

\* upsert_local, upsert_remote: Instant::now() is an argument of the call.
BeginUpsert(c, id, card, origin) ==
    /\ call[c] = Idle
    /\ call' = [call EXCEPT ![c] = [op |-> "upsert", id |-> id, card |-> card,
                                    at |-> now, origin |-> origin]]
    /\ UNCHANGED <<inner, now, writer, stale, log>>

\* An upsert's effect on the map: insert, replace or refresh the entry.
Store(u) == inner' = [inner EXCEPT
                        ![u.id] = [card |-> u.card, last_seen |-> u.at]]

\* Fault: a refresh is announced like an update.
UpsertAnnouncesRefresh(c) ==
    /\ call[c].op = "upsert"
    /\ writer = None
    /\ LET u == call[c] IN
       /\ Store(u)
       /\ log' = Append(log, Updated(u.id, CardOf(u.id), u.card, u.origin))
    /\ call' = [call EXCEPT ![c] = Idle]
    /\ UNCHANGED <<now, writer, stale>>

\* Fault: a refresh does not wait for the write lock.
UpsertIgnoresLock(c) ==
    /\ call[c].op = "upsert"
    /\ LET u == call[c] IN
       /\ writer = None \/ CardOf(u.id) = u.card
       /\ Store(u)
       /\ log' = IF CardOf(u.id) = u.card THEN log
                 ELSE Append(log, Updated(u.id, CardOf(u.id), u.card, u.origin))
    /\ call' = [call EXCEPT ![c] = Idle]
    /\ UNCHANGED <<now, writer, stale>>

\* upsert_with_origin_at once the write lock is granted.
FinishUpsert(c) ==
    /\ call[c].op = "upsert"
    /\ writer = None
    /\ LET u == call[c] IN
       /\ Store(u)
       /\ \/ /\ CardOf(u.id) = u.card             \* Refreshed
             /\ log' = log
          \/ /\ CardOf(u.id) \notin {u.card, None} \* Updated
             /\ log' = Append(log, Updated(u.id, CardOf(u.id), u.card,
                                           u.origin))
          \/ /\ CardOf(u.id) = None               \* Inserted
             /\ log' = Append(log, Joined(u.id, u.card, u.origin))
    /\ call' = [call EXCEPT ![c] = Idle]
    /\ UNCHANGED <<now, writer, stale>>

\* Fault: evictions are not announced.
TakeOutSilently(id, origin, reason) ==
    /\ inner[id] # None
    /\ inner' = [inner EXCEPT ![id] = None]
    /\ log' = IF reason = "Expired" THEN log
              ELSE Append(log, Left(id, inner[id].card, origin, reason))

\* What every removal does to the map and sends, under the write lock.
TakeOut(id, origin, reason) ==
    /\ inner[id] # None
    /\ inner' = [inner EXCEPT ![id] = None]
    /\ log' = Append(log, Left(id, inner[id].card, origin, reason))

\* remove_local, remove_remote: nothing is captured before the lock.
Remove(id, origin) ==
    /\ writer = None
    /\ TakeOut(id, origin, "Graceful")
    /\ UNCHANGED <<now, call, writer, stale>>

\* The first match of a HashMap iteration: any entry with that name.
RemoveByInstanceName(instance) ==
    /\ writer = None
    /\ \E id \in Present :
          /\ InstanceOf[inner[id].card] = instance
          /\ TakeOut(id, "Remote", "Graceful")
    /\ UNCHANGED <<now, call, writer, stale>>

BeginEvict(c) ==
    /\ call[c] = Idle
    /\ call' = [call EXCEPT ![c] = [op |-> "evict", at |-> now]]
    /\ UNCHANGED <<inner, now, writer, stale, log>>

\* evict_stale_at takes the lock and collects stale_ids.
CollectStale(c) ==
    /\ call[c].op = "evict"
    /\ writer = None
    /\ writer' = c
    /\ stale' = {id \in Present : IsStale(id, call[c].at)}
    /\ UNCHANGED <<inner, now, call, log>>

\* Fault: all the listed agents go at once, one of them announced.
EvictAllAtOnce(c, id) ==
    /\ writer = c
    /\ id \in stale
    /\ inner' = [x \in Ids |-> IF x \in stale THEN None ELSE inner[x]]
    /\ log' = Append(log, Left(id, inner[id].card, "Remote", "Expired"))
    /\ stale' = {}
    /\ UNCHANGED <<now, call, writer>>

EvictOne(c, id) ==
    /\ writer = c
    /\ id \in stale
    /\ TakeOut(id, "Remote", "Expired")
    /\ stale' = stale \ {id}
    /\ UNCHANGED <<now, call, writer>>

\* Fault: the sweep returns without giving the lock back.
FinishEvictLocked(c) ==
    /\ writer = c
    /\ stale = {}
    /\ call' = [call EXCEPT ![c] = Idle]
    /\ UNCHANGED <<inner, now, writer, stale, log>>

\* The guard of the write lock is dropped when evict_stale_at returns.
FinishEvict(c) ==
    /\ writer = c
    /\ stale = {}
    /\ writer' = None
    /\ call' = [call EXCEPT ![c] = Idle]
    /\ UNCHANGED <<inner, now, stale, log>>

Tick ==
    /\ now < MaxTime
    /\ now' = now + 1
    /\ UNCHANGED <<inner, call, writer, stale, log>>

-----------------------------------------------------------------------------
(* Any caller may ask for any operation at any time. *)

Step(c) ==
    \/ FinishUpsert(c)
    \/ CollectStale(c)
    \/ \E id \in Ids : EvictOne(c, id)
    \/ FinishEvict(c)

Request(c) ==
    /\ Len(log) < MaxEvents
    /\ \/ \E id \in Ids, card \in Cards, origin \in Origins :
             BeginUpsert(c, id, card, origin)
       \/ BeginEvict(c)

RemoveRequest ==
    /\ Len(log) < MaxEvents
    /\ \/ \E id \in Ids, origin \in Origins : Remove(id, origin)
       \/ \E instance \in Instances : RemoveByInstanceName(instance)

Next ==
    \/ \E c \in Callers : Request(c) \/ Step(c)
    \/ RemoveRequest
    \/ Tick

Spec == Init /\ [][Next]_vars

(***************************************************************************)
(* tokio polls a task that was woken, and its RwLock queues waiters first  *)
(* in first out, so a waiting caller is not overtaken for ever: strong     *)
(* fairness of the steps a begun operation still has to take.              *)
(***************************************************************************)
Fairness == \A c \in Callers : SF_vars(Step(c))

FairSpec == Spec /\ Fairness
-----------------------------------------------------------------------------
(* Properties. *)

TypeOK ==
    /\ inner \in [Ids -> AgentInfo \cup {None}]
    /\ now \in Nat
    /\ call \in [Callers -> Calls]
    /\ writer \in Callers \cup {None}
    /\ stale \in SUBSET Ids
    /\ log \in Seq(AgentEvent)

\* After the first n events of feed s, the card they announce for id.
EndsWith(s, n, id, card) ==
    \/ /\ card = None
       /\ \A k \in 1..n : s[k].id # id
    \/ \E i \in 1..n :
          /\ s[i].id = id
          /\ s[i].after = card
          /\ \A k \in (i + 1)..n : s[k].id # id

(***************************************************************************)
(* What a subscriber is told about one agent is a chain: a first event     *)
(* that is a join, then every event starting from the card the previous    *)
(* one ended with (Updated.previous is the card last announced, a Left     *)
(* carries it, a rejoin starts from nothing), and none that changes        *)
(* nothing.  Interleaved upserts, removals and evictions of the same       *)
(* identifier by several tasks would break it if the event were built from *)
(* anything read outside the write lock (registry.rs:105-136, 161-170).    *)
(***************************************************************************)
FeedIsChained ==
    \A j \in DOMAIN log :
        /\ log[j].before # log[j].after
        /\ EndsWith(log, j - 1, log[j].id, log[j].before)

(***************************************************************************)
(* The last event about an agent tells exactly what the map holds for it:  *)
(* no change of the map goes unannounced and no event announces a change   *)
(* that was not made, even half-way through a sweep (registry.rs:316-339). *)
(***************************************************************************)
FeedMatchesMap == \A id \in Ids : EndsWith(log, Len(log), id, CardOf(id))

(***************************************************************************)
(* From collecting stale_ids until the lock is dropped, exactly the listed *)
(* agents are stale at the sweep's instant: a late upsert neither slips an *)
(* agent out of the list nor is an agent refreshed and then evicted        *)
(* (registry.rs:319-339).                                                  *)
(***************************************************************************)
SweepIsExact ==
    IF writer = None
    THEN stale = {}
    ELSE /\ call[writer].op = "evict"
         /\ stale = {id \in Present : IsStale(id, call[writer].at)}

(***************************************************************************)
(* An agent is announced as Expired only when its recorded observation is  *)
(* older than the TTL at that very moment, although the sweep compares     *)
(* with an instant captured before it waited for the lock                  *)
(* (registry.rs:316, 319-334).                                             *)
(***************************************************************************)
Expires(id) ==
    /\ inner[id] # None /\ inner'[id] = None
    /\ log' # log /\ log'[Len(log')].reason = "Expired"

NoPrematureExpiry ==
    [][\A id \in Ids : Expires(id) => now - inner[id].last_seen > Ttl]_vars

(***************************************************************************)
(* Every begun operation returns: a sweep in progress always drops the     *)
(* lock and no caller starves behind it (registry.rs:105, 161, 180, 320).  *)
(***************************************************************************)
EveryCallReturns ==
    \A c \in Callers : call[c] # Idle ~> call[c] = Idle

(***************************************************************************)
(* The registry implements the abstract directory of Presence.tla: its     *)
(* locks, clock and pending calls only ever produce announced, one-agent   *)
(* changes of the published cards.                                         *)
(***************************************************************************)
Directory ==
    INSTANCE Presence WITH directory <- [id \in Ids |-> CardOf(id)],
                           feed <- log

ImplementsPresence == Directory!Spec
=============================================================================
