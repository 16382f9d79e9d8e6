-------------------------------- MODULE Mesh --------------------------------
(***************************************************************************)
(* Several ZeroConfMesh nodes on one network: what each node's registry    *)
(* knows of the others while they start, announce, update, shut down or    *)
(* crash, and while the network delays, reorders, duplicates and loses     *)
(* what they say.  A node is seen from outside: its registry's remote      *)
(* entries, its two timers and its announcement; what happens inside one   *)
(* node, and how late its timers may be, is module MeshNode.               *)
(*                                                                         *)
(* External: the network, and the mdns-sd daemons, of which we assume that *)
(* an announcement that arrives is reported as ServiceResolved, also when  *)
(* nothing in it changed, a goodbye as ServiceRemoved, and that the        *)
(* daemons answer a new browser.                                           *)
(***************************************************************************)
EXTENDS Integers, FiniteSets

CONSTANTS
    Nodes,
    Advertisers,    \* the nodes not started with discover_only()
    Contents,       \* what an agent may announce of itself
    None,
    Hb, Ttl,        \* each node's heartbeat_interval and ttl, in ticks
    MaxDelay,       \* the longest a message is on its way
    MaxLoss         \* how many announcements in a row one receiver may miss

ASSUME MeshAssumption ==
    /\ IsFiniteSet(Nodes) /\ Nodes # {}
    /\ Advertisers \subseteq Nodes /\ None \notin [content: Contents, age: Nat]
    /\ Hb \in [Nodes -> Nat \ {0}] /\ Ttl \in [Nodes -> Nat \ {0}]
    /\ MaxDelay \in Nat /\ MaxLoss \in Nat

VARIABLES
    up,             \* the node runs
    agent,          \* what it announces, None while it does not
    beat_in, sweep_in,  \* ticks until the next heartbeat and sweep
    registry,       \* registry[n][p]: n's entry for p, with its age, or None
    air,            \* what is on its way
    losses,         \* losses[n][p]: announcements of p that n just missed
    calm            \* calm[n][p]: for how long n has run and p has not changed

meshVars == <<up, agent, beat_in, sweep_in, registry, air, losses, calm>>

Nobody == [p \in Nodes |-> None]
Longest == CHOOSE t \in {Ttl[n] : n \in Nodes} : \A n \in Nodes : Ttl[n] <= t
Slowest == CHOOSE t \in {Hb[n] : n \in Nodes} : \A n \in Nodes : Hb[n] <= t
Settled == 2 * MaxDelay + (MaxLoss + 1) * Slowest  \* bounds of the properties
CleanedUp == MaxDelay + Longest + Slowest
MaxCalm == 1 + (IF Settled > CleanedUp THEN Settled ELSE CleanedUp)

Capped(t, bound) == IF t > bound THEN bound ELSE t

Entries == [content: Contents, age: Nat]
Messages == [kind: {"announce", "goodbye"}, from: Nodes, to: Nodes,
             content: Contents \cup {None}, age: 0..MaxDelay,
             delivered: BOOLEAN]

MeshInit ==
    /\ up = [n \in Nodes |-> FALSE]
    /\ agent = [n \in Nodes |-> None]
    /\ beat_in = [n \in Nodes |-> 0] /\ sweep_in = [n \in Nodes |-> 0]
    /\ registry = [n \in Nodes |-> Nobody]
    /\ air = {}
    /\ losses = [n \in Nodes |-> [p \in Nodes |-> 0]]
    /\ calm = [n \in Nodes |-> [p \in Nodes |-> MaxCalm]]

-----------------------------------------------------------------------------
(* The network. *)

Message(kind, p, n, content) ==
    [kind |-> kind, from |-> p, to |-> n, content |-> content, age |-> 0,
     delivered |-> FALSE]

(***************************************************************************)
(* Each pair of sender and receiver in `sent` either misses the            *)
(* announcement, at most MaxLoss times in a row, or will be delivered it.  *)
(***************************************************************************)
Multicast(sent, said) ==
    \E missed \in SUBSET sent :
        /\ \A l \in missed : losses[l.to][l.from] < MaxLoss
        /\ losses' = [n \in Nodes |-> [p \in Nodes |->
              LET link == [from |-> p, to |-> n] IN
              CASE link \in missed -> losses[n][p] + 1
                [] link \in sent \ missed -> 0
                [] OTHER -> losses[n][p]]]
        /\ air' = air \cup {Message("announce", l.from, l.to, said[l.from]) :
                               l \in sent \ missed}

Links(senders, receivers) ==
    {l \in [from: senders, to: receivers] : l.from # l.to}

Announce(p, said) == Multicast(Links({p}, Nodes), said)

\* A goodbye is sent once; any receiver may miss it.
Goodbye(p) ==
    \E reached \in SUBSET (Nodes \ {p}) :
        air' = air \cup {Message("goodbye", p, n, None) : n \in reached}

\* p changed, for everyone; a node that starts has seen nothing yet.
Disturb(p) ==
    calm' = [n \in Nodes |-> [q \in Nodes |->
                IF n # q /\ p \in {n, q} THEN 0 ELSE calm[n][q]]]

-----------------------------------------------------------------------------
(* The nodes. *)

\* from_config: announce, browse, and start both timers, due at once.
Start(n) ==
    /\ ~up[n]
    /\ up' = [up EXCEPT ![n] = TRUE]
    /\ \E content \in Contents :
          agent' = [agent EXCEPT ![n] = IF n \in Advertisers THEN content
                                                             ELSE None]
    /\ UNCHANGED <<beat_in, sweep_in, registry>>
    /\ LET others == {p \in Advertisers : up[p]}
           mine == Advertisers \cap {n}
       IN  Multicast(Links(mine, Nodes) \cup Links(others, {n}), agent')
    /\ Disturb(n)

\* The heartbeat task announces again; only an advertising node has one.
Heartbeat(n) ==
    /\ up[n] /\ n \in Advertisers /\ beat_in[n] = 0
    /\ Announce(n, agent)
    /\ beat_in' = [beat_in EXCEPT ![n] = Hb[n]]
    /\ UNCHANGED <<up, agent, sweep_in, registry, calm>>

\* update_*: the new announcement is sent at once.  An observer's is not.
Update(n) ==
    /\ up[n] /\ n \in Advertisers
    /\ \E content \in Contents \ {agent[n]} :
          agent' = [agent EXCEPT ![n] = content]
    /\ Announce(n, agent')
    /\ Disturb(n)
    /\ UNCHANGED <<up, beat_in, sweep_in, registry>>

IsStale(n, entry) == entry # None /\ entry.age > Ttl[n]

Fresh(n) ==
    [p \in Nodes |-> IF IsStale(n, registry[n][p]) THEN None
                                                   ELSE registry[n][p]]

\* Fault: the sweeper's interval is the TTL.
SweepEveryTtl(n) ==
    /\ up[n] /\ sweep_in[n] = 0
    /\ registry' = [registry EXCEPT ![n] = Fresh(n)]
    /\ sweep_in' = [sweep_in EXCEPT ![n] = Ttl[n]]
    /\ UNCHANGED <<up, agent, beat_in, air, losses, calm>>

\* The sweeper runs at the heartbeat interval, on observers too.
Sweep(n) ==
    /\ up[n] /\ sweep_in[n] = 0
    /\ registry' = [registry EXCEPT ![n] = Fresh(n)]
    /\ sweep_in' = [sweep_in EXCEPT ![n] = Hb[n]]
    /\ UNCHANGED <<up, agent, beat_in, air, losses, calm>>

\* The process is gone, its memory with it.
Down(n) ==
    /\ up[n]
    /\ up' = [up EXCEPT ![n] = FALSE]
    /\ agent' = [agent EXCEPT ![n] = None]
    /\ beat_in' = [beat_in EXCEPT ![n] = 0]
    /\ sweep_in' = [sweep_in EXCEPT ![n] = 0]
    /\ registry' = [registry EXCEPT ![n] = Nobody]
    /\ losses' = [losses EXCEPT ![n] = [p \in Nodes |-> 0]]
    /\ Disturb(n)

\* An advertising node withdraws its service; an observer has none.
Shutdown(n) ==
    /\ Down(n)
    /\ IF n \in Advertisers THEN Goodbye(n) ELSE UNCHANGED air

Crash(n) == Down(n) /\ UNCHANGED air

-----------------------------------------------------------------------------
(* The listener. *)

Arrived(m) ==
    /\ m \in air /\ up[m.to]
    /\ air' = (air \ {m}) \cup {[m EXCEPT !.delivered = TRUE]}

Record(n, p, entry) == registry' = [registry EXCEPT ![n][p] = entry]

\* Fault: an announcement that tells nothing new is dropped.
ResolvedIfNews(m) ==
    /\ m.kind = "announce" /\ Arrived(m)
    /\ LET known == registry[m.to][m.from] IN
       IF known # None /\ known.content = m.content
       THEN UNCHANGED registry
       ELSE Record(m.to, m.from, [content |-> m.content, age |-> 0])
    /\ UNCHANGED <<up, agent, beat_in, sweep_in, losses, calm>>

\* ServiceResolved: the entry is inserted, replaced or only refreshed.
Resolved(m) ==
    /\ m.kind = "announce" /\ Arrived(m)
    /\ Record(m.to, m.from, [content |-> m.content, age |-> 0])
    /\ UNCHANGED <<up, agent, beat_in, sweep_in, losses, calm>>

\* Fault: the goodbye only clears what the agent said.
RemovedInPart(m) ==
    /\ m.kind = "goodbye" /\ Arrived(m)
    /\ Record(m.to, m.from, [content |-> None, age |-> 0])
    /\ UNCHANGED <<up, agent, beat_in, sweep_in, losses, calm>>

\* ServiceRemoved: the entry goes, whichever life of p said goodbye.
Removed(m) ==
    /\ m.kind = "goodbye" /\ Arrived(m)
    /\ Record(m.to, m.from, None)
    /\ UNCHANGED <<up, agent, beat_in, sweep_in, losses, calm>>

(***************************************************************************)
(* Time passes once everything due is done.  A message may be delivered    *)
(* again as long as it is on its way, and has to be before it is too old.  *)
(***************************************************************************)
Clock ==
    /\ \A n \in Nodes : up[n] => /\ sweep_in[n] > 0
                                 /\ n \in Advertisers => beat_in[n] > 0
    /\ \A m \in air : m.age = MaxDelay /\ up[m.to] => m.delivered
    /\ beat_in' = [n \in Nodes |-> IF beat_in[n] = 0 THEN 0 ELSE beat_in[n] - 1]
    /\ sweep_in' = [n \in Nodes |-> IF sweep_in[n] = 0 THEN 0 ELSE sweep_in[n] - 1]
    /\ registry' = [n \in Nodes |-> [p \in Nodes |->
          LET entry == registry[n][p] IN
          IF entry = None THEN None
          ELSE [entry EXCEPT !.age = Capped(entry.age + 1, Ttl[n] + 1)]]]
    /\ air' = {[m EXCEPT !.age = @ + 1] :
                   m \in {l \in air : l.age < MaxDelay /\ up[l.to]}}
    /\ calm' = [n \in Nodes |-> [p \in Nodes |->
                   Capped(calm[n][p] + 1, MaxCalm)]]
    /\ UNCHANGED <<up, agent, losses>>

MeshNext ==
    \/ \E n \in Nodes : \/ Start(n) \/ Heartbeat(n) \/ Update(n) \/ Sweep(n)
                        \/ Shutdown(n) \/ Crash(n)
    \/ \E m \in air : Resolved(m) \/ Removed(m)
    \/ Clock

MeshSpec == MeshInit /\ [][MeshNext]_meshVars

-----------------------------------------------------------------------------
(* Properties. *)

MeshTypeOK ==
    /\ up \in [Nodes -> BOOLEAN]
    /\ agent \in [Nodes -> Contents \cup {None}]
    /\ beat_in \in [Nodes -> Nat] /\ sweep_in \in [Nodes -> Nat]
    /\ registry \in [Nodes -> [Nodes -> Entries \cup {None}]]
    /\ losses \in [Nodes -> [Nodes -> 0..MaxLoss]]
    /\ calm \in [Nodes -> [Nodes -> 0..MaxCalm]]
    /\ air \subseteq Messages
    /\ \A n \in Nodes : beat_in[n] <= Hb[n] /\ sweep_in[n] <= Hb[n]
    /\ \A n, p \in Nodes :
          registry[n][p] # None => registry[n][p].age <= Ttl[n] + 1

(***************************************************************************)
(* A running node knows a running agent, and as it is now, once both have  *)
(* been left alone for long enough to lose MaxLoss announcements and have  *)
(* the others arrive late: whatever old announcements, or goodbyes of an   *)
(* earlier life, arrived after newer ones, and whatever expired meanwhile  *)
(* (docs/spec.md:359-366, listener.rs:86-111, mesh.rs:531-577).            *)
(***************************************************************************)
AgreedView ==
    \A n \in Nodes, p \in Advertisers :
        n # p /\ up[n] /\ up[p] /\ calm[n][p] > Settled =>
            registry[n][p] # None /\ registry[n][p].content = agent[p]

(***************************************************************************)
(* An agent that crashed, or whose goodbye was lost, or overtaken by its   *)
(* own last announcement, is gone from every registry within a bounded     *)
(* time: "bounded cleanup latency" (docs/spec.md:366, mesh.rs:557-577).    *)
(***************************************************************************)
DepartedLeave ==
    \A n, p \in Nodes :
        up[n] /\ ~up[p] /\ calm[n][p] > CleanedUp => registry[n][p] = None

-----------------------------------------------------------------------------
(* What the documentation says and camp's observers do not keep. *)

(***************************************************************************)
(* README.md:60: stale peers are evicted "when they disappear without      *)
(* shutting down cleanly": a sweep drops no peer that runs and has not     *)
(* changed for longer than the TTL and the network's delay.                *)
(***************************************************************************)
LivePeersStay ==
    [][\A n, p \in Nodes :
          up[n] /\ up[p] /\ calm[n][p] > Ttl[n] + MaxDelay
          /\ registry[n][p] # None /\ registry'[n][p] = None
              => ~IsStale(n, registry[n][p])]_meshVars
=============================================================================
