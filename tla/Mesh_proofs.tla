----------------------------- MODULE Mesh_proofs -----------------------------
(***************************************************************************)
(* Proofs about a mesh, for any finite number of nodes, any intervals and  *)
(* any bounds on the network's delay and losses.                           *)
(***************************************************************************)
EXTENDS Mesh, FiniteSetTheorems, TLAPS

-----------------------------------------------------------------------------
(* The inductive invariant. *)

\* What an advertiser says, and to whom it may say it.
MeshTypes ==
    /\ MeshTypeOK
    /\ \A p \in Advertisers : up[p] => agent[p] \in Contents
    /\ \A m \in air : /\ m.from \in Advertisers /\ m.from # m.to
                      /\ m.kind = "announce" => m.content \in Contents
    /\ \A n, p \in Nodes : registry[n][p] # None => p \in Advertisers /\ n # p

Sent(n, p) == {m \in air : m.from = p /\ m.to = n}

(***************************************************************************)
(* A message younger than p's last change, or n's last start, is what p    *)
(* says now; and so is an entry that was recorded when every older message *)
(* had arrived, unless it is so old that its age is no longer counted.     *)
(***************************************************************************)
MessagesAreNews(n, p) ==
    \A m \in Sent(n, p) :
        m.age < calm[n][p]
            => up[p] /\ m.kind = "announce" /\ m.content = agent[p]

EntryIsNews(n, p) ==
    registry[n][p] # None /\ registry[n][p].age <= Ttl[n]
    /\ registry[n][p].age + MaxDelay < calm[n][p]
        => up[p] /\ registry[n][p].content = agent[p]

(***************************************************************************)
(* An entry of an agent that is gone is at most MaxDelay younger than its  *)
(* end, and the sweep that will drop it at most a period away.             *)
(***************************************************************************)
GoneIsSwept(n, p) ==
    ~up[p] /\ registry[n][p] # None
        => calm[n][p] <= MaxDelay + Ttl[n] + (Hb[n] - sweep_in[n])

PairInv(n, p) == MessagesAreNews(n, p) /\ EntryIsNews(n, p) /\ GoneIsSwept(n, p)

MeshIInv ==
    /\ MeshTypes
    /\ \A n, p \in Nodes : n # p /\ up[n] => PairInv(n, p)

(***************************************************************************)
(* For AgreedView the TTL has to outlast MaxLoss lost announcements and a  *)
(* late one, which the defaults (120 s, 30 s) leave room for.              *)
(***************************************************************************)
Silence(p) == (MaxLoss + 1) * Hb[p]

Tolerant ==
    \A n \in Nodes, p \in Advertisers : Silence(p) + MaxDelay <= Ttl[n]

\* No longer than t ago n heard p, or could still have heard an older p.
HeardWithin(n, p, t) ==
    \/ calm[n][p] <= MaxDelay + t
    \/ registry[n][p] # None /\ registry[n][p].age <= t

\* The announcements lost since, and the part of the period that has passed.
Unheard(n, p) == losses[n][p] * Hb[p] + Hb[p] - beat_in[p]

(***************************************************************************)
(* Either n has heard p since the last announcement that was not lost, or  *)
(* that one is still on its way.                                           *)
(***************************************************************************)
NewsIsDue(n, p) ==
    \/ HeardWithin(n, p, Unheard(n, p))
    \/ \E m \in Sent(n, p) : /\ m.kind = "announce" /\ ~m.delivered
                             /\ HeardWithin(n, p, m.age + Silence(p))

ListeningInv ==
    \A n \in Nodes, p \in Advertisers :
        n # p /\ up[n] /\ up[p] => NewsIsDue(n, p)

-----------------------------------------------------------------------------
(* The intervals of finitely many nodes have a longest one. *)

\* By the smallest subset of S that had none.
LEMMA LargestMember ==
    ASSUME NEW S, IsFiniteSet(S), NEW f \in [S -> Nat]
    PROVE  S # {} => \E x \in S : \A y \in S : f[y] <= f[x]
<1> DEFINE Worst(T) == T # {} /\ ~ \E x \in T : \A y \in T : f[y] <= f[x]
           Counterexamples == {T \in SUBSET S : Worst(T)}
<1>1. SUFFICES ASSUME Worst(S) PROVE FALSE
  OBVIOUS
<1>2. IsWellFoundedOn(StrictSubsetOrdering(S), SUBSET S)
  BY FS_StrictSubsetOrderingWellFounded, FS_FiniteSubsetsOfFinite
<1>3. PICK T \in Counterexamples :
           \A U \in Counterexamples : <<U, T>> \notin StrictSubsetOrdering(S)
  <2>1. Counterexamples \subseteq SUBSET S /\ Counterexamples # {}
    BY <1>1
  <2> HIDE DEF Counterexamples
  <2>2. QED
    BY <1>2, <2>1, WFMin
<1>4. PICK x \in T : TRUE
  BY <1>3
<1> DEFINE Rest == T \ {x}
<1>5. <<Rest, T>> \in StrictSubsetOrdering(S)
  BY <1>3, <1>4 DEF StrictSubsetOrdering
<1>6. ~Worst(Rest) /\ Rest \subseteq S /\ x \in S
  BY <1>3, <1>4, <1>5
<1>7. CASE Rest = {}
  BY <1>3, <1>4, <1>7
<1>8. CASE Rest # {}
  <2>1. PICK z \in Rest : \A y \in Rest : f[y] <= f[z]
    BY <1>6, <1>8
  <2>2. \A y \in T : y = x \/ y \in Rest
    OBVIOUS
  <2>3. CASE f[x] <= f[z]
    BY <1>3, <1>6, <2>1, <2>2, <2>3
  <2>4. CASE f[z] <= f[x]
    BY <1>3, <1>4, <1>6, <2>1, <2>2, <2>4
  <2>5. QED
    BY <1>6, <2>1, <2>3, <2>4
<1>9. QED
  BY <1>7, <1>8

\* The bounds of the properties are bounds for every node.
LEMMA IntervalBounds ==
    /\ Longest \in Nat /\ \A n \in Nodes : Ttl[n] <= Longest
    /\ Slowest \in Nat /\ \A n \in Nodes : Hb[n] <= Slowest
    /\ Settled \in Nat /\ CleanedUp \in Nat /\ MaxCalm \in Nat
    /\ Settled < MaxCalm /\ CleanedUp < MaxCalm
<1>1. Ttl \in [Nodes -> Nat] /\ Hb \in [Nodes -> Nat]
  BY MeshAssumption
<1>2. Longest \in Nat /\ \A n \in Nodes : Ttl[n] <= Longest
  <2>1. \E t \in {Ttl[n] : n \in Nodes} : \A n \in Nodes : Ttl[n] <= t
    BY <1>1, LargestMember, MeshAssumption
  <2>2. /\ Longest \in {Ttl[n] : n \in Nodes}
        /\ \A n \in Nodes : Ttl[n] <= Longest
    BY <2>1 DEF Longest
  <2>3. QED
    BY <1>1, <2>2
<1>3. Slowest \in Nat /\ \A n \in Nodes : Hb[n] <= Slowest
  <2>1. \E t \in {Hb[n] : n \in Nodes} : \A n \in Nodes : Hb[n] <= t
    BY <1>1, LargestMember, MeshAssumption
  <2>2. /\ Slowest \in {Hb[n] : n \in Nodes}
        /\ \A n \in Nodes : Hb[n] <= Slowest
    BY <2>1 DEF Slowest
  <2>3. QED
    BY <1>1, <2>2
<1>4. Settled \in Nat /\ CleanedUp \in Nat
  BY <1>2, <1>3, MeshAssumption DEF Settled, CleanedUp
<1>5. QED
  BY <1>2, <1>3, <1>4 DEF MaxCalm

-----------------------------------------------------------------------------
(* The network. *)

AirTypes ==
    /\ air \subseteq Messages
    /\ \A m \in air : /\ m.from \in Advertisers /\ m.from # m.to
                      /\ m.kind = "announce" => m.content \in Contents

\* Who may send what to whom.
MaySend(sent, said) ==
    /\ sent \subseteq Links(Advertisers, Nodes)
    /\ \A l \in sent : said[l.from] \in Contents

\* An announcement is counted as missed, or is on its way.
LEMMA MulticastTypes ==
    ASSUME MeshTypes, NEW sent, NEW said, MaySend(sent, said),
           Multicast(sent, said)
    PROVE  losses' \in [Nodes -> [Nodes -> 0..MaxLoss]] /\ AirTypes'
<1>1. PICK missed \in SUBSET sent :
        /\ \A l \in missed : losses[l.to][l.from] < MaxLoss
        /\ losses' = [n \in Nodes |-> [p \in Nodes |->
              LET link == [from |-> p, to |-> n] IN
              CASE link \in missed -> losses[n][p] + 1
                [] link \in sent \ missed -> 0
                [] OTHER -> losses[n][p]]]
        /\ air' = air \cup {Message("announce", l.from, l.to, said[l.from]) :
                               l \in sent \ missed}
  BY DEF Multicast
<1>2. ASSUME NEW n \in Nodes, NEW p \in Nodes PROVE losses'[n][p] \in 0..MaxLoss
  BY <1>1, MeshAssumption DEF MeshTypes, MeshTypeOK
<1>3. losses' \in [Nodes -> [Nodes -> 0..MaxLoss]]
  BY <1>1, <1>2
<1>4. ASSUME NEW l \in sent
      PROVE  LET m == Message("announce", l.from, l.to, said[l.from])
             IN  /\ m \in Messages /\ m.from \in Advertisers /\ m.from # m.to
                 /\ m.content \in Contents
  BY MeshAssumption DEF MaySend, Links, Message, Messages
<1>5. AirTypes'
  BY <1>1, <1>4 DEF AirTypes, MeshTypes, MeshTypeOK
<1>6. QED
  BY <1>3, <1>5

\* What a multicast, and a goodbye, changes for one receiver and sender.
LEMMA MulticastSends ==
    ASSUME MeshTypes, NEW sent, NEW said, MaySend(sent, said),
           Multicast(sent, said), NEW n \in Nodes, NEW p \in Nodes
    PROVE  IF [from |-> p, to |-> n] \notin sent
           THEN losses'[n][p] = losses[n][p] /\ Sent(n, p)' = Sent(n, p)
           ELSE \/ /\ losses[n][p] < MaxLoss
                   /\ losses'[n][p] = losses[n][p] + 1
                   /\ Sent(n, p)' = Sent(n, p)
                \/ /\ losses'[n][p] = 0
                   /\ Sent(n, p)' = Sent(n, p)
                                    \cup {Message("announce", p, n, said[p])}
<1> DEFINE link == [from |-> p, to |-> n]
<1>1. PICK missed \in SUBSET sent :
        /\ \A l \in missed : losses[l.to][l.from] < MaxLoss
        /\ losses' = [x \in Nodes |-> [y \in Nodes |->
              LET l == [from |-> y, to |-> x] IN
              CASE l \in missed -> losses[x][y] + 1
                [] l \in sent \ missed -> 0
                [] OTHER -> losses[x][y]]]
        /\ air' = air \cup {Message("announce", l.from, l.to, said[l.from]) :
                               l \in sent \ missed}
  BY DEF Multicast
<1>2. losses'[n][p] = CASE link \in missed -> losses[n][p] + 1
                        [] link \in sent \ missed -> 0
                        [] OTHER -> losses[n][p]
  BY <1>1
<1>3. ASSUME NEW l \in sent
      PROVE  LET m == Message("announce", l.from, l.to, said[l.from])
             IN  /\ m.from = p /\ m.to = n <=> l = link
                 /\ m.from = l.from /\ m.to = l.to
  BY DEF MaySend, Links, Message
<1>4. CASE link \in sent \ missed
  <2>1. Sent(n, p)' = Sent(n, p) \cup {Message("announce", p, n, said[p])}
    BY <1>1, <1>3, <1>4 DEF Sent
  <2>2. QED
    BY <1>2, <1>4, <2>1
<1>5. CASE link \notin sent \ missed
  <2>1. Sent(n, p)' = Sent(n, p)
    BY <1>1, <1>3, <1>5 DEF Sent
  <2>2. CASE link \in missed
    <3>1. losses[link.to][link.from] < MaxLoss
      BY <1>1, <2>2
    <3>2. QED
      BY <1>2, <2>1, <2>2, <3>1
  <2>3. CASE link \notin sent
    BY <1>2, <2>1, <2>3
  <2>4. QED
    BY <1>5, <2>2, <2>3
<1>6. QED
  BY <1>4, <1>5

-----------------------------------------------------------------------------
(* Types. *)

\* Everyone who is announced runs and advertises (mesh.rs:519-550).
LEMMA AnnouncersMaySend ==
    ASSUME MeshTypes, NEW n \in Nodes
    PROVE  /\ Start(n) =>
                \E sent : MaySend(sent, agent') /\ Multicast(sent, agent')
                          /\ \A l \in sent : n \in {l.from, l.to}
           /\ Heartbeat(n) => MaySend(Links({n}, Nodes), agent)
           /\ Update(n) => MaySend(Links({n}, Nodes), agent')
<1>1. Advertisers \subseteq Nodes
  BY MeshAssumption
<1>2. ASSUME Start(n)
      PROVE  \E sent : MaySend(sent, agent') /\ Multicast(sent, agent')
                       /\ \A l \in sent : n \in {l.from, l.to}
  <2> DEFINE others == {p \in Advertisers : up[p]}
             sent == Links(Advertisers \cap {n}, Nodes) \cup Links(others, {n})
  <2>1. Multicast(sent, agent')
    BY <1>2 DEF Start
  <2>2. \A p \in others \cup (Advertisers \cap {n}) : agent'[p] \in Contents
    BY <1>1, <1>2 DEF Start, MeshTypes, MeshTypeOK
  <2>3. MaySend(sent, agent') /\ \A l \in sent : n \in {l.from, l.to}
    BY <1>1, <2>2 DEF MaySend, Links
  <2>4. QED
    BY <2>1, <2>3
<1>3. ASSUME Heartbeat(n) PROVE MaySend(Links({n}, Nodes), agent)
  BY <1>1, <1>3 DEF Heartbeat, MaySend, Links, MeshTypes
<1>4. ASSUME Update(n) PROVE MaySend(Links({n}, Nodes), agent')
  BY <1>1, <1>4 DEF Update, MaySend, Links, MeshTypes, MeshTypeOK
<1>5. QED
  BY <1>2, <1>3, <1>4

\* Deliveries and ticks change neither sender, receiver nor content.
LEMMA MeshStepAirTypes ==
    ASSUME MeshTypes, [MeshNext]_meshVars
    PROVE  losses' \in [Nodes -> [Nodes -> 0..MaxLoss]] /\ AirTypes'
<1>1. /\ losses \in [Nodes -> [Nodes -> 0..MaxLoss]] /\ AirTypes
      /\ MaxLoss \in Nat /\ MaxDelay \in Nat /\ Advertisers \subseteq Nodes
  BY MeshAssumption DEF MeshTypes, MeshTypeOK, AirTypes
<1>2. ASSUME NEW n \in Nodes, Start(n) \/ Heartbeat(n) \/ Update(n)
      PROVE  losses' \in [Nodes -> [Nodes -> 0..MaxLoss]] /\ AirTypes'
  BY <1>2, AnnouncersMaySend, MulticastTypes
     DEF Heartbeat, Update, Announce
<1>3. ASSUME NEW n \in Nodes, Sweep(n) \/ Crash(n) \/ Shutdown(n)
      PROVE  losses' \in [Nodes -> [Nodes -> 0..MaxLoss]] /\ AirTypes'
  <2>1. losses' \in [Nodes -> [Nodes -> 0..MaxLoss]]
    BY <1>1, <1>3 DEF Sweep, Crash, Shutdown, Down
  <2>2. CASE air' = air
    BY <1>1, <2>1, <2>2 DEF AirTypes
  <2>3. CASE n \in Advertisers /\ Goodbye(n)
    <3>1. \A p \in Nodes \ {n} :
             LET m == Message("goodbye", n, p, None)
             IN  /\ m \in Messages /\ m.from \in Advertisers
                 /\ m.from # m.to /\ m.kind # "announce"
      BY <1>1, <2>3 DEF Message, Messages
    <3>2. QED
      BY <1>1, <2>1, <2>3, <3>1 DEF Goodbye, AirTypes
  <2>4. QED
    BY <1>3, <2>1, <2>2, <2>3 DEF Sweep, Crash, Shutdown
<1>4. ASSUME NEW m \in air, Resolved(m) \/ Removed(m)
      PROVE  losses' \in [Nodes -> [Nodes -> 0..MaxLoss]] /\ AirTypes'
  <2> DEFINE d == [m EXCEPT !.delivered = TRUE]
  <2>1. /\ d \in Messages /\ d.from = m.from /\ d.to = m.to
        /\ d.kind = m.kind /\ d.content = m.content
    BY <1>1, <1>4 DEF AirTypes, Messages
  <2>2. losses' = losses /\ air' = (air \ {m}) \cup {d}
    BY <1>4 DEF Resolved, Removed, Arrived
  <2> HIDE DEF d
  <2>3. QED
    BY <1>1, <2>1, <2>2 DEF AirTypes
<1>5. CASE Clock
  <2>1. ASSUME NEW m \in air, m.age < MaxDelay
        PROVE  LET o == [m EXCEPT !.age = @ + 1]
               IN  /\ o \in Messages /\ o.from = m.from /\ o.to = m.to
                   /\ o.kind = m.kind /\ o.content = m.content
    BY <1>1, <2>1 DEF AirTypes, Messages
  <2>2. \A x \in air' : \E m \in air : m.age < MaxDelay
                                      /\ x = [m EXCEPT !.age = @ + 1]
    BY <1>5 DEF Clock
  <2>3. ASSUME NEW x \in air'
        PROVE  /\ x \in Messages /\ x.from \in Advertisers /\ x.from # x.to
               /\ x.kind = "announce" => x.content \in Contents
    <3>1. PICK m \in air : m.age < MaxDelay /\ x = [m EXCEPT !.age = @ + 1]
      BY <2>2
    <3>2. /\ x \in Messages /\ x.from = m.from /\ x.to = m.to
          /\ x.kind = m.kind /\ x.content = m.content
      BY <2>1, <3>1
    <3>3. QED
      BY <1>1, <3>2 DEF AirTypes
  <2>4. QED
    BY <1>1, <1>5, <2>3 DEF Clock, AirTypes
<1>6. CASE UNCHANGED meshVars
  BY <1>1, <1>6 DEF meshVars, AirTypes
<1>7. QED
  BY <1>2, <1>3, <1>4, <1>5, <1>6 DEF MeshNext

\* Every step keeps the types, and entries are of other advertisers only.
LEMMA MeshStepTypes ==
    ASSUME MeshTypes, [MeshNext]_meshVars
    PROVE  MeshTypes'
<1>1. /\ losses' \in [Nodes -> [Nodes -> 0..MaxLoss]] /\ AirTypes'
  BY MeshStepAirTypes
<1>2. /\ up \in [Nodes -> BOOLEAN] /\ agent \in [Nodes -> Contents \cup {None}]
      /\ beat_in \in [Nodes -> Nat] /\ sweep_in \in [Nodes -> Nat]
      /\ registry \in [Nodes -> [Nodes -> Entries \cup {None}]]
      /\ calm \in [Nodes -> [Nodes -> 0..MaxCalm]]
      /\ \A n \in Nodes : /\ beat_in[n] <= Hb[n] /\ sweep_in[n] <= Hb[n]
                          /\ Hb[n] \in Nat \ {0} /\ Ttl[n] \in Nat \ {0}
      /\ MaxCalm \in Nat /\ Advertisers \subseteq Nodes
      /\ \A p \in Advertisers : up[p] => agent[p] \in Contents
      /\ \A m \in air : m \in Messages
  BY MeshAssumption, IntervalBounds DEF MeshTypes, MeshTypeOK
<1>3. /\ up' \in [Nodes -> BOOLEAN]
      /\ agent' \in [Nodes -> Contents \cup {None}]
      /\ \A p \in Advertisers : up'[p] => agent'[p] \in Contents
  <2>1. ASSUME NEW n \in Nodes, Start(n) PROVE <1>3!1 /\ <1>3!2 /\ <1>3!3
    <3>1. PICK said \in Contents \cup {None} :
             /\ agent' = [agent EXCEPT ![n] = said]
             /\ n \in Advertisers => said \in Contents
      BY <2>1 DEF Start
    <3>2. up' = [up EXCEPT ![n] = TRUE]
      BY <2>1 DEF Start
    <3>3. QED
      BY <1>2, <3>1, <3>2
  <2>2. ASSUME NEW n \in Nodes, Update(n) PROVE <1>3!1 /\ <1>3!2 /\ <1>3!3
    BY <1>2, <2>2 DEF Update
  <2>3. ASSUME NEW n \in Nodes, Down(n) PROVE <1>3!1 /\ <1>3!2 /\ <1>3!3
    BY <1>2, <2>3 DEF Down
  <2>4. CASE UNCHANGED <<up, agent>>
    BY <1>2, <2>4
  <2>5. QED
    BY <2>1, <2>2, <2>3, <2>4
       DEF MeshNext, Heartbeat, Sweep, Shutdown, Crash, Resolved, Removed,
           Clock, meshVars
<1>4. /\ beat_in' \in [Nodes -> Nat] /\ sweep_in' \in [Nodes -> Nat]
      /\ \A n \in Nodes : beat_in'[n] <= Hb[n] /\ sweep_in'[n] <= Hb[n]
  <2>1. ASSUME NEW n \in Nodes, Heartbeat(n) \/ Sweep(n) \/ Down(n)
        PROVE  <1>4!1 /\ <1>4!2
    <3>1. /\ \E d \in {beat_in[n], 0, Hb[n]} :
                beat_in' = [beat_in EXCEPT ![n] = d]
          /\ \E d \in {sweep_in[n], 0, Hb[n]} :
                sweep_in' = [sweep_in EXCEPT ![n] = d]
      BY <1>2, <2>1 DEF Heartbeat, Sweep, Down
    <3>2. QED
      BY <1>2, <3>1
  <2>2. CASE Clock
    <3>1. ASSUME NEW n \in Nodes
          PROVE  /\ beat_in'[n] \in Nat /\ beat_in'[n] <= Hb[n]
                 /\ sweep_in'[n] \in Nat /\ sweep_in'[n] <= Hb[n]
      <4>1. /\ beat_in'[n] = IF beat_in[n] = 0 THEN 0 ELSE beat_in[n] - 1
            /\ sweep_in'[n] = IF sweep_in[n] = 0 THEN 0 ELSE sweep_in[n] - 1
        BY <2>2 DEF Clock
      <4>2. /\ beat_in[n] \in Nat /\ sweep_in[n] \in Nat /\ Hb[n] \in Nat
            /\ beat_in[n] <= Hb[n] /\ sweep_in[n] <= Hb[n]
        BY <1>2
      <4>3. QED
        BY <4>1, <4>2
    <3>2. DOMAIN beat_in' = Nodes /\ DOMAIN sweep_in' = Nodes
          /\ beat_in' = [n \in Nodes |-> beat_in'[n]]
          /\ sweep_in' = [n \in Nodes |-> sweep_in'[n]]
      BY <2>2 DEF Clock
    <3>3. QED
      BY <3>1, <3>2
  <2>3. CASE UNCHANGED <<beat_in, sweep_in>>
    BY <1>2, <2>3
  <2>4. QED
    BY <2>1, <2>2, <2>3
       DEF MeshNext, Start, Update, Shutdown, Crash, Resolved, Removed,
           meshVars
<1>5. calm' \in [Nodes -> [Nodes -> 0..MaxCalm]]
  <2>1. ASSUME NEW n \in Nodes, Disturb(n)
        PROVE  calm' \in [Nodes -> [Nodes -> 0..MaxCalm]]
    BY <1>2, <2>1 DEF Disturb
  <2>2. CASE Clock
    <3>1. \A n, p \in Nodes : Capped(calm[n][p] + 1, MaxCalm) \in 0..MaxCalm
      BY <1>2 DEF Capped
    <3>2. QED
      BY <2>2, <3>1 DEF Clock
  <2>3. CASE UNCHANGED calm
    BY <1>2, <2>3
  <2>4. QED
    BY <2>1, <2>2, <2>3
       DEF MeshNext, Start, Heartbeat, Update, Sweep, Shutdown, Crash, Down,
           Resolved, Removed, meshVars
<1>6. /\ registry' \in [Nodes -> [Nodes -> Entries \cup {None}]]
      /\ \A n, p \in Nodes :
            registry'[n][p] # None => /\ registry'[n][p].age <= Ttl[n] + 1
                                      /\ p \in Advertisers /\ n # p
  <2>1. \A n, p \in Nodes :
           registry[n][p] # None => /\ registry[n][p].age <= Ttl[n] + 1
                                    /\ p \in Advertisers /\ n # p
    BY DEF MeshTypes, MeshTypeOK
  <2>2. ASSUME NEW n \in Nodes, Sweep(n) \/ Down(n)
        PROVE  <1>6!1 /\ <1>6!2
    <3>1. /\ Fresh(n) \in [Nodes -> Entries \cup {None}]
          /\ \A p \in Nodes : Fresh(n)[p] = registry[n][p] \/ Fresh(n)[p] = None
      BY <1>2 DEF Fresh
    <3>2. /\ Nobody \in [Nodes -> Entries \cup {None}]
          /\ \A p \in Nodes : Nobody[p] = None
      BY DEF Nobody
    <3>3. PICK row \in [Nodes -> Entries \cup {None}] :
             /\ registry' = [registry EXCEPT ![n] = row]
             /\ \A p \in Nodes : row[p] = registry[n][p] \/ row[p] = None
      BY <2>2, <3>1, <3>2 DEF Sweep, Down
    <3>4. registry' \in [Nodes -> [Nodes -> Entries \cup {None}]]
      BY <1>2, <3>3
    <3>5. ASSUME NEW x \in Nodes, NEW p \in Nodes, registry'[x][p] # None
          PROVE  registry'[x][p] = registry[x][p]
      BY <1>2, <3>3, <3>5
    <3>6. QED
      BY <2>1, <3>4, <3>5
  <2>3. ASSUME NEW m \in air, Resolved(m) \/ Removed(m)
        PROVE  <1>6!1 /\ <1>6!2
    <3>1. /\ m.to \in Nodes /\ m.from \in Advertisers /\ m.from # m.to
          /\ m.kind = "announce" => m.content \in Contents
      BY <1>2 DEF MeshTypes, Messages
    <3> DEFINE entry == IF m.kind = "announce"
                        THEN [content |-> m.content, age |-> 0] ELSE None
    <3>2. registry' = [registry EXCEPT ![m.to][m.from] = entry]
      BY <2>3 DEF Resolved, Removed, Record
    <3>3. /\ entry \in Entries \cup {None}
          /\ entry # None => entry.age = 0
      BY <3>1 DEF Entries
    <3> HIDE DEF entry
    <3>4. QED
      BY <1>2, <2>1, <3>1, <3>2, <3>3
  <2>4. CASE Clock
    <3>1. ASSUME NEW n \in Nodes, NEW p \in Nodes, registry[n][p] # None
          PROVE  LET e == [registry[n][p] EXCEPT
                             !.age = Capped(registry[n][p].age + 1, Ttl[n] + 1)]
                 IN  e \in Entries /\ e.age <= Ttl[n] + 1
      BY <1>2, <3>1 DEF Entries, Capped
    <3>2. QED
      BY <1>2, <2>1, <2>4, <3>1 DEF Clock
  <2>5. CASE UNCHANGED registry
    BY <1>2, <2>1, <2>5
  <2>6. QED
    BY <2>2, <2>3, <2>4, <2>5
       DEF MeshNext, Start, Heartbeat, Update, Shutdown, Crash, meshVars
<1>7. QED
  BY <1>1, <1>3, <1>4, <1>5, <1>6 DEF MeshTypes, MeshTypeOK, AirTypes

-----------------------------------------------------------------------------
(* One receiver n and one sender p. *)

Undisturbed(n, p) == up[n] /\ UNCHANGED <<up[n], up[p], agent[p], calm[n][p]>>

\* What a step is for them, n running after it.
LEMMA PairStep ==
    ASSUME MeshTypes, [MeshNext]_meshVars,
           NEW n \in Nodes, NEW p \in Nodes, n # p, up'[n]
    PROVE  \/ calm'[n][p] = 0
           \/ Clock
           \/ /\ Undisturbed(n, p)
              /\ \/ UNCHANGED <<beat_in[p], sweep_in[n], registry[n][p],
                                losses[n][p], Sent(n, p)>>
                 \/ Heartbeat(p)
                 \/ Sweep(n)
                 \/ \E m \in Sent(n, p) : Resolved(m) \/ Removed(m)
<1>1. /\ up \in [Nodes -> BOOLEAN] /\ agent \in [Nodes -> Contents \cup {None}]
      /\ beat_in \in [Nodes -> Nat] /\ sweep_in \in [Nodes -> Nat]
      /\ registry \in [Nodes -> [Nodes -> Entries \cup {None}]]
      /\ losses \in [Nodes -> [Nodes -> 0..MaxLoss]]
      /\ calm \in [Nodes -> [Nodes -> 0..MaxCalm]]
  BY DEF MeshTypes, MeshTypeOK
<1> DEFINE Still == UNCHANGED <<beat_in[p], sweep_in[n], registry[n][p],
                                losses[n][p], Sent(n, p)>>
<1>2. ASSUME NEW q \in {n, p}, Disturb(q) PROVE calm'[n][p] = 0
  BY <1>2 DEF Disturb
<1>3. ASSUME NEW q \in Nodes \ {n, p}, Disturb(q)
      PROVE  calm'[n][p] = calm[n][p]
  BY <1>1, <1>3 DEF Disturb
<1>4. ASSUME NEW q \in Nodes \ {n, p},
             Start(q) \/ Heartbeat(q) \/ Update(q) \/ Shutdown(q) \/ Crash(q)
                \/ Sweep(q)
      PROVE  Undisturbed(n, p) /\ Still
  <2>1. Undisturbed(n, p)
    BY <1>1, <1>3, <1>4
       DEF Undisturbed, Start, Heartbeat, Update, Shutdown, Crash, Down, Sweep
  <2>2. UNCHANGED <<beat_in[p], sweep_in[n], registry[n][p]>>
    BY <1>1, <1>4
       DEF Start, Heartbeat, Update, Shutdown, Crash, Down, Sweep
  <2>3. CASE Start(q) \/ Heartbeat(q) \/ Update(q)
    <3> DEFINE Sends(sent, said) ==
                 /\ MaySend(sent, said) /\ Multicast(sent, said)
                 /\ \A l \in sent : q \in {l.from, l.to}
    <3>1. PICK sent, said : Sends(sent, said)
      <4>1. ASSUME NEW said, Announce(q, said), MaySend(Links({q}, Nodes), said)
            PROVE  Sends(Links({q}, Nodes), said)
        BY <4>1 DEF Announce, Links
      <4>2. QED
        BY <2>3, <4>1, AnnouncersMaySend DEF Heartbeat, Update
    <3>2. [from |-> p, to |-> n] \notin sent
      BY <3>1
    <3>3. losses'[n][p] = losses[n][p] /\ Sent(n, p)' = Sent(n, p)
      BY <3>1, <3>2, MulticastSends
    <3>4. QED
      BY <2>1, <2>2, <3>3
  <2>4. CASE Shutdown(q) \/ Crash(q) \/ Sweep(q)
    <3>1. losses'[n][p] = losses[n][p]
      BY <1>1, <1>4, <2>4 DEF Shutdown, Crash, Down, Sweep
    <3>2. air' = air \/ Goodbye(q)
      BY <2>4 DEF Shutdown, Crash, Sweep
    <3>3. Sent(n, p)' = Sent(n, p)
      BY <1>4, <3>2 DEF Goodbye, Message, Sent
    <3>4. QED
      BY <2>1, <2>2, <3>1, <3>3
  <2>5. QED
    BY <1>4, <2>1, <2>2, <2>3, <2>4
<1>5. ASSUME NEW q \in {n, p}, Start(q) \/ Update(q) \/ Shutdown(q) \/ Crash(q)
      PROVE  calm'[n][p] = 0
  BY <1>2, <1>5 DEF Start, Update, Shutdown, Crash, Down
<1>6. CASE Heartbeat(n)
  <2>1. MaySend(Links({n}, Nodes), agent) /\ Multicast(Links({n}, Nodes), agent)
    BY <1>6, AnnouncersMaySend DEF Heartbeat, Announce
  <2>2. [from |-> p, to |-> n] \notin Links({n}, Nodes)
    BY DEF Links
  <2>3. losses'[n][p] = losses[n][p] /\ Sent(n, p)' = Sent(n, p)
    BY <2>1, <2>2, MulticastSends
  <2>4. QED
    BY <1>1, <1>6, <2>3 DEF Heartbeat, Undisturbed
<1>7. CASE Heartbeat(p) \/ Sweep(n)
  BY <1>1, <1>7 DEF Heartbeat, Sweep, Undisturbed
<1>8. CASE Sweep(p)
  BY <1>1, <1>8 DEF Sweep, Undisturbed, Sent
<1>9. ASSUME NEW m \in air, Resolved(m) \/ Removed(m)
      PROVE  \/ Undisturbed(n, p) /\ m \in Sent(n, p)
             \/ Undisturbed(n, p) /\ Still
  <2>1. /\ Undisturbed(n, p)
        /\ UNCHANGED <<beat_in, sweep_in, losses>>
    BY <1>9 DEF Resolved, Removed, Undisturbed
  <2>2. CASE m \notin Sent(n, p)
    <3>1. m.to # n \/ m.from # p
      BY <2>2 DEF Sent
    <3>2. registry'[n][p] = registry[n][p]
      BY <1>1, <1>9, <3>1 DEF Resolved, Removed, Record
    <3>3. /\ [m EXCEPT !.delivered = TRUE].to = m.to
          /\ [m EXCEPT !.delivered = TRUE].from = m.from
      BY DEF MeshTypes, MeshTypeOK, Messages
    <3>4. Sent(n, p)' = Sent(n, p)
      BY <1>9, <3>1, <3>3 DEF Resolved, Removed, Arrived, Sent
    <3>5. QED
      BY <2>1, <3>2, <3>4
  <2>3. QED
    BY <2>1, <2>2
<1>10. CASE UNCHANGED meshVars
  BY <1>10 DEF meshVars, Undisturbed, Sent
<1>11. QED
  BY <1>4, <1>5, <1>6, <1>7, <1>8, <1>9, <1>10 DEF MeshNext

\* A heartbeat of p, heard or missed by n (mesh.rs:545-550).
LEMMA HeartbeatSends ==
    ASSUME MeshTypes, NEW n \in Nodes, NEW p \in Nodes, n # p, Heartbeat(p)
    PROVE  /\ UNCHANGED <<sweep_in[n], registry[n][p]>>
           /\ up[p] /\ p \in Advertisers
           /\ beat_in[p] = 0 /\ beat_in'[p] = Hb[p]
           /\ \/ /\ losses[n][p] < MaxLoss
                 /\ losses'[n][p] = losses[n][p] + 1
                 /\ Sent(n, p)' = Sent(n, p)
              \/ /\ losses'[n][p] = 0
                 /\ Sent(n, p)' = Sent(n, p)
                                  \cup {Message("announce", p, n, agent[p])}
<1>1. MaySend(Links({p}, Nodes), agent) /\ Multicast(Links({p}, Nodes), agent)
  BY AnnouncersMaySend DEF Heartbeat, Announce
<1>2. [from |-> p, to |-> n] \in Links({p}, Nodes)
  BY DEF Links
<1>3. \/ /\ losses[n][p] < MaxLoss /\ losses'[n][p] = losses[n][p] + 1
         /\ Sent(n, p)' = Sent(n, p)
      \/ /\ losses'[n][p] = 0
         /\ Sent(n, p)' = Sent(n, p)
                          \cup {Message("announce", p, n, agent[p])}
  BY <1>1, <1>2, MulticastSends
<1>4. beat_in'[p] = Hb[p]
  BY DEF Heartbeat, MeshTypes, MeshTypeOK
<1>5. QED
  BY <1>3, <1>4 DEF Heartbeat

Delivered(m) == [m EXCEPT !.delivered = TRUE]

\* A delivery of m from p to n (listener.rs:86-111).
LEMMA DeliveryRecords ==
    ASSUME MeshTypes, NEW n \in Nodes, NEW p \in Nodes,
           NEW m \in Sent(n, p), Resolved(m) \/ Removed(m)
    PROVE  /\ UNCHANGED <<beat_in[p], sweep_in[n], losses[n][p]>>
           /\ registry'[n][p] = IF m.kind = "announce"
                                THEN [content |-> m.content, age |-> 0]
                                ELSE None
           /\ \A x \in Sent(n, p)' : x \in Sent(n, p) \/ x = Delivered(m)
           /\ \A x \in Sent(n, p) : x # m => x \in Sent(n, p)'
<1>1. m \in Messages /\ m.to = n /\ m.from = p
  BY DEF Sent, MeshTypes, MeshTypeOK
<1>2. /\ \A x \in Sent(n, p)' : x \in Sent(n, p) \/ x = Delivered(m)
      /\ \A x \in Sent(n, p) : x # m => x \in Sent(n, p)'
  BY DEF Sent, Resolved, Removed, Arrived, Delivered
<1>3. registry'[n][p] = IF m.kind = "announce"
                        THEN [content |-> m.content, age |-> 0] ELSE None
  BY <1>1 DEF Resolved, Removed, Record, MeshTypes, MeshTypeOK
<1>4. QED
  BY <1>2, <1>3 DEF Resolved, Removed

\* A tick for n and p: what is on its way ages, and so does the entry.
LEMMA ClockAges ==
    ASSUME MeshTypes, NEW n \in Nodes, NEW p \in Nodes, Clock, up[n]
    PROVE  /\ UNCHANGED <<up, agent, losses>>
           /\ calm'[n][p] <= calm[n][p] + 1 /\ calm'[n][p] \in Nat
           /\ sweep_in[n] > 0 /\ sweep_in'[n] = sweep_in[n] - 1
           /\ up[p] /\ p \in Advertisers
                => beat_in[p] > 0 /\ beat_in'[p] = beat_in[p] - 1
           /\ \A x \in Sent(n, p)' : \E m \in Sent(n, p) :
                 m.age < MaxDelay /\ x = [m EXCEPT !.age = @ + 1]
           /\ \A m \in Sent(n, p) :
                 ~m.delivered => [m EXCEPT !.age = @ + 1] \in Sent(n, p)'
           /\ registry'[n][p] = None <=> registry[n][p] = None
           /\ registry[n][p] # None =>
                 /\ registry'[n][p].content = registry[n][p].content
                 /\ registry'[n][p].age <= registry[n][p].age + 1
                 /\ registry'[n][p].age <= Ttl[n]
                       => registry'[n][p].age = registry[n][p].age + 1
<1>1. /\ calm \in [Nodes -> [Nodes -> 0..MaxCalm]] /\ MaxCalm \in Nat
      /\ sweep_in \in [Nodes -> Nat] /\ beat_in \in [Nodes -> Nat]
      /\ registry \in [Nodes -> [Nodes -> Entries \cup {None}]]
      /\ \A m \in air : m \in Messages
      /\ Ttl[n] \in Nat /\ MaxDelay \in Nat
  BY IntervalBounds, MeshAssumption DEF MeshTypes, MeshTypeOK
<1>2. calm'[n][p] <= calm[n][p] + 1 /\ calm'[n][p] \in Nat
  BY <1>1 DEF Clock, Capped
<1>3. /\ sweep_in[n] > 0 /\ sweep_in'[n] = sweep_in[n] - 1
      /\ up[p] /\ p \in Advertisers
           => beat_in[p] > 0 /\ beat_in'[p] = beat_in[p] - 1
  BY <1>1 DEF Clock
<1>4. \A m \in air : LET o == [m EXCEPT !.age = @ + 1]
                     IN  o.from = m.from /\ o.to = m.to
  BY <1>1 DEF Messages
<1>5. \A x \in Sent(n, p)' : \E m \in Sent(n, p) :
         m.age < MaxDelay /\ x = [m EXCEPT !.age = @ + 1]
  BY <1>4 DEF Clock, Sent
<1>6. ASSUME NEW m \in Sent(n, p), ~m.delivered
      PROVE  [m EXCEPT !.age = @ + 1] \in Sent(n, p)'
  <2>1. /\ m \in air /\ m.from = p /\ m.to = n
        /\ m.age \in 0..MaxDelay /\ MaxDelay \in Nat
    BY <1>1 DEF Sent, Messages
  <2>2. m.age < MaxDelay
    <3>1. m.age = MaxDelay /\ up[m.to] => m.delivered
      BY <2>1 DEF Clock
    <3>2. m.age < MaxDelay \/ m.age = MaxDelay
      BY <2>1
    <3>3. QED
      BY <1>6, <2>1, <3>1, <3>2, Zenon
  <2>3. [m EXCEPT !.age = @ + 1] \in air'
    BY <2>1, <2>2 DEF Clock
  <2>4. QED
    BY <1>4, <2>1, <2>3 DEF Sent
<1>7. /\ registry'[n][p] = None <=> registry[n][p] = None
      /\ registry[n][p] # None =>
            /\ registry'[n][p].content = registry[n][p].content
            /\ registry'[n][p].age <= registry[n][p].age + 1
            /\ registry'[n][p].age <= Ttl[n]
                  => registry'[n][p].age = registry[n][p].age + 1
  <2>1. CASE registry[n][p] = None
    BY <2>1 DEF Clock
  <2>2. CASE registry[n][p] # None
    <3> DEFINE age == Capped(registry[n][p].age + 1, Ttl[n] + 1)
               e == [registry[n][p] EXCEPT !.age = age]
    <3>1. registry[n][p] \in Entries
      BY <1>1, <2>2
    <3>2. registry'[n][p] = e
      BY <2>2 DEF Clock
    <3>3. age \in Nat /\ age <= registry[n][p].age + 1
          /\ (age <= Ttl[n] => age = registry[n][p].age + 1)
      BY <1>1, <3>1 DEF Entries, Capped
    <3> HIDE DEF age
    <3>4. /\ e \in Entries /\ e.age = age
          /\ e.content = registry[n][p].content
      BY <3>1, <3>3 DEF Entries
    <3>5. e # None
      BY <3>4, MeshAssumption DEF Entries
    <3>6. QED
      BY <2>2, <3>2, <3>3, <3>4, <3>5
  <2>3. QED
    BY <2>1, <2>2
<1>8. QED
  BY <1>2, <1>3, <1>5, <1>6, <1>7 DEF Clock

-----------------------------------------------------------------------------
(* The inductive invariant of a receiver and a sender. *)

PairTypeOK(n, p) ==
    /\ calm[n][p] \in Nat /\ sweep_in[n] \in Nat /\ beat_in[p] \in Nat
    /\ sweep_in[n] <= Hb[n] /\ beat_in[p] <= Hb[p]
    /\ Hb[n] \in Nat \ {0} /\ Hb[p] \in Nat \ {0} /\ Ttl[n] \in Nat
    /\ MaxDelay \in Nat /\ MaxLoss \in Nat
    /\ losses[n][p] \in Nat /\ losses[n][p] <= MaxLoss
    /\ registry[n][p] # None =>
          registry[n][p].age \in Nat /\ registry[n][p].age <= Ttl[n] + 1
    /\ \A m \in Sent(n, p) :
          /\ m \in Messages /\ m.age \in Nat /\ m.age <= MaxDelay
          /\ m.kind \in {"announce", "goodbye"}

PairTypesOK == \A n, p \in Nodes : PairTypeOK(n, p)

\* The types of the mesh, for one pair.
LEMMA PairTypes == MeshTypes => PairTypesOK
BY IntervalBounds, MeshAssumption
   DEF MeshTypes, MeshTypeOK, Entries, Messages, Sent, PairTypeOK, PairTypesOK

\* A step keeps the types of every pair.
LEMMA PairTypesNext ==
    ASSUME MeshTypes, [MeshNext]_meshVars, NEW n \in Nodes, NEW p \in Nodes
    PROVE  PairTypeOK(n, p) /\ PairTypeOK(n, p)'
<1>1. MeshTypes'
  BY MeshStepTypes
<1>2. PairTypesOK'
  BY <1>1, PairTypes, PTL
<1>3. QED
  BY <1>2, PairTypes DEF PairTypesOK

\* A message ages as fast as p's calm, and a new one is p's own word.
LEMMA MessagesStayNews ==
    ASSUME MeshTypes, [MeshNext]_meshVars, NEW n \in Nodes, NEW p \in Nodes,
           n # p, up'[n], up[n] => PairInv(n, p)
    PROVE  MessagesAreNews(n, p)'
<1>1. PairTypeOK(n, p) /\ PairTypeOK(n, p)'
  BY PairTypesNext
<1> SUFFICES ASSUME NEW x \in Sent(n, p)', x.age < calm'[n][p]
             PROVE  up'[p] /\ x.kind = "announce" /\ x.content = agent'[p]
  BY DEF MessagesAreNews
<1>2. calm'[n][p] # 0
  BY <1>1 DEF PairTypeOK
<1>3. up[n] => MessagesAreNews(n, p)
  BY DEF PairInv
<1>4. CASE Clock
  <2>1. PICK m \in Sent(n, p) : m.age < MaxDelay /\ x = [m EXCEPT !.age = @ + 1]
    BY <1>4, ClockAges DEF Clock
  <2>2. /\ m.age < calm[n][p]
        /\ x.kind = m.kind /\ x.content = m.content
    BY <1>1, <1>4, <2>1, ClockAges DEF Clock, PairTypeOK, Messages
  <2>3. QED
    BY <1>3, <1>4, <2>1, <2>2 DEF Clock, MessagesAreNews
<1>5. CASE Undisturbed(n, p) /\ x \in Sent(n, p)
  BY <1>3, <1>5 DEF Undisturbed, MessagesAreNews
<1>6. CASE Undisturbed(n, p) /\ Heartbeat(p) /\ x \notin Sent(n, p)
  BY <1>6, HeartbeatSends DEF Undisturbed, Message
<1>7. ASSUME NEW m \in Sent(n, p), Resolved(m) \/ Removed(m),
             Undisturbed(n, p), x \notin Sent(n, p)
      PROVE  up'[p] /\ x.kind = "announce" /\ x.content = agent'[p]
  <2>1. x = Delivered(m)
    BY <1>7, DeliveryRecords
  <2>2. x.age = m.age /\ x.kind = m.kind /\ x.content = m.content
    BY <1>1, <2>1 DEF Delivered, PairTypeOK, Messages
  <2>3. QED
    BY <1>3, <1>7, <2>2 DEF Undisturbed, MessagesAreNews
<1>8. CASE Undisturbed(n, p) /\ Sweep(n)
  BY <1>5, <1>8 DEF Sweep, Sent
<1>9. QED
  BY <1>2, <1>4, <1>5, <1>6, <1>7, <1>8, PairStep


\* What a sweep leaves of an entry (mesh.rs:557-577).
LEMMA SweepKeeps ==
    ASSUME MeshTypes, NEW n \in Nodes, NEW p \in Nodes, Sweep(n)
    PROVE  /\ UNCHANGED <<beat_in, losses, air>> /\ sweep_in'[n] = Hb[n]
           /\ registry'[n][p] = IF IsStale(n, registry[n][p])
                                THEN None ELSE registry[n][p]
BY DEF Sweep, Fresh, MeshTypes, MeshTypeOK

\* Only a message no older than p's last change can be news MaxDelay after it.
LEMMA EntryStaysNews ==
    ASSUME MeshTypes, [MeshNext]_meshVars, NEW n \in Nodes, NEW p \in Nodes,
           n # p, up'[n], up[n] => PairInv(n, p)
    PROVE  EntryIsNews(n, p)'
<1>1. PairTypeOK(n, p) /\ PairTypeOK(n, p)'
  BY PairTypesNext
<1> SUFFICES ASSUME registry'[n][p] # None, registry'[n][p].age <= Ttl[n],
                    registry'[n][p].age + MaxDelay < calm'[n][p]
             PROVE  up'[p] /\ registry'[n][p].content = agent'[p]
  BY DEF EntryIsNews
<1>2. calm'[n][p] # 0
  BY <1>1 DEF PairTypeOK
<1>3. up[n] => MessagesAreNews(n, p) /\ EntryIsNews(n, p)
  BY DEF PairInv
<1>4. CASE Clock
  <2>1. /\ registry[n][p] # None /\ registry[n][p].age <= Ttl[n]
        /\ registry[n][p].age + MaxDelay < calm[n][p]
        /\ registry'[n][p].content = registry[n][p].content
    BY <1>1, <1>4, ClockAges DEF Clock, PairTypeOK
  <2>2. QED
    BY <1>3, <1>4, <2>1 DEF Clock, EntryIsNews
<1>5. CASE Undisturbed(n, p) /\ registry'[n][p] = registry[n][p]
  BY <1>3, <1>5 DEF Undisturbed, EntryIsNews
<1>6. CASE Undisturbed(n, p) /\ Sweep(n)
  BY <1>5, <1>6, SweepKeeps
<1>7. ASSUME NEW m \in Sent(n, p), Resolved(m) \/ Removed(m), Undisturbed(n, p)
      PROVE  up'[p] /\ registry'[n][p].content = agent'[p]
  <2>1. registry'[n][p] = [content |-> m.content, age |-> 0]
    BY <1>7, DeliveryRecords
  <2>2. m.age < calm[n][p]
    BY <1>1, <1>7, <2>1 DEF Undisturbed, PairTypeOK
  <2>3. QED
    BY <1>3, <1>7, <2>1, <2>2 DEF Undisturbed, MessagesAreNews
<1>8. CASE Undisturbed(n, p) /\ Heartbeat(p)
  BY <1>5, <1>8 DEF Heartbeat
<1>9. QED
  BY <1>2, <1>4, <1>5, <1>6, <1>7, <1>8, PairStep

\* What survives a sweep was recorded at most Ttl before it.
LEMMA GoneStaysSwept ==
    ASSUME MeshTypes, [MeshNext]_meshVars, NEW n \in Nodes, NEW p \in Nodes,
           n # p, up'[n], up[n] => PairInv(n, p)
    PROVE  GoneIsSwept(n, p)'
<1> DEFINE Bound == MaxDelay + Ttl[n] + (Hb[n] - sweep_in'[n])
<1>1. PairTypeOK(n, p) /\ PairTypeOK(n, p)'
  BY PairTypesNext
<1> SUFFICES ASSUME ~up'[p], registry'[n][p] # None
             PROVE  calm'[n][p] <= Bound
  BY DEF GoneIsSwept
<1>2. CASE calm'[n][p] = 0
  BY <1>1, <1>2 DEF PairTypeOK
<1>3. up[n] => MessagesAreNews(n, p) /\ EntryIsNews(n, p) /\ GoneIsSwept(n, p)
  BY DEF PairInv
<1>4. CASE Clock
  <2>1. calm[n][p] <= MaxDelay + Ttl[n] + (Hb[n] - sweep_in[n])
    BY <1>3, <1>4, ClockAges DEF Clock, GoneIsSwept
  <2>2. QED
    BY <1>1, <1>4, <2>1, ClockAges DEF Clock, PairTypeOK
<1>5. CASE /\ Undisturbed(n, p)
           /\ UNCHANGED <<sweep_in[n], registry[n][p]>>
  BY <1>3, <1>5 DEF Undisturbed, GoneIsSwept
<1>6. CASE Undisturbed(n, p) /\ Sweep(n)
  <2>1. /\ registry'[n][p] = registry[n][p] /\ registry[n][p].age <= Ttl[n]
        /\ sweep_in'[n] = Hb[n]
    BY <1>1, <1>6, SweepKeeps DEF IsStale, PairTypeOK
  <2>2. ~(registry[n][p].age + MaxDelay < calm[n][p])
    BY <1>3, <1>6, <2>1 DEF Undisturbed, EntryIsNews
  <2>3. QED
    BY <1>1, <1>6, <2>1, <2>2 DEF Undisturbed, PairTypeOK
<1>7. ASSUME NEW m \in Sent(n, p), Resolved(m) \/ Removed(m), Undisturbed(n, p)
      PROVE  calm'[n][p] <= Bound
  <2>1. ~(m.age < calm[n][p])
    BY <1>3, <1>7 DEF Undisturbed, MessagesAreNews
  <2>2. QED
    BY <1>1, <1>7, <2>1 DEF Undisturbed, PairTypeOK
<1>8. CASE Undisturbed(n, p) /\ Heartbeat(p)
  BY <1>8 DEF Heartbeat, Undisturbed
<1>9. QED
  BY <1>2, <1>4, <1>5, <1>6, <1>7, <1>8, PairStep

-----------------------------------------------------------------------------
(* What holds in every mesh. *)

\* Nobody runs yet, and nothing is on its way.
LEMMA MeshInitial == MeshInit => MeshIInv
<1> SUFFICES ASSUME MeshInit PROVE MeshIInv
  OBVIOUS
<1>1. MaxCalm \in Nat /\ MaxLoss \in Nat /\ Hb \in [Nodes -> Nat]
  BY IntervalBounds, MeshAssumption
<1>2. registry \in [Nodes -> [Nodes -> Entries \cup {None}]]
  BY DEF MeshInit, Nobody
<1>3. \A n, p \in Nodes : registry[n][p] = None
  BY DEF MeshInit, Nobody
<1>4. /\ losses \in [Nodes -> [Nodes -> 0..MaxLoss]]
      /\ calm \in [Nodes -> [Nodes -> 0..MaxCalm]]
  BY <1>1 DEF MeshInit
<1>5. /\ up \in [Nodes -> BOOLEAN] /\ agent \in [Nodes -> Contents \cup {None}]
      /\ beat_in \in [Nodes -> Nat] /\ sweep_in \in [Nodes -> Nat]
      /\ \A n \in Nodes : beat_in[n] <= Hb[n] /\ sweep_in[n] <= Hb[n]
  BY <1>1 DEF MeshInit
<1>6. air = {} /\ \A p \in Advertisers : ~up[p]
  BY MeshAssumption DEF MeshInit
<1>7. MeshTypes
  BY <1>2, <1>3, <1>4, <1>5, <1>6 DEF MeshTypes, MeshTypeOK
<1>8. QED
  BY <1>7 DEF MeshInit, MeshIInv

\* Pair by pair.
LEMMA MeshStep == MeshIInv /\ [MeshNext]_meshVars => MeshIInv'
<1> SUFFICES ASSUME MeshIInv, [MeshNext]_meshVars PROVE MeshIInv'
  OBVIOUS
<1>1. MeshTypes /\ MeshTypes'
  BY MeshStepTypes DEF MeshIInv
<1>2. ASSUME NEW n \in Nodes, NEW p \in Nodes, n # p, up'[n]
      PROVE  PairInv(n, p)'
  <2>1. up[n] => PairInv(n, p)
    BY <1>2 DEF MeshIInv
  <2>2. QED
    BY <1>1, <1>2, <2>1, MessagesStayNews, EntryStaysNews, GoneStaysSwept
       DEF PairInv
<1>3. QED
  BY <1>1, <1>2 DEF MeshIInv

(***************************************************************************)
(* Whatever the network delays, reorders, duplicates and loses, and        *)
(* whoever starts, stops and crashes: no message and no entry tells more   *)
(* of a past life of p than its age lets it.                               *)
(***************************************************************************)
THEOREM MeshInductiveInvariant == MeshSpec => []MeshIInv
BY MeshInitial, MeshStep, PTL DEF MeshSpec

\* The types of a mesh hold in all its states.
THEOREM MeshTypeCorrect == MeshSpec => []MeshTypeOK
<1>1. MeshIInv => MeshTypeOK
  BY DEF MeshIInv, MeshTypes
<1>2. QED
  BY <1>1, MeshInductiveInvariant, PTL

(***************************************************************************)
(* "Bounded cleanup latency" (docs/spec.md:366), for any intervals, delay  *)
(* and losses, also of goodbyes: an agent that is gone leaves no entry     *)
(* behind for longer than a message's delay, the TTL and one sweep.        *)
(***************************************************************************)
THEOREM DepartedAlwaysLeave == MeshSpec => []DepartedLeave
<1>1. ASSUME MeshIInv, NEW n \in Nodes, NEW p \in Nodes,
             up[n], ~up[p], calm[n][p] > CleanedUp
      PROVE  registry[n][p] = None
  <2>1. PairTypeOK(n, p)
    BY <1>1, PairTypes DEF MeshIInv, PairTypesOK
  <2>2. /\ Ttl[n] <= Longest /\ Longest \in Nat
        /\ Hb[n] <= Slowest /\ Slowest \in Nat
    BY IntervalBounds
  <2>3. ~(calm[n][p] <= MaxDelay + Ttl[n] + (Hb[n] - sweep_in[n]))
    BY <1>1, <2>1, <2>2 DEF CleanedUp, PairTypeOK
  <2>4. GoneIsSwept(n, p)
    BY <1>1 DEF MeshIInv, PairInv
  <2>5. QED
    BY <1>1, <2>3, <2>4 DEF GoneIsSwept
<1>2. MeshIInv => DepartedLeave
  BY <1>1 DEF DepartedLeave
<1>3. QED
  BY <1>2, MeshInductiveInvariant, PTL

-----------------------------------------------------------------------------
(* When the TTL is long enough for the heartbeats that may be lost. *)

\* l lost announcements, of at most L, at an interval of h.
LEMMA LostPeriods ==
    ASSUME NEW l \in Nat, NEW L \in Nat, l <= L, NEW h \in Nat
    PROVE  /\ l * h \in Nat /\ (l + 1) * h = l * h + h
           /\ l * h + h <= (L + 1) * h
<1>1. l * h \in Nat /\ (L - l) * h \in Nat /\ (L + 1) * h \in Nat
  BY SMT
<1>2. (l + 1) * h = l * h + h
  BY SMT
<1>3. (L + 1) * h = l * h + h + (L - l) * h
  BY SMT
<1>4. QED
  BY <1>1, <1>2, <1>3

\* k announcements at an interval of a take no longer than at one of b.
LEMMA LongerPeriods ==
    ASSUME NEW k \in Nat, NEW a \in Nat, NEW b \in Nat, a <= b
    PROVE  k * a \in Nat /\ k * b \in Nat /\ k * a <= k * b
<1>1. k * a \in Nat /\ k * b \in Nat /\ k * (b - a) \in Nat
  BY SMT
<1>2. k * b = k * a + k * (b - a)
  BY SMT
<1>3. QED
  BY <1>1, <1>2

\* What n has missed of p is never more than Silence allows for.
LEMMA UnheardBounds ==
    ASSUME NEW n \in Nodes, NEW p \in Nodes, PairTypeOK(n, p)
    PROVE  /\ Unheard(n, p) \in Nat /\ Silence(p) \in Nat
           /\ Unheard(n, p) <= Silence(p)
<1> DEFINE lost == losses[n][p] * Hb[p]
<1>1. /\ losses[n][p] \in Nat /\ MaxLoss \in Nat /\ Hb[p] \in Nat
      /\ losses[n][p] <= MaxLoss /\ beat_in[p] \in Nat /\ beat_in[p] <= Hb[p]
  BY DEF PairTypeOK
<1>2. lost \in Nat /\ lost + Hb[p] <= Silence(p) /\ Silence(p) \in Int
  BY <1>1, LostPeriods DEF Silence
<1>3. Unheard(n, p) = lost + Hb[p] - beat_in[p]
  BY DEF Unheard
<1> HIDE DEF lost
<1>4. QED
  BY <1>1, <1>2, <1>3

\* Nothing but p's own changes and a goodbye of its past makes n hear it less.
LEMMA StaysHeard ==
    ASSUME MeshTypes, NEW n \in Nodes, NEW p \in Nodes, PairInv(n, p),
           PairTypeOK(n, p), Undisturbed(n, p), NEW t \in Nat, t <= Ttl[n],
           HeardWithin(n, p, t),
           \/ registry'[n][p] = registry[n][p]
           \/ Sweep(n)
           \/ \E m \in Sent(n, p) : Resolved(m) \/ Removed(m)
    PROVE  HeardWithin(n, p, t)'
<1>1. calm'[n][p] = calm[n][p]
  BY DEF Undisturbed
<1>2. CASE registry'[n][p] = registry[n][p]
  BY <1>1, <1>2 DEF HeardWithin
<1>3. CASE Sweep(n)
  <2>1. CASE registry[n][p] # None /\ registry[n][p].age <= t
    <3>1. ~IsStale(n, registry[n][p])
      BY <2>1 DEF IsStale, PairTypeOK
    <3>2. QED
      BY <1>2, <1>3, <3>1, SweepKeeps
  <2>2. QED
    BY <1>1, <2>1 DEF HeardWithin
<1>4. ASSUME NEW m \in Sent(n, p), Resolved(m) \/ Removed(m)
      PROVE  HeardWithin(n, p, t)'
  <2>1. CASE m.kind = "announce"
    <3>1. registry'[n][p] = [content |-> m.content, age |-> 0]
      BY <1>4, <2>1, DeliveryRecords
    <3>2. registry'[n][p] # None /\ registry'[n][p].age <= t
      <4>1. m.content \in Contents
        BY <2>1 DEF MeshTypes, Sent
      <4>2. QED
        BY <3>1, <4>1, MeshAssumption
    <3>3. QED
      BY <3>2 DEF HeardWithin
  <2>2. CASE m.kind # "announce"
    <3>1. ~(m.age < calm[n][p])
      BY <2>2 DEF PairInv, MessagesAreNews
    <3>2. calm'[n][p] <= MaxDelay + t
      BY <1>1, <3>1 DEF PairTypeOK
    <3>3. QED
      BY <3>2 DEF HeardWithin
  <2>3. QED
    BY <2>1, <2>2
<1>5. QED
  BY <1>2, <1>3, <1>4

\* A lost heartbeat takes one of the periods that Silence allows for.
LEMMA NewsStaysDue ==
    ASSUME MeshTypes, [MeshNext]_meshVars, NEW n \in Nodes,
           NEW p \in Nodes, p \in Advertisers, n # p, up'[n], up'[p],
           up[n] => PairInv(n, p), up[n] /\ up[p] => NewsIsDue(n, p),
           Silence(p) + MaxDelay <= Ttl[n]
    PROVE  NewsIsDue(n, p)'
<1>1. PairTypeOK(n, p) /\ PairTypeOK(n, p)'
  BY PairTypesNext
<1>2. /\ Unheard(n, p) \in Nat /\ Silence(p) \in Nat
      /\ Unheard(n, p) <= Silence(p)
  BY <1>1, UnheardBounds
<1>3. Unheard(n, p)' \in Nat
  <2>1. /\ losses'[n][p] \in Nat /\ Hb[p] \in Nat
        /\ beat_in'[p] \in Nat /\ beat_in'[p] <= Hb[p]
    BY <1>1 DEF PairTypeOK
  <2>2. losses'[n][p] * Hb[p] \in Nat
    BY <2>1, LostPeriods
  <2>3. QED
    BY <2>1, <2>2 DEF Unheard
<1>4. CASE calm'[n][p] = 0
  BY <1>1, <1>3, <1>4 DEF NewsIsDue, HeardWithin, PairTypeOK
<1>5. CASE Clock
  <2>1. ASSUME NEW t \in Nat, HeardWithin(n, p, t)
        PROVE  HeardWithin(n, p, t + 1)'
    BY <1>1, <1>5, <2>1, ClockAges DEF Clock, HeardWithin, PairTypeOK
  <2>2. CASE HeardWithin(n, p, Unheard(n, p))
    <3>1. Unheard(n, p)' = Unheard(n, p) + 1
      <4>1. losses' = losses /\ beat_in'[p] = beat_in[p] - 1
        BY <1>5, ClockAges DEF Clock
      <4> DEFINE lost == losses[n][p] * Hb[p]
      <4>2. lost \in Nat
        BY <1>1, LostPeriods DEF PairTypeOK
      <4>3. /\ Unheard(n, p) = lost + Hb[p] - beat_in[p]
            /\ Unheard(n, p)' = lost + Hb[p] - (beat_in[p] - 1)
        BY <4>1 DEF Unheard
      <4> HIDE DEF lost
      <4>4. QED
        BY <1>1, <4>2, <4>3 DEF PairTypeOK
    <3>2. \A t \in Nat : t = Unheard(n, p)
             => HeardWithin(n, p, t + 1)' /\ t + 1 = Unheard(n, p)'
      BY <2>1, <2>2, <3>1
    <3>3. \E t \in Nat : HeardWithin(n, p, t)' /\ t = Unheard(n, p)'
      BY <1>2, <3>2
    <3>4. QED
      BY <3>3 DEF NewsIsDue
  <2>3. ASSUME NEW m \in Sent(n, p), m.kind = "announce", ~m.delivered,
               HeardWithin(n, p, m.age + Silence(p))
        PROVE  NewsIsDue(n, p)'
    <3> DEFINE x == [m EXCEPT !.age = @ + 1]
    <3>1. /\ x.kind = "announce" /\ ~x.delivered /\ x.age = m.age + 1
          /\ m.age \in Nat /\ m.age <= MaxDelay
      BY <1>1, <2>3 DEF PairTypeOK, Messages
    <3>2. x \in Sent(n, p)'
      BY <1>5, <2>3, ClockAges DEF Clock
    <3>3. HeardWithin(n, p, m.age + Silence(p) + 1)'
      BY <1>1, <1>2, <2>1, <2>3, <3>1 DEF PairTypeOK
    <3>4. m.age + Silence(p) + 1 = x.age + Silence(p)
      BY <1>2, <3>1
    <3> HIDE DEF x
    <3>5. HeardWithin(n, p, x.age + Silence(p))'
      BY <3>3, <3>4
    <3>6. QED
      BY <3>1, <3>2, <3>5 DEF NewsIsDue, Silence
  <2>4. NewsIsDue(n, p)
    BY <1>5 DEF Clock
  <2>5. QED
    BY <2>2, <2>3, <2>4 DEF NewsIsDue
<1>6. ASSUME Undisturbed(n, p), NEW t \in Nat, t <= Silence(p) + MaxDelay,
             HeardWithin(n, p, t),
             \/ registry'[n][p] = registry[n][p]
             \/ Sweep(n)
             \/ \E m \in Sent(n, p) : Resolved(m) \/ Removed(m)
      PROVE  HeardWithin(n, p, t)'
  <2>1. t <= Ttl[n]
    BY <1>1, <1>2, <1>6 DEF PairTypeOK
  <2>2. PairInv(n, p)
    BY <1>6 DEF Undisturbed
  <2>3. QED
    BY <1>1, <1>6, <2>1, <2>2, StaysHeard
<1>7. ASSUME Undisturbed(n, p), Heartbeat(p) PROVE NewsIsDue(n, p)'
  <2>1. NewsIsDue(n, p) /\ registry'[n][p] = registry[n][p]
    BY <1>7 DEF Undisturbed, Heartbeat
  <2>2. ASSUME NEW m \in Sent(n, p), m.kind = "announce", ~m.delivered,
               HeardWithin(n, p, m.age + Silence(p))
        PROVE  NewsIsDue(n, p)'
    <3>1. m \in Sent(n, p)'
      BY <1>7, HeartbeatSends
    <3>2. m.age \in Nat /\ m.age <= MaxDelay /\ MaxDelay \in Nat
      BY <1>1 DEF PairTypeOK
    <3>3. HeardWithin(n, p, m.age + Silence(p))'
      BY <1>2, <1>6, <1>7, <2>1, <2>2, <3>2
    <3>4. QED
      BY <2>2, <3>1, <3>3 DEF NewsIsDue, Silence
  <2>3. CASE HeardWithin(n, p, Unheard(n, p))
    <3>1. ASSUME NEW t \in Nat, t <= Silence(p), HeardWithin(n, p, t)
          PROVE  HeardWithin(n, p, t)'
      BY <1>1, <1>2, <1>6, <1>7, <2>1, <3>1 DEF PairTypeOK
    <3>2. CASE losses'[n][p] = losses[n][p] + 1
      <4>1. Unheard(n, p)' = Unheard(n, p)
        <5>1. /\ beat_in[p] = 0 /\ beat_in'[p] = Hb[p]
              /\ losses[n][p] \in Nat /\ Hb[p] \in Nat
          BY <1>1, <1>7, HeartbeatSends DEF PairTypeOK
        <5>2. /\ (losses[n][p] + 1) * Hb[p] = losses[n][p] * Hb[p] + Hb[p]
              /\ losses[n][p] * Hb[p] \in Nat
          BY <5>1, LostPeriods
        <5>3. /\ Unheard(n, p) = losses[n][p] * Hb[p] + Hb[p] - 0
              /\ Unheard(n, p)' = (losses[n][p] + 1) * Hb[p] + Hb[p] - Hb[p]
          BY <3>2, <5>1 DEF Unheard
        <5>4. QED
          BY <5>1, <5>2, <5>3
      <4>2. HeardWithin(n, p, Unheard(n, p))'
        <5>1. \A t \in Nat : t = Unheard(n, p)
                 => HeardWithin(n, p, t)' /\ t = Unheard(n, p)'
          BY <1>2, <2>3, <3>1, <4>1
        <5>2. QED
          BY <1>2, <5>1
      <4>3. QED
        BY <4>2 DEF NewsIsDue
    <3>3. CASE Sent(n, p)' = Sent(n, p)
                             \cup {Message("announce", p, n, agent[p])}
      <4>1. PICK m \in Sent(n, p)' :
               m.kind = "announce" /\ ~m.delivered /\ m.age = 0
        <5>1. \E m \in Sent(n, p)' : m = Message("announce", p, n, agent[p])
          BY <3>3
        <5>2. QED
          BY <5>1 DEF Message
      <4>2. HeardWithin(n, p, Silence(p))
        BY <1>1, <1>2, <2>3 DEF HeardWithin, PairTypeOK
      <4>3. m.age + Silence(p) = Silence(p)
        BY <1>2, <4>1
      <4>4. HeardWithin(n, p, m.age + Silence(p))'
        BY <1>2, <3>1, <4>2, <4>3
      <4>5. QED
        BY <4>1, <4>4 DEF NewsIsDue, Silence
    <3>4. QED
      BY <1>7, <3>2, <3>3, HeartbeatSends
  <2>4. \/ HeardWithin(n, p, Unheard(n, p))
        \/ \E m \in Sent(n, p) :
              /\ m.kind = "announce" /\ ~m.delivered
              /\ HeardWithin(n, p, m.age + Silence(p))
    BY <2>1 DEF NewsIsDue
  <2>5. QED
    BY <2>2, <2>3, <2>4
<1>8. ASSUME Undisturbed(n, p), NEW d \in Sent(n, p), Resolved(d) \/ Removed(d)
      PROVE  NewsIsDue(n, p)'
  <2>1. NewsIsDue(n, p) /\ Unheard(n, p)' = Unheard(n, p)
    BY <1>8, DeliveryRecords DEF Undisturbed, Unheard
  <2>2. ASSUME NEW t \in Nat, t <= Silence(p) + MaxDelay, HeardWithin(n, p, t)
        PROVE  HeardWithin(n, p, t)'
    BY <1>6, <1>8, <2>2
  <2>3. CASE HeardWithin(n, p, Unheard(n, p))
    <3>1. \A t \in Nat : t = Unheard(n, p)
             => HeardWithin(n, p, t)' /\ t = Unheard(n, p)'
      BY <1>1, <1>2, <2>1, <2>2, <2>3 DEF PairTypeOK
    <3>2. QED
      BY <1>2, <3>1 DEF NewsIsDue
  <2>4. ASSUME NEW m \in Sent(n, p), m.kind = "announce", ~m.delivered,
               HeardWithin(n, p, m.age + Silence(p))
        PROVE  NewsIsDue(n, p)'
    <3>1. m.age \in Nat /\ m.age <= MaxDelay /\ MaxDelay \in Nat
      BY <1>1 DEF PairTypeOK
    <3>2. CASE m # d
      <4>1. m \in Sent(n, p)'
        BY <1>8, <3>2, DeliveryRecords
      <4>2. HeardWithin(n, p, m.age + Silence(p))'
        BY <1>2, <2>2, <2>4, <3>1
      <4>3. QED
        BY <2>4, <4>1, <4>2 DEF NewsIsDue, Silence
    <3>3. CASE m = d
      <4>1. registry'[n][p] = [content |-> d.content, age |-> 0]
        BY <1>8, <2>4, <3>3, DeliveryRecords
      <4>2. d.content \in Contents
        BY <2>4, <3>3 DEF MeshTypes, Sent
      <4>3. registry'[n][p] # None /\ registry'[n][p].age = 0
        BY <4>1, <4>2, MeshAssumption
      <4>4. HeardWithin(n, p, Unheard(n, p))'
        BY <1>3, <4>3 DEF HeardWithin
      <4>5. QED
        BY <4>4 DEF NewsIsDue
    <3>4. QED
      BY <3>2, <3>3
  <2>5. \/ HeardWithin(n, p, Unheard(n, p))
        \/ \E m \in Sent(n, p) :
              /\ m.kind = "announce" /\ ~m.delivered
              /\ HeardWithin(n, p, m.age + Silence(p))
    BY <2>1 DEF NewsIsDue
  <2>6. QED
    BY <2>3, <2>4, <2>5
<1>9. ASSUME Undisturbed(n, p),
             UNCHANGED <<beat_in[p], losses[n][p], Sent(n, p)>>,
             registry'[n][p] = registry[n][p] \/ Sweep(n)
      PROVE  NewsIsDue(n, p)'
  <2>1. NewsIsDue(n, p) /\ Unheard(n, p)' = Unheard(n, p)
    BY <1>9 DEF Undisturbed, Unheard
  <2>2. ASSUME NEW t \in Nat, t <= Silence(p) + MaxDelay, HeardWithin(n, p, t)
        PROVE  HeardWithin(n, p, t)'
    BY <1>6, <1>9, <2>2
  <2>3. CASE HeardWithin(n, p, Unheard(n, p))
    <3>1. \A t \in Nat : t = Unheard(n, p)
             => HeardWithin(n, p, t)' /\ t = Unheard(n, p)'
      BY <1>1, <1>2, <2>1, <2>2, <2>3 DEF PairTypeOK
    <3>2. QED
      BY <1>2, <3>1 DEF NewsIsDue
  <2>4. ASSUME NEW m \in Sent(n, p), m.kind = "announce", ~m.delivered,
               HeardWithin(n, p, m.age + Silence(p))
        PROVE  NewsIsDue(n, p)'
    <3>1. m.age \in Nat /\ m.age <= MaxDelay /\ MaxDelay \in Nat
      BY <1>1 DEF PairTypeOK
    <3>2. HeardWithin(n, p, m.age + Silence(p))'
      BY <1>2, <2>2, <2>4, <3>1
    <3>3. m \in Sent(n, p)'
      BY <1>9
    <3>4. QED
      BY <2>4, <3>2, <3>3 DEF NewsIsDue, Silence
  <2>5. \/ HeardWithin(n, p, Unheard(n, p))
        \/ \E m \in Sent(n, p) :
              /\ m.kind = "announce" /\ ~m.delivered
              /\ HeardWithin(n, p, m.age + Silence(p))
    BY <2>1 DEF NewsIsDue
  <2>6. QED
    BY <2>3, <2>4, <2>5
<1>10. ASSUME Undisturbed(n, p), Sweep(n) PROVE NewsIsDue(n, p)'
  BY <1>9, <1>10, SweepKeeps DEF Sent
<1>11. QED
  BY <1>4, <1>5, <1>7, <1>8, <1>9, <1>10, PairStep

\* The inductive invariant when the TTL is long enough.
TolerantIInv == MeshIInv /\ ListeningInv

\* Nobody runs yet.
LEMMA TolerantInitial == MeshInit => TolerantIInv
BY MeshInitial DEF MeshInit, TolerantIInv, ListeningInv

\* Pair by pair.
LEMMA TolerantStep ==
    ASSUME Tolerant
    PROVE  TolerantIInv /\ [MeshNext]_meshVars => TolerantIInv'
<1> SUFFICES ASSUME TolerantIInv, [MeshNext]_meshVars PROVE TolerantIInv'
  OBVIOUS
<1>1. MeshIInv /\ MeshIInv' /\ MeshTypes
  BY MeshStep DEF TolerantIInv, MeshIInv
<1>2. ASSUME NEW n \in Nodes, NEW p \in Advertisers, n # p, up'[n], up'[p]
      PROVE  NewsIsDue(n, p)'
  <2>1. p \in Nodes /\ Silence(p) + MaxDelay <= Ttl[n]
    BY MeshAssumption DEF Tolerant
  <2>2. /\ up[n] => PairInv(n, p)
        /\ up[n] /\ up[p] => NewsIsDue(n, p)
    BY <1>2, <2>1 DEF TolerantIInv, MeshIInv, ListeningInv
  <2>3. QED
    BY <1>1, <1>2, <2>1, <2>2, NewsStaysDue
<1>3. QED
  BY <1>1, <1>2 DEF TolerantIInv, ListeningInv

(***************************************************************************)
(* With a TTL that outlasts the announcements one receiver may miss in a   *)
(* row: it has always heard a running agent since the last announcement it *)
(* did not miss, or that one is still on its way.                          *)
(***************************************************************************)
THEOREM ListeningInvariant == Tolerant => (MeshSpec => []TolerantIInv)
<1> SUFFICES ASSUME Tolerant PROVE MeshSpec => []TolerantIInv
  OBVIOUS
<1>1. TolerantIInv /\ [MeshNext]_meshVars => TolerantIInv'
  BY TolerantStep
<1>2. QED
  BY <1>1, TolerantInitial, PTL DEF MeshSpec

\* How old an entry may be when its agent runs and has been left alone.
LEMMA QuietEntry ==
    ASSUME Tolerant, TolerantIInv, NEW n \in Nodes, NEW p \in Advertisers,
           n # p, up[n], up[p], calm[n][p] > 2 * MaxDelay + Silence(p)
    PROVE  /\ registry[n][p] # None
           /\ registry[n][p].age <= Silence(p) + MaxDelay
           /\ registry[n][p].age <= Ttl[n]
           /\ PairTypeOK(n, p) /\ Silence(p) \in Nat /\ EntryIsNews(n, p)
<1>1. p \in Nodes
  BY MeshAssumption
<1>2. PairTypeOK(n, p) /\ Silence(p) + MaxDelay <= Ttl[n]
  BY <1>1, PairTypes DEF Tolerant, TolerantIInv, MeshIInv, PairTypesOK
<1>3. /\ Unheard(n, p) \in Nat /\ Silence(p) \in Nat
      /\ Unheard(n, p) <= Silence(p)
  BY <1>1, <1>2, UnheardBounds
<1>4. \E t \in Nat : t <= Silence(p) + MaxDelay /\ HeardWithin(n, p, t)
  <2>1. \A m \in Sent(n, p) : m.age \in Nat /\ m.age <= MaxDelay
    BY <1>2 DEF PairTypeOK
  <2>2. MaxDelay \in Nat
    BY MeshAssumption
  <2>3. NewsIsDue(n, p)
    BY DEF TolerantIInv, ListeningInv
  <2>4. CASE HeardWithin(n, p, Unheard(n, p))
    BY <1>3, <2>2, <2>4
  <2>5. ASSUME NEW m \in Sent(n, p), HeardWithin(n, p, m.age + Silence(p))
        PROVE  <1>4
    BY <1>3, <2>1, <2>2, <2>5
  <2>6. QED
    BY <2>3, <2>4, <2>5 DEF NewsIsDue
<1>5. /\ registry[n][p] # None
      /\ registry[n][p].age <= Silence(p) + MaxDelay
  BY <1>2, <1>3, <1>4 DEF HeardWithin, PairTypeOK
<1>6. EntryIsNews(n, p)
  BY <1>1 DEF TolerantIInv, MeshIInv, PairInv
<1>7. QED
  BY <1>2, <1>3, <1>5, <1>6 DEF PairTypeOK

(***************************************************************************)
(* Two nodes agree (docs/spec.md:359-366): for any number of nodes and any *)
(* TTL that allows for the losses, n knows p as p is, whatever was lost,   *)
(* late, repeated or overtaken before both were left alone.                *)
(***************************************************************************)
THEOREM ViewsAlwaysAgree == Tolerant => (MeshSpec => []AgreedView)
<1> SUFFICES ASSUME Tolerant PROVE MeshSpec => []AgreedView
  OBVIOUS
<1>1. ASSUME TolerantIInv, NEW n \in Nodes, NEW p \in Advertisers,
             n # p, up[n], up[p], calm[n][p] > Settled
      PROVE  registry[n][p] # None /\ registry[n][p].content = agent[p]
  <2>1. calm[n][p] > 2 * MaxDelay + Silence(p) /\ calm[n][p] \in Nat
    <3>1. /\ Hb[p] <= Slowest /\ Slowest \in Nat /\ Hb[p] \in Nat
          /\ MaxLoss \in Nat /\ MaxDelay \in Nat /\ p \in Nodes
      BY IntervalBounds, MeshAssumption
    <3>2. calm[n][p] \in Nat
      BY <1>1, <3>1, PairTypes
         DEF TolerantIInv, MeshIInv, PairTypesOK, PairTypeOK
    <3> DEFINE silence == (MaxLoss + 1) * Hb[p]
               longest == (MaxLoss + 1) * Slowest
    <3>3. silence \in Nat /\ longest \in Nat /\ silence <= longest
      BY <3>1, LongerPeriods
    <3>4. Settled = 2 * MaxDelay + longest /\ Silence(p) = silence
      BY DEF Settled, Silence
    <3> HIDE DEF silence, longest
    <3>5. QED
      BY <1>1, <3>1, <3>2, <3>3, <3>4
  <2>2. /\ registry[n][p] # None /\ registry[n][p].age <= Silence(p) + MaxDelay
        /\ registry[n][p].age <= Ttl[n] /\ PairTypeOK(n, p)
        /\ Silence(p) \in Nat /\ EntryIsNews(n, p)
    BY <1>1, <2>1, QuietEntry
  <2>3. registry[n][p].age + MaxDelay < calm[n][p]
    BY <2>1, <2>2 DEF PairTypeOK
  <2>4. QED
    BY <2>2, <2>3 DEF EntryIsNews
<1>2. TolerantIInv => AgreedView
  BY <1>1 DEF AgreedView
<1>3. QED
  BY <1>2, ListeningInvariant, PTL

(***************************************************************************)
(* README.md:60 under the same hypothesis: no sweep drops a peer that runs *)
(* and has been left alone for longer than the TTL and the delay.  What    *)
(* run camp_observer finds is that camp's observers need not satisfy it.   *)
(***************************************************************************)
THEOREM LivePeersAlwaysStay == Tolerant => (MeshSpec => LivePeersStay)
<1> SUFFICES ASSUME Tolerant PROVE MeshSpec => LivePeersStay
  OBVIOUS
<1>1. ASSUME TolerantIInv, NEW n \in Nodes, NEW p \in Nodes,
             up[n], up[p], calm[n][p] > Ttl[n] + MaxDelay, registry[n][p] # None
      PROVE  ~IsStale(n, registry[n][p])
  <2>1. p \in Advertisers /\ n # p
    BY <1>1 DEF TolerantIInv, MeshIInv, MeshTypes
  <2>2. Silence(p) + MaxDelay <= Ttl[n]
    BY <2>1 DEF Tolerant
  <2>3. calm[n][p] > 2 * MaxDelay + Silence(p)
    <3>1. PairTypeOK(n, p)
      BY <1>1, PairTypes DEF TolerantIInv, MeshIInv, PairTypesOK
    <3>2. Silence(p) \in Nat
      BY <3>1, UnheardBounds
    <3>3. QED
      BY <1>1, <2>2, <3>1, <3>2 DEF PairTypeOK
  <2>4. registry[n][p].age <= Ttl[n] /\ PairTypeOK(n, p)
    BY <1>1, <2>1, <2>3, QuietEntry
  <2>5. QED
    BY <1>1, <2>4 DEF IsStale, PairTypeOK
<1>2. TolerantIInv /\ [MeshNext]_meshVars =>
        [\A n, p \in Nodes :
            up[n] /\ up[p] /\ calm[n][p] > Ttl[n] + MaxDelay
            /\ registry[n][p] # None /\ registry'[n][p] = None
                => ~IsStale(n, registry[n][p])]_meshVars
  BY <1>1
<1>3. MeshSpec => []TolerantIInv /\ [][MeshNext]_meshVars
  BY ListeningInvariant DEF MeshSpec
<1>4. QED
  BY <1>2, <1>3, PTL DEF LivePeersStay
=============================================================================
