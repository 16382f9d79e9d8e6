--------------------------- MODULE MeshNode_proofs ---------------------------
(***************************************************************************)
(* Proofs about a node, for any number of agents, applications, contents   *)
(* and configurations, and for any bounds.                                 *)
(***************************************************************************)
EXTENDS MeshNode, Registry_proofs

-----------------------------------------------------------------------------
(* The inductive invariant, part by part. *)

\* The registry's lock is held by nobody but a sweeper that still sweeps.
LockHolderIsAlive == writer # None => pc[writer] = "evicting"

NodeTypes ==
    /\ NodeTypeOK
    /\ now <= MaxTime

(***************************************************************************)
(* Which tasks and applications can be where, by the phase of the handle's *)
(* owner: nothing runs before it is spawned, what was joined has ended,    *)
(* and an observer has no heartbeat and no updates in progress.            *)
(***************************************************************************)
Ended(t) == pc[t] \in {"off", "done"}

BeforeUp == pc[Main] \in StartingUp \cup {"failed"}

NothingSpawned ==
    /\ BeforeUp => /\ pc[Heartbeat] = "off" /\ pc[Sweeper] = "off"
                   /\ \A a \in Apps : pc[a] = "idle"
    /\ pc[Main] \in {"announce", "listen", "failed"} => pc[Listener] = "off"

JoinedHaveEnded ==
    /\ pc[Main] \in {"join_sweeper", "join_listener", "stop_daemon", "returned"}
          => Ended(Heartbeat)
    /\ pc[Main] \in {"join_listener", "stop_daemon", "returned"}
          => Ended(Sweeper)
    /\ pc[Main] \in {"stop_daemon", "returned"} => Ended(Listener)

NotSignalled ==
    /\ BeforeUp \/ pc[Main] = "up" => ~stop /\ ~aborted
    /\ Advertise /\ pc[Main] = "up" => ~Ended(Heartbeat)

ObserverIsIdle ==
    ~Advertise =>
       /\ pc[Main] \notin {"announce", "insert", "inserting", "unregister",
                           "remove"}
       /\ pc[Heartbeat] = "off"
       /\ \A a \in Apps : pc[a] = "idle"

Lifecycle == NothingSpawned /\ JoinedHaveEnded /\ NotSignalled /\ ObserverIsIdle

(***************************************************************************)
(* Who has begun which operation: the sweeper alone sweeps, the listener   *)
(* stores peers, and accepted ones; all others store what the local agent  *)
(* says of itself.                                                         *)
(***************************************************************************)
IsOwn(card) == card.content \in OwnContents
Accepted(card) == Auth /\ Verify => IsVerified(card)

PendingOf(c) ==
    /\ call[c].op = "evict" => c = Sweeper
    /\ call[c].op = "upsert" =>
          /\ pc[c] \in {"inserting", "upserting"}
          /\ IF c = Listener
             THEN /\ call[c].id # Me
                  /\ call[c].origin = "Remote"
                  /\ Accepted(call[c].card)
             ELSE /\ call[c].id = Me
                  /\ call[c].origin = "Local"
                  /\ IsOwn(call[c].card)

Pending == \A c \in Callers : PendingOf(c)

\* What the node says of itself, and what its registry holds.
Entries ==
    /\ IsOwn(local_agent)
    /\ \A p \in Apps \cup {Heartbeat} : IsOwn(held[p])
    /\ inner[Me] # None => IsOwn(inner[Me].card)
    /\ \A id \in Peers : inner[id] # None => Accepted(inner[id].card)

\* No local entry before the insert, nothing advertised before the announce.
Visibility ==
    /\ BeforeUp \/ ~Advertise => inner[Me] = None
    /\ pc[Main] = "announce" \/ ~Advertise => published = None

(***************************************************************************)
(* The schedule: how far the beat that is due, the beat after it, a begun  *)
(* upsert and the local entry's instant may be from the clock and from     *)
(* each other.                                                             *)
(***************************************************************************)
UpsertsOnTime ==
    \A c \in Callers : call[c].op = "upsert" => now <= call[c].at + MaxLate

BeatsOnTime ==
    ~Ended(Heartbeat) =>
       /\ now <= beat_due + MaxLate /\ beat_due <= now + Hb
       /\ pc[Heartbeat] = "waiting" => next_beat = beat_due
       /\ pc[Heartbeat] # "waiting" =>
             /\ beat_due <= now
             /\ beat_due <= next_beat /\ next_beat <= now + Hb
       /\ call[Heartbeat].op = "upsert" => next_beat <= call[Heartbeat].at + Hb

EntryOnTime ==
    ~Ended(Heartbeat) /\ inner[Me] # None =>
        beat_due <= inner[Me].last_seen + Hb + MaxLate

OnTime == UpsertsOnTime /\ BeatsOnTime /\ EntryOnTime

NodeIInv ==
    /\ IInv
    /\ NodeTypes
    /\ LockHolderIsAlive
    /\ Lifecycle
    /\ Pending
    /\ Entries
    /\ Visibility
    /\ ListenerSparesLocal
    /\ OnTime

-----------------------------------------------------------------------------
(* Facts about the constants. *)

\* The tasks, the owner and the applications are distinct callers.
LEMMA CallerFacts ==
    /\ {Main, Heartbeat, Sweeper, Listener} \subseteq Callers
    /\ Apps \subseteq Callers
    /\ Callers = {Main, Heartbeat, Sweeper, Listener} \cup Apps
    /\ Main # Heartbeat /\ Main # Sweeper /\ Main # Listener
    /\ Heartbeat # Sweeper /\ Heartbeat # Listener /\ Sweeper # Listener
    /\ Apps \cap {Main, Heartbeat, Sweeper, Listener} = {}
    /\ None \notin Callers
BY NodeAssumption, CardsAssumption DEF Tasks

\* A refreshed card is a card with the same content (config.rs:75-102).
LEMMA RefreshedCard ==
    ASSUME NEW card \in Cards
    PROVE  /\ Refreshed(card) \in Cards
           /\ Refreshed(card).content = card.content
BY NodeAssumption DEF Refreshed, Signed, Auth

-----------------------------------------------------------------------------
(* Whatever a node does, it does to its registry what the registry's       *)
(* lemmas are about.  An update that is cancelled does not hold the lock.  *)

LEMMA NodeStepIsOperation ==
    ASSUME NodeTypes, LockHolderIsAlive, [NodeNext]_allVars
    PROVE  [Operation]_vars
<1> USE CallerFacts
<1>1. /\ Me \in Ids /\ local_agent \in Cards
      /\ \A p \in Apps \cup {Heartbeat} : held[p] \in Cards
  BY NodeAssumption DEF NodeTypes, NodeTypeOK
<1>2. CASE Startup
  BY <1>1, <1>2
     DEF Startup, StartAnnounce, StartListener, ListenerFails, InsertLocal,
         SpawnTasks, Operation, Ask, Step, Origins, ShutDownDaemon
<1>3. CASE HeartbeatStep
  BY <1>1, <1>3
     DEF HeartbeatStep, StopTask, BeatTick, BeatAnnounce, BeatUpserted,
         AbortTakesEffect, Operation, Ask, Step, Abandon, Origins
<1>4. CASE SweeperStep
  BY <1>4
     DEF SweeperStep, StopTask, SweepTick, SweepEvicts, SweepReturns,
         AbortTakesEffect, Operation, Ask, Step, Abandon
<1>5. CASE ListenerStep \/ SearchStops
  BY <1>5
     DEF ListenerStep, SearchStops, StopTask, ResolvedUpserted,
         AbortTakesEffect, Operation, Step, Abandon
<1>6. ASSUME NEW id \in Ids, NEW card \in Cards, Resolved(id, card)
      PROVE  Operation
  BY <1>6 DEF Resolved, Accept, Operation, Ask, Origins
<1>7. ASSUME NEW instance \in Instances, Removed(instance)
      PROVE  Operation
  BY <1>7 DEF Removed, Operation, Takeaway
<1>8. ASSUME NEW a \in Apps,
             AppStep(a) \/ \E content \in OwnContents : Mutate(a, content)
      PROVE  [Operation]_vars
  BY <1>1, <1>8
     DEF AppStep, Mutate, SignAndClone, UpdateAnnounce, UpdateAnnounceFails,
         UpdateReturns, Operation, Ask, Step, Origins
<1>9. ASSUME NEW a \in Apps, CancelUpdate(a)
      PROVE  Operation
  <2>1. writer # a
    BY <1>9 DEF CancelUpdate, LockHolderIsAlive
  <2>2. QED
    BY <1>9, <2>1 DEF CancelUpdate, Operation, Abandon
<1>10. CASE Shutdown \/ ShutdownStep \/ CancelShutdown \/ DropHandle
  BY <1>1, <1>10
     DEF Shutdown, ShutdownStep, CancelShutdown, DropHandle, Unregister,
         RemoveLocal, Join, StopDaemon, Operation, Takeaway, Origins,
         ShutDownDaemon
<1>11. CASE Clock \/ DaemonExits
  BY <1>11 DEF Clock, DaemonExits, Operation
<1>12. CASE UNCHANGED allVars
  BY <1>12 DEF allVars
<1>13. QED
  BY <1>2, <1>3, <1>4, <1>5, <1>6, <1>7, <1>8, <1>9, <1>10, <1>11, <1>12
     DEF NodeNext

-----------------------------------------------------------------------------
(* The initial states. *)

\* A node starts with an empty registry, nothing spawned, nothing published.
LEMMA NodeInitIInv == NodeInit => NodeIInv
<1> SUFFICES ASSUME NodeInit PROVE NodeIInv
  OBVIOUS
<1> USE CallerFacts
<1>1. /\ Init /\ config \in Configs
      /\ local_agent \in Cards /\ local_agent.content \in OwnContents
      /\ held = [p \in Apps \cup {Heartbeat} |-> local_agent]
      /\ published = None /\ inner = [id \in Ids |-> None] /\ writer = None
      /\ now = 0 /\ log = <<>> /\ call = [c \in Callers |-> Idle]
      /\ daemon = "running" /\ given_up = FALSE
      /\ stop = FALSE /\ aborted = FALSE
      /\ next_beat = 0 /\ next_sweep = 0 /\ beat_due = 0
  BY RefreshedCard, NodeAssumption DEF NodeInit, Init
<1>2. IInv
  BY <1>1, InitIInv
<1>3. /\ pc \in [Callers -> Phases]
      /\ pc[Main] \in {"announce", "listen"}
      /\ ~Advertise => pc[Main] # "announce"
      /\ \A a \in Apps : pc[a] = "idle"
      /\ pc[Heartbeat] = "off" /\ pc[Sweeper] = "off" /\ pc[Listener] = "off"
  <2>1. pc = [p \in Callers |->
               CASE p = Main -> IF Advertise THEN "announce" ELSE "listen"
                 [] p \in Apps -> "idle"
                 [] OTHER -> "off"]
    BY DEF NodeInit
  <2>2. QED
    BY <2>1 DEF Phases, MainPhases, StartingUp, AppPhases
<1>4. NodeTypes
  <2>1. TypeOK /\ 0 \in 0..MaxTime
    BY <1>2, BoundsAssumption DEF IInv
  <2>2. pc[Main] \in MainPhases /\ \A a \in Apps : pc[a] \in AppPhases
    BY <1>3 DEF MainPhases, AppPhases, StartingUp
  <2>3. /\ held \in [Apps \cup {Heartbeat} -> Cards]
        /\ daemon \in {"running", "stopping", "gone"} /\ given_up \in BOOLEAN
        /\ stop \in BOOLEAN /\ aborted \in BOOLEAN
    BY <1>1
  <2>4. /\ next_beat \in 0..MaxTime /\ next_sweep \in 0..MaxTime
        /\ beat_due \in 0..MaxTime /\ now <= MaxTime
    BY <1>1, <2>1
  <2>5. QED
    BY <1>1, <1>3, <2>1, <2>2, <2>3, <2>4, Zenon DEF NodeTypes, NodeTypeOK
<1>5. LockHolderIsAlive /\ ListenerSparesLocal /\ Pending
  BY <1>1 DEF LockHolderIsAlive, ListenerSparesLocal, Pending, PendingOf, Idle
<1>6. Lifecycle
  BY <1>1, <1>3
     DEF Lifecycle, NothingSpawned, JoinedHaveEnded, NotSignalled,
         ObserverIsIdle, BeforeUp, StartingUp, Ended
<1>7. Entries /\ Visibility
  BY <1>1, NodeAssumption DEF Entries, Visibility, IsOwn, Peers
<1>8. OnTime
  BY <1>1, <1>3
     DEF OnTime, UpsertsOnTime, BeatsOnTime, EntryOnTime, Ended, Idle
<1>9. QED
  BY <1>2, <1>4, <1>5, <1>6, <1>7, <1>8 DEF NodeIInv

-----------------------------------------------------------------------------
(* Every part is preserved by every step. *)

\* A timer is armed within the horizon, and not before now.
LEMMA Deadlines ==
    ASSUME NodeTypes, NEW d \in Nat
    PROVE  After(d) \in 0..MaxTime /\ now <= After(d) /\ After(d) <= now + d
BY BoundsAssumption DEF NodeTypes, NodeTypeOK, TypeOK, After

\* The types of the node's own variables, spelt out for the provers.
OwnTypes ==
    /\ config \in Configs /\ Advertise \in BOOLEAN
    /\ local_agent \in Cards
    /\ held \in [Apps \cup {Heartbeat} -> Cards]
    /\ published \in Cards \cup {None}
    /\ daemon \in {"running", "stopping", "gone"} /\ given_up \in BOOLEAN
    /\ stop \in BOOLEAN /\ aborted \in BOOLEAN
    /\ next_beat \in 0..MaxTime /\ next_sweep \in 0..MaxTime
    /\ beat_due \in 0..MaxTime
    /\ now \in 0..MaxTime
    /\ pc \in [Callers -> Phases]
    /\ pc[Main] \in MainPhases
    /\ \A a \in Apps : pc[a] \in AppPhases
    /\ pc[Heartbeat] \in {"off", "waiting", "cloned", "upserting", "done"}
    /\ pc[Sweeper] \in {"off", "waiting", "evicting", "done"}
    /\ pc[Listener] \in {"off", "waiting", "upserting", "done"}

\* NodeTypes, split into the registry's part and the node's.
LEMMA TypesSplit == NodeTypes <=> TypeOK /\ OwnTypes
BY BoundsAssumption, NodeAssumption
   DEF NodeTypes, NodeTypeOK, OwnTypes, TypeOK, Advertise

\* Every task stays in its own phases, every value in its type.
LEMMA NodeStepTypes ==
    ASSUME NodeTypes, LockHolderIsAlive, [NodeNext]_allVars
    PROVE  NodeTypes'
<1> USE CallerFacts
<1>1. TypeOK' /\ now' \in 0..MaxTime
  BY NodeStepIsOperation, OperationTypeOK, OperationClock, BoundsAssumption
     DEF NodeTypes, NodeTypeOK, TypeOK
<1>2. OwnTypes
  BY TypesSplit
<1>3. OwnTypes'
  <2>1. /\ After(Hb) \in 0..MaxTime /\ Refreshed(local_agent) \in Cards
        /\ \A content \in OwnContents :
              [local_agent EXCEPT !.content = content] \in Cards
    BY <1>2, Deadlines, RefreshedCard, TimingAssumption, NodeAssumption
       DEF OwnTypes
  <2> USE <1>2, <2>1
     DEF OwnTypes, NodeNext, Startup, StartAnnounce, StartListener,
         ListenerFails, InsertLocal, SpawnTasks, HeartbeatStep, StopTask,
         BeatTick, BeatAnnounce, BeatUpserted, AbortTakesEffect, SweeperStep,
         SweepTick, SweepEvicts, SweepReturns, ListenerStep, ResolvedUpserted,
         SearchStops, Resolved, Accept, Removed, AppStep, Mutate, SignAndClone,
         UpdateAnnounce, UpdateAnnounceFails, UpdateReturns, CancelUpdate,
         Shutdown, ShutdownStep, Unregister, RemoveLocal, Join, StopDaemon,
         CancelShutdown, DropHandle, Clock, allVars, nodeVars, others, Goto,
         DaemonExits, ShutDownDaemon, daemonVars, Registered
  <2>2. /\ (config \in Configs /\ Advertise \in BOOLEAN)'
        /\ (local_agent \in Cards)'
        /\ (published \in Cards \cup {None})'
    BY DEF Advertise
  <2>3. (held \in [Apps \cup {Heartbeat} -> Cards])'
    OBVIOUS
  <2>4. (/\ daemon \in {"running", "stopping", "gone"} /\ given_up \in BOOLEAN
         /\ stop \in BOOLEAN /\ aborted \in BOOLEAN)'
    OBVIOUS
  <2>5. /\ (next_beat \in 0..MaxTime /\ next_sweep \in 0..MaxTime)'
        /\ (beat_due \in 0..MaxTime)'
    OBVIOUS
  <2> USE DEF Phases, MainPhases, AppPhases, StartingUp
  <2>6. (pc \in [Callers -> Phases])'
    OBVIOUS
  <2>7. (pc[Main] \in MainPhases)'
    OBVIOUS
  <2>8. (\A a \in Apps : pc[a] \in AppPhases)'
    OBVIOUS
  <2>9. (/\ pc[Heartbeat] \in {"off", "waiting", "cloned", "upserting", "done"}
         /\ pc[Sweeper] \in {"off", "waiting", "evicting", "done"}
         /\ pc[Listener] \in {"off", "waiting", "upserting", "done"})'
    OBVIOUS
  <2>10. QED
    BY <1>1, <2>2, <2>3, <2>4, <2>5, <2>6, <2>7, <2>8, <2>9, Zenon
<1>4. QED
  BY <1>1, <1>3, TypesSplit, PTL

(***************************************************************************)
(* The lock is taken by a sweep in progress, and such a sweeper leaves that*)
(* phase only without the lock (mesh.rs:491-495, registry.rs:320).         *)
(***************************************************************************)
LEMMA NodeStepLock ==
    ASSUME NodeTypes, LockHolderIsAlive, Lifecycle, [NodeNext]_allVars
    PROVE  LockHolderIsAlive'
<1> USE CallerFacts
<1>1. OwnTypes /\ TypeOK
  BY TypesSplit
<1>2. QED
  BY <1>1
     DEF OwnTypes, TypeOK, LockHolderIsAlive, Lifecycle, NothingSpawned,
         BeforeUp, NodeNext, Startup, StartAnnounce, StartListener,
         ListenerFails, InsertLocal, SpawnTasks, HeartbeatStep, StopTask,
         BeatTick, BeatAnnounce, BeatUpserted, AbortTakesEffect, SweeperStep,
         SweepTick, SweepEvicts, SweepReturns, ListenerStep, ResolvedUpserted,
         SearchStops, Resolved, Accept, Removed, AppStep, Mutate, SignAndClone,
         UpdateAnnounce, UpdateAnnounceFails, UpdateReturns, CancelUpdate,
         Shutdown, ShutdownStep, Unregister, RemoveLocal, Join, StopDaemon,
         CancelShutdown, DropHandle, Clock, allVars, nodeVars, others, Goto,
         Tick, BeginUpsert, FinishUpsert, BeginEvict, CollectStale, EvictOne,
         FinishEvict, TakeOut, Remove, RemoveByInstanceName, vars, Phases,
         MainPhases, AppPhases, StartingUp, DaemonExits, ShutDownDaemon,
         daemonVars, Registered

\* Nothing runs before it is spawned or after it was joined (mesh.rs:411-445).
LEMMA NodeStepLifecycle ==
    ASSUME NodeTypes, Lifecycle, [NodeNext]_allVars
    PROVE  Lifecycle'
<1> USE CallerFacts
<1>1. OwnTypes
  BY TypesSplit
<1> USE <1>1
   DEF OwnTypes, Advertise, HandleUsable, BeforeUp, Ended, Phases, MainPhases,
       AppPhases, StartingUp, NodeNext, Startup, StartAnnounce, StartListener,
       ListenerFails, InsertLocal, SpawnTasks, HeartbeatStep, StopTask,
       BeatTick, BeatAnnounce, BeatUpserted, AbortTakesEffect, SweeperStep,
       SweepTick, SweepEvicts, SweepReturns, ListenerStep, ResolvedUpserted,
       SearchStops, Resolved, Accept, Removed, AppStep, Mutate, SignAndClone,
       UpdateAnnounce, UpdateAnnounceFails, UpdateReturns, CancelUpdate,
       Shutdown, ShutdownStep, Unregister, RemoveLocal, Join, StopDaemon,
       CancelShutdown, DropHandle, Clock, allVars, nodeVars, others, Goto,
       DaemonExits, ShutDownDaemon, daemonVars, Registered
<1>2. NothingSpawned'
  BY DEF Lifecycle, NothingSpawned
<1>3. JoinedHaveEnded'
  BY DEF Lifecycle, NothingSpawned, JoinedHaveEnded
<1>4. NotSignalled'
  BY DEF Lifecycle, NotSignalled
<1>5. ObserverIsIdle'
  BY DEF Lifecycle, ObserverIsIdle
<1>6. QED
  BY <1>2, <1>3, <1>4, <1>5, Zenon DEF Lifecycle

\* Each task begins only its own operations (mesh.rs:550, listener.rs:96).
LEMMA NodeStepPending ==
    ASSUME NodeTypes, Lifecycle, Pending, Entries, [NodeNext]_allVars
    PROVE  Pending'
<1> USE CallerFacts
<1>1. OwnTypes /\ TypeOK
  BY TypesSplit
<1> SUFFICES ASSUME NEW c \in Callers PROVE PendingOf(c)'
  BY DEF Pending
<1>2. PendingOf(c) /\ Idle.op = "idle"
  BY DEF Pending, Idle
<1> USE <1>1, <1>2
   DEF OwnTypes, TypeOK, Phases, MainPhases, AppPhases, StartingUp, NodeNext,
       Startup, StartAnnounce, StartListener, ListenerFails, InsertLocal,
       SpawnTasks, HeartbeatStep, StopTask, BeatTick, BeatAnnounce,
       BeatUpserted, AbortTakesEffect, SweeperStep, SweepTick, SweepEvicts,
       SweepReturns, ListenerStep, ResolvedUpserted, SearchStops, Resolved,
       Accept, Removed, AppStep, Mutate, SignAndClone, UpdateAnnounce,
       UpdateAnnounceFails, UpdateReturns, CancelUpdate, Shutdown,
       ShutdownStep, Unregister, RemoveLocal, Join, StopDaemon, CancelShutdown,
       DropHandle, Clock, allVars, nodeVars, others, Goto, BeginUpsert,
       FinishUpsert, BeginEvict, CollectStale, EvictOne, FinishEvict, TakeOut,
       Remove, RemoveByInstanceName, Tick, vars, DaemonExits, ShutDownDaemon,
       daemonVars, Registered
<1>3. (call[c].op = "evict" => c = Sweeper)'
  BY DEF PendingOf
<1>4. (call[c].op = "upsert" => pc[c] \in {"inserting", "upserting"})'
  BY DEF PendingOf, Lifecycle, NothingSpawned, BeforeUp
<1>5. CASE c = Listener
  BY <1>3, <1>4, <1>5 DEF PendingOf, Accepted, Auth, Verify
<1>6. CASE c # Listener
  BY <1>3, <1>4, <1>6 DEF PendingOf, Entries
<1>7. QED
  BY <1>5, <1>6

\* The local entry is written by the insert, by a heartbeat or by an update.
LocalUpserted ==
    SpawnTasks \/ BeatUpserted \/ \E a \in Apps : UpdateReturns(a)

LEMMA LocalEntryChange ==
    ASSUME NodeTypes, Pending, [NodeNext]_allVars,
           inner'[Me] # inner[Me], inner'[Me] # None
    PROVE  LocalUpserted
<1> USE CallerFacts
<1>1. TypeOK /\ Me \in Ids
  BY TypesSplit, NodeAssumption
<1>2. ~ResolvedUpserted
  BY <1>1 DEF ResolvedUpserted, FinishUpsert, Store, TypeOK, Pending, PendingOf
<1>3. \A id \in Ids : \A origin, reason : ~TakeOut(id, origin, reason)
  BY <1>1 DEF TakeOut, TypeOK
<1>4. inner' # inner
  OBVIOUS
<1>5. QED
  BY <1>1, <1>2, <1>3, <1>4
     DEF LocalUpserted, AppStep, NodeNext, Startup, StartAnnounce,
         StartListener, ListenerFails, InsertLocal, BeginUpsert, HeartbeatStep,
         StopTask, BeatTick, BeatAnnounce, AbortTakesEffect, SweeperStep,
         SweepTick, BeginEvict, SweepEvicts, CollectStale, EvictOne,
         SweepReturns, FinishEvict, ListenerStep, SearchStops, Resolved,
         Accept, Removed, RemoveByInstanceName, Present, Mutate, SignAndClone,
         UpdateAnnounce, UpdateAnnounceFails, CancelUpdate, Shutdown,
         ShutdownStep, Unregister, RemoveLocal, Remove, Join, StopDaemon,
         CancelShutdown, DropHandle, Clock, Tick, allVars, vars, DaemonExits,
         ShutDownDaemon

\* What is stored is what its author said, and was accepted (listener.rs:92).
LEMMA NodeStepEntries ==
    ASSUME NodeTypes, LockHolderIsAlive, Pending, Entries, [NodeNext]_allVars
    PROVE  Entries'
<1> USE CallerFacts
<1>1. OwnTypes /\ TypeOK /\ Me \in Ids
  BY TypesSplit, NodeAssumption
<1>2. IsOwn(local_agent)' /\ \A p \in Apps \cup {Heartbeat} : IsOwn(held[p])'
  <2>1. Refreshed(local_agent).content = local_agent.content
    BY <1>1, RefreshedCard DEF OwnTypes
  <2>2. \A content \in OwnContents :
           [local_agent EXCEPT !.content = content].content = content
    BY <1>1, NodeAssumption DEF OwnTypes
  <2>3. \/ local_agent' = local_agent \/ local_agent' = Refreshed(local_agent)
        \/ \E content \in OwnContents :
              local_agent' = [local_agent EXCEPT !.content = content]
    BY DEF NodeNext, Startup, StartAnnounce, StartListener, ListenerFails,
           InsertLocal, SpawnTasks, HeartbeatStep, StopTask, BeatTick,
           BeatAnnounce, BeatUpserted, AbortTakesEffect, SweeperStep,
           SweepTick, SweepEvicts, SweepReturns, ListenerStep,
           ResolvedUpserted, SearchStops, Resolved, Accept, Removed, AppStep,
           Mutate, SignAndClone, UpdateAnnounce, UpdateAnnounceFails,
           UpdateReturns, CancelUpdate, Shutdown, ShutdownStep, Unregister,
           RemoveLocal, Join, StopDaemon, CancelShutdown, DropHandle, Clock,
           allVars, nodeVars, others, Goto, DaemonExits, ShutDownDaemon,
           daemonVars, Registered
  <2>4. IsOwn(local_agent')
    BY <2>1, <2>2, <2>3 DEF Entries, IsOwn
  <2>5. ASSUME NEW p \in Apps \cup {Heartbeat} PROVE IsOwn(held'[p])
    BY <1>1, <2>4
       DEF OwnTypes, Entries, IsOwn, NodeNext, Startup, StartAnnounce,
           StartListener, ListenerFails, InsertLocal, SpawnTasks,
           HeartbeatStep, StopTask, BeatTick, BeatAnnounce, BeatUpserted,
           AbortTakesEffect, SweeperStep, SweepTick, SweepEvicts, SweepReturns,
           ListenerStep, ResolvedUpserted, SearchStops, Resolved, Accept,
           Removed, AppStep, Mutate, SignAndClone, UpdateAnnounce,
           UpdateAnnounceFails, UpdateReturns, CancelUpdate, Shutdown,
           ShutdownStep, Unregister, RemoveLocal, Join, StopDaemon,
           CancelShutdown, DropHandle, Clock, allVars, nodeVars, others, Goto,
           DaemonExits, ShutDownDaemon, daemonVars, Registered
  <2>6. QED
    BY <2>4, <2>5 DEF IsOwn
<1>3. ASSUME NEW id \in Ids, inner'[id] # inner[id], inner'[id] # None
      PROVE  IF id = Me THEN IsOwn(inner'[id].card)
                        ELSE Accepted(inner'[id].card)
  <2>1. PICK c \in Callers : /\ FinishUpsert(c) /\ call[c].id = id
                             /\ inner'[id] = [card |-> call[c].card,
                                             last_seen |-> call[c].at]
    BY <1>1, <1>3, NodeStepIsOperation, OperationEntry
  <2>2. inner'[id].card = call[c].card
    BY <2>1
  <2>3. QED
    BY <2>1, <2>2 DEF Pending, PendingOf, FinishUpsert
<1>4. config' = config
  BY DEF NodeNext, Startup, StartAnnounce, StartListener, ListenerFails,
         InsertLocal, SpawnTasks, HeartbeatStep, StopTask, BeatTick,
         BeatAnnounce, BeatUpserted, AbortTakesEffect, SweeperStep, SweepTick,
         SweepEvicts, SweepReturns, ListenerStep, ResolvedUpserted,
         SearchStops, Resolved, Accept, Removed, AppStep, Mutate, SignAndClone,
         UpdateAnnounce, UpdateAnnounceFails, UpdateReturns, CancelUpdate,
         Shutdown, ShutdownStep, Unregister, RemoveLocal, Join, StopDaemon,
         CancelShutdown, DropHandle, Clock, allVars, nodeVars, others, Goto,
         DaemonExits, ShutDownDaemon, daemonVars, Registered
<1>5. QED
  BY <1>1, <1>2, <1>3, <1>4 DEF Entries, IsOwn, Accepted, Auth, Verify, Peers

\* Before the insert, and for an observer, nothing is local (mesh.rs:114,129).
LEMMA NodeStepVisibility ==
    ASSUME NodeTypes, Lifecycle, Pending, Visibility, [NodeNext]_allVars
    PROVE  Visibility'
<1> USE CallerFacts
<1>1. OwnTypes /\ TypeOK /\ Me \in Ids
  BY TypesSplit, NodeAssumption
<1>2. /\ (pc[Main] = "announce" \/ ~Advertise => published = None)'
      /\ BeforeUp' => BeforeUp
      /\ Advertise' = Advertise
  BY <1>1
     DEF Visibility, Lifecycle, NothingSpawned, ObserverIsIdle, OwnTypes,
         TypeOK, BeforeUp, Advertise, Phases, MainPhases, AppPhases,
         StartingUp, NodeNext, Startup, StartAnnounce, StartListener,
         ListenerFails, InsertLocal, SpawnTasks, HeartbeatStep, StopTask,
         BeatTick, BeatAnnounce, BeatUpserted, AbortTakesEffect, SweeperStep,
         SweepTick, SweepEvicts, SweepReturns, ListenerStep, ResolvedUpserted,
         SearchStops, Resolved, Accept, Removed, AppStep, Mutate, SignAndClone,
         UpdateAnnounce, UpdateAnnounceFails, UpdateReturns, CancelUpdate,
         Shutdown, ShutdownStep, Unregister, RemoveLocal, Join, StopDaemon,
         CancelShutdown, DropHandle, Clock, allVars, nodeVars, others, Goto,
         DaemonExits, ShutDownDaemon, daemonVars, Registered
<1>3. (~BeforeUp' /\ Advertise) \/ ~LocalUpserted
  BY <1>1
     DEF LocalUpserted, SpawnTasks, BeatUpserted, UpdateReturns, Goto,
         Lifecycle, NothingSpawned, ObserverIsIdle, OwnTypes, BeforeUp,
         StartingUp
<1>4. (BeforeUp \/ ~Advertise => inner[Me] = None)'
  BY <1>2, <1>3, LocalEntryChange DEF Visibility
<1>5. QED
  BY <1>2, <1>4, Zenon DEF Visibility

(***************************************************************************)
(* New events: an upsert of the local agent is local, a sweep's removal is *)
(* an expiry, and the name of a removed service is not the local agent's.  *)
(***************************************************************************)
LEMMA NodeStepSpares ==
    ASSUME NodeTypes, LockHolderIsAlive, Pending, Entries,
           ListenerSparesLocal, [NodeNext]_allVars
    PROVE  ListenerSparesLocal'
<1> USE CallerFacts
<1>1. TypeOK /\ OwnTypes /\ Me \in Ids
  BY TypesSplit, NodeAssumption
<1> DEFINE Spared(e) == e.id = Me /\ e.origin = "Remote" => e.reason = "Expired"
<1>2. ASSUME NEW e \in AgentEvent, log' = Append(log, e), Spared(e)
      PROVE  ListenerSparesLocal'
  <2>1. /\ Len(log) \in Nat /\ DOMAIN log = 1..Len(log)
        /\ DOMAIN log' = 1..(Len(log) + 1)
        /\ \A i \in 1..Len(log) : log'[i] = log[i]
        /\ log'[Len(log) + 1] = e
    BY <1>1, <1>2 DEF TypeOK
  <2>2. QED
    BY <1>2, <2>1 DEF ListenerSparesLocal
<1>3. CASE log' = log
  BY <1>3 DEF ListenerSparesLocal
<1>4. ASSUME NEW c \in Callers, FinishUpsert(c)
      PROVE  ListenerSparesLocal'
  <2>1. PendingOf(c) /\ call[c] \in UpsertCall
    BY <1>1, <1>4 DEF Pending, TypeOK, FinishUpsert, Calls, Idle, EvictCall
  <2>2. CASE log' # log
    <3>1. \E e \in AgentEvent : Announces(e)
      BY <1>1, <1>4, <2>2, UpsertIsQuietOrAnnounces DEF Quiet
    <3> DEFINE e(b) == [id |-> call[c].id, before |-> b, after |-> call[c].card,
                        origin |-> call[c].origin, reason |-> "NotLeft"]
    <3>2. PICK b : log' = Append(log, e(b))
      BY <1>4, <2>2 DEF FinishUpsert, Joined, Updated
    <3>3. \A x, y : Append(log, x) = Append(log, y) => x = y
      BY <1>1 DEF TypeOK
    <3>4. e(b) \in AgentEvent
      BY <3>1, <3>2, <3>3 DEF Announces
    <3>5. Spared(e(b))
      BY <1>4, <2>1 DEF PendingOf, FinishUpsert
    <3>6. QED
      BY <1>2, <3>2, <3>4, <3>5
  <2>3. QED
    BY <1>3, <2>2
<1>5. ASSUME NEW id \in Ids, NEW origin \in Origins,
             NEW reason \in {"Graceful", "Expired"},
             TakeOut(id, origin, reason),
             id = Me /\ origin = "Remote" => reason = "Expired"
      PROVE  ListenerSparesLocal'
  <2> DEFINE e == Left(id, inner[id].card, origin, reason)
  <2>1. inner[id] \in AgentInfo
    BY <1>1, <1>5 DEF TakeOut, TypeOK
  <2>2. log' = Append(log, e)
    BY <1>5 DEF TakeOut
  <2>3. e \in AgentEvent /\ Spared(e)
    BY <1>5, <2>1 DEF Left, AgentEvent, AgentInfo, Reasons
  <2> HIDE DEF e
  <2>4. QED
    BY <1>2, <2>2, <2>3
<1>6. ASSUME NEW instance \in Instances, Removed(instance)
      PROVE  ListenerSparesLocal'
  <2>1. PICK id \in Ids : /\ inner[id] # None
                         /\ InstanceOf[inner[id].card] # InstanceOf[local_agent]
                         /\ TakeOut(id, "Remote", "Graceful")
    BY <1>6 DEF Removed, RemoveByInstanceName, Present
  <2>2. id # Me
    <3>1. SUFFICES ASSUME id = Me PROVE FALSE
      OBVIOUS
    <3>2. inner[Me].card \in Cards /\ IsOwn(inner[Me].card)
      BY <1>1, <2>1, <3>1 DEF TypeOK, AgentInfo, Entries
    <3>3. local_agent \in Cards /\ IsOwn(local_agent)
      BY <1>1 DEF OwnTypes, Entries
    <3>4. QED
      BY <2>1, <3>1, <3>2, <3>3, OneNameAssumption DEF IsOwn
  <2>3. QED
    BY <1>5, <2>1, <2>2 DEF Origins
<1>7. CASE \E id \in Ids : EvictOne(Sweeper, id)
  BY <1>5, <1>7 DEF EvictOne, Origins
<1>8. CASE RemoveLocal
  BY <1>1, <1>3, <1>5, <1>8 DEF RemoveLocal, Remove, Origins, vars
<1>9. QED
  BY <1>3, <1>4, <1>6, <1>7, <1>8
     DEF NodeNext, Startup, StartAnnounce, StartListener, ListenerFails,
         InsertLocal, BeginUpsert, SpawnTasks, HeartbeatStep, StopTask,
         BeatTick, BeatAnnounce, BeatUpserted, AbortTakesEffect, SweeperStep,
         SweepTick, BeginEvict, SweepEvicts, CollectStale, SweepReturns,
         FinishEvict, ListenerStep, SearchStops, Resolved, Accept,
         ResolvedUpserted, AppStep, Mutate, SignAndClone, UpdateAnnounce,
         UpdateAnnounceFails, UpdateReturns, CancelUpdate, Shutdown,
         ShutdownStep, Unregister, Join, StopDaemon, CancelShutdown,
         DropHandle, Clock, Tick, allVars, vars, DaemonExits, ShutDownDaemon

ObserverFeedIsRemote ==
    ~Advertise => \A i \in DOMAIN log : log[i].origin = "Remote"

\* Chosen at start-up, never changed (config.rs:180-207).
LEMMA ConfigurationStays == [NodeNext]_allVars => Advertise' = Advertise
BY DEF NodeNext, Startup, StartAnnounce, StartListener, ListenerFails,
       InsertLocal, SpawnTasks, HeartbeatStep, StopTask, BeatTick,
       BeatAnnounce, BeatUpserted, AbortTakesEffect, SweeperStep, SweepTick,
       SweepEvicts, SweepReturns, ListenerStep, SearchStops, Resolved, Accept,
       ResolvedUpserted, Removed, AppStep, Mutate, SignAndClone,
       UpdateAnnounce, UpdateAnnounceFails, UpdateReturns, CancelUpdate,
       Shutdown, ShutdownStep, Unregister, RemoveLocal, Join, StopDaemon,
       CancelShutdown, DropHandle, Clock, allVars, nodeVars, others, Advertise,
       DaemonExits, ShutDownDaemon, daemonVars, Registered

\* New events of an observer: an accepted peer, a goodbye or an expiry.
LEMMA NodeStepObserverFeed ==
    ASSUME NodeTypes, LockHolderIsAlive, Pending, Lifecycle,
           ObserverFeedIsRemote, [NodeNext]_allVars
    PROVE  ObserverFeedIsRemote'
<1> USE CallerFacts
<1>1. TypeOK /\ OwnTypes /\ Advertise' = Advertise
  BY TypesSplit, ConfigurationStays
<1> SUFFICES ASSUME ~Advertise
             PROVE  \A i \in DOMAIN log' : log'[i].origin = "Remote"
  BY <1>1 DEF ObserverFeedIsRemote
<1> DEFINE AllRemote == \A i \in DOMAIN log' : log'[i].origin = "Remote"
<1>2. ASSUME NEW e \in AgentEvent, log' = Append(log, e), e.origin = "Remote"
      PROVE  AllRemote
  <2>1. /\ Len(log) \in Nat /\ DOMAIN log = 1..Len(log)
        /\ DOMAIN log' = 1..(Len(log) + 1)
        /\ \A i \in 1..Len(log) : log'[i] = log[i]
        /\ log'[Len(log) + 1] = e
    BY <1>1, <1>2 DEF TypeOK
  <2>2. QED
    BY <1>2, <2>1 DEF ObserverFeedIsRemote
<1>3. CASE log' = log
  BY <1>3 DEF ObserverFeedIsRemote
<1>4. ASSUME NEW c \in Callers, FinishUpsert(c)
      PROVE  AllRemote
  <2>1. c = Listener /\ call[c].origin = "Remote"
    <3>1. PendingOf(c) /\ call[c].op = "upsert"
      BY <1>4 DEF Pending, FinishUpsert
    <3>2. pc[c] \in {"inserting", "upserting"}
      BY <3>1 DEF PendingOf
    <3>3. /\ c # Main /\ c # Heartbeat /\ c \notin Apps
      BY <3>2 DEF Lifecycle, ObserverIsIdle, NodeTypes, NodeTypeOK, MainPhases,
                 StartingUp
    <3>4. c # Sweeper
      BY <3>2 DEF NodeTypes, NodeTypeOK
    <3>5. QED
      BY <3>1, <3>3, <3>4 DEF PendingOf
  <2>2. CASE log' # log
    <3>1. \E e \in AgentEvent : Announces(e)
      BY <1>1, <1>4, <2>2, UpsertIsQuietOrAnnounces DEF Quiet
    <3> DEFINE e(b) == [id |-> call[c].id, before |-> b, after |-> call[c].card,
                        origin |-> call[c].origin, reason |-> "NotLeft"]
    <3>2. PICK b : log' = Append(log, e(b))
      BY <1>4, <2>2 DEF FinishUpsert, Joined, Updated
    <3>3. \A x, y : Append(log, x) = Append(log, y) => x = y
      BY <1>1 DEF TypeOK
    <3>4. e(b) \in AgentEvent
      BY <3>1, <3>2, <3>3 DEF Announces
    <3>5. e(b).origin = "Remote"
      BY <2>1
    <3> HIDE DEF e
    <3>6. QED
      BY <1>2, <3>2, <3>4, <3>5
  <2>3. QED
    BY <1>3, <2>2
<1>5. ASSUME NEW id \in Ids, NEW reason \in {"Graceful", "Expired"},
             TakeOut(id, "Remote", reason)
      PROVE  AllRemote
  <2> DEFINE e == Left(id, inner[id].card, "Remote", reason)
  <2>1. inner[id] \in AgentInfo
    BY <1>1, <1>5 DEF TakeOut, TypeOK
  <2>2. log' = Append(log, e)
    BY <1>5 DEF TakeOut
  <2>3. e \in AgentEvent /\ e.origin = "Remote"
    BY <1>5, <2>1 DEF Left, AgentEvent, AgentInfo, Reasons, Origins
  <2> HIDE DEF e
  <2>4. QED
    BY <1>2, <2>2, <2>3
<1>6. ASSUME NEW instance \in Instances, Removed(instance)
      PROVE  AllRemote
  BY <1>5, <1>6 DEF Removed, RemoveByInstanceName, Present
<1>7. CASE \E id \in Ids : EvictOne(Sweeper, id)
  BY <1>5, <1>7 DEF EvictOne
<1>8. ~RemoveLocal
  BY DEF RemoveLocal, Lifecycle, ObserverIsIdle
<1>9. QED
  BY <1>3, <1>4, <1>6, <1>7, <1>8
     DEF NodeNext, Startup, StartAnnounce, StartListener, ListenerFails,
         InsertLocal, BeginUpsert, SpawnTasks, HeartbeatStep, StopTask,
         BeatTick, BeatAnnounce, BeatUpserted, AbortTakesEffect, SweeperStep,
         SweepTick, BeginEvict, SweepEvicts, CollectStale, SweepReturns,
         FinishEvict, ListenerStep, SearchStops, Resolved, Accept,
         ResolvedUpserted, AppStep, Mutate, SignAndClone, UpdateAnnounce,
         UpdateAnnounceFails, UpdateReturns, CancelUpdate, Shutdown,
         ShutdownStep, Unregister, Join, StopDaemon, CancelShutdown,
         DropHandle, Clock, Tick, allVars, vars, DaemonExits, ShutDownDaemon

(***************************************************************************)
(* The schedule.  Only the heartbeat's own steps and its spawning move its *)
(* deadlines; time moves only as far as Clock lets it.                     *)
(***************************************************************************)
BeatStep == SpawnTasks \/ BeatTick \/ BeatAnnounce \/ BeatUpserted

BeatAsBefore ==
    /\ pc'[Heartbeat] = pc[Heartbeat] /\ call'[Heartbeat] = call[Heartbeat]
    /\ next_beat' = next_beat /\ beat_due' = beat_due

\* A running heartbeat is moved by its own steps and its spawning alone.
LEMMA OnlyBeatsMoveDeadlines ==
    ASSUME NodeTypes, [NodeNext]_allVars
    PROVE  BeatStep \/ Ended(Heartbeat)' \/ BeatAsBefore
<1> USE CallerFacts
<1>1. OwnTypes /\ TypeOK
  BY TypesSplit
<1>2. QED
  BY <1>1
     DEF BeatStep, BeatAsBefore, Ended, OwnTypes, TypeOK, NodeNext, Startup,
         StartAnnounce, StartListener, ListenerFails, InsertLocal, SpawnTasks,
         HeartbeatStep, StopTask, BeatTick, BeatAnnounce, BeatUpserted,
         AbortTakesEffect, SweeperStep, SweepTick, SweepEvicts, SweepReturns,
         ListenerStep, ResolvedUpserted, SearchStops, Resolved, Accept,
         Removed, AppStep, Mutate, SignAndClone, UpdateAnnounce,
         UpdateAnnounceFails, UpdateReturns, CancelUpdate, Shutdown,
         ShutdownStep, Unregister, RemoveLocal, Join, StopDaemon,
         CancelShutdown, DropHandle, Clock, allVars, nodeVars, others, Goto,
         BeginUpsert, FinishUpsert, BeginEvict, CollectStale, EvictOne,
         FinishEvict, TakeOut, Remove, RemoveByInstanceName, Tick, vars,
         DaemonExits, ShutDownDaemon, daemonVars, Registered

\* Time passes in Clock alone.
LEMMA OnlyClockMovesTime ==
    ASSUME [NodeNext]_allVars
    PROVE  now' = now \/ Clock
BY DEF NodeNext, Startup, StartAnnounce, StartListener, ListenerFails,
       InsertLocal, SpawnTasks, HeartbeatStep, StopTask, BeatTick,
       BeatAnnounce, BeatUpserted, AbortTakesEffect, SweeperStep, SweepTick,
       SweepEvicts, SweepReturns, ListenerStep, ResolvedUpserted, SearchStops,
       Resolved, Accept, Removed, AppStep, Mutate, SignAndClone,
       UpdateAnnounce, UpdateAnnounceFails, UpdateReturns, CancelUpdate,
       Shutdown, ShutdownStep, Unregister, RemoveLocal, Join, StopDaemon,
       CancelShutdown, DropHandle, Clock, allVars, nodeVars, others, Goto,
       BeginUpsert, FinishUpsert, BeginEvict, CollectStale, EvictOne,
       FinishEvict, TakeOut, Remove, RemoveByInstanceName, Tick, vars,
       DaemonExits, ShutDownDaemon, daemonVars, Registered

\* A begun upsert is at most MaxLate old.
LEMMA NodeStepUpsertsOnTime ==
    ASSUME NodeTypes, UpsertsOnTime, [NodeNext]_allVars
    PROVE  UpsertsOnTime'
<1> USE CallerFacts
<1>1. OwnTypes /\ TypeOK /\ MaxLate \in Nat
  BY TypesSplit, TimingAssumption
<1> SUFFICES ASSUME NEW c \in Callers, call'[c].op = "upsert"
             PROVE  now' <= call'[c].at + MaxLate
  BY DEF UpsertsOnTime
<1>2. call'[c] = call[c] \/ (call'[c].at = now /\ now' = now)
  BY <1>1
     DEF OwnTypes, TypeOK, Idle, NodeNext, Startup, StartAnnounce,
         StartListener, ListenerFails, InsertLocal, SpawnTasks, HeartbeatStep,
         StopTask, BeatTick, BeatAnnounce, BeatUpserted, AbortTakesEffect,
         SweeperStep, SweepTick, SweepEvicts, SweepReturns, ListenerStep,
         ResolvedUpserted, SearchStops, Resolved, Accept, Removed, AppStep,
         Mutate, SignAndClone, UpdateAnnounce, UpdateAnnounceFails,
         UpdateReturns, CancelUpdate, Shutdown, ShutdownStep, Unregister,
         RemoveLocal, Join, StopDaemon, CancelShutdown, DropHandle, Clock,
         allVars, nodeVars, others, Goto, BeginUpsert, FinishUpsert,
         BeginEvict, CollectStale, EvictOne, FinishEvict, TakeOut, Remove,
         RemoveByInstanceName, Tick, vars, DaemonExits, ShutDownDaemon,
         daemonVars, Registered
<1>3. CASE call'[c] = call[c]
  <2>1. call[c].at \in Nat /\ now \in Nat /\ now <= call[c].at + MaxLate
    BY <1>1, <1>3 DEF TypeOK, Calls, Idle, UpsertCall, EvictCall, UpsertsOnTime
  <2>2. now' = now \/ (now' = now + 1 /\ now < call[c].at + MaxLate)
    BY <1>3, OnlyClockMovesTime DEF Clock, Tick
  <2>3. QED
    BY <1>1, <1>3, <2>1, <2>2
<1>4. CASE call'[c].at = now /\ now' = now
  BY <1>1, <1>4 DEF TypeOK
<1>5. QED
  BY <1>2, <1>3, <1>4

\* The beat that is due is at most MaxLate overdue and Hb ahead (mesh.rs:545).
LEMMA NodeStepBeatsOnTime ==
    ASSUME NodeTypes, Lifecycle, Pending, BeatsOnTime, [NodeNext]_allVars
    PROVE  BeatsOnTime'
<1> USE CallerFacts, TimingAssumption
<1>1. /\ OwnTypes /\ TypeOK
      /\ now \in Nat /\ beat_due \in Nat /\ next_beat \in Nat
      /\ beat_due <= MaxTime
  BY TypesSplit, BoundsAssumption DEF OwnTypes
<1>2. pc[Heartbeat] \notin {"inserting", "upserting"}
         => call[Heartbeat].op # "upsert"
  BY DEF Pending, PendingOf
<1>3. CASE SpawnTasks
  <2>1. /\ pc'[Heartbeat] = "waiting" /\ now' = now
        /\ next_beat' = now /\ beat_due' = now
        /\ call'[Heartbeat] = call[Heartbeat] /\ pc[Heartbeat] = "off"
    BY <1>1, <1>3
       DEF SpawnTasks, FinishUpsert, OwnTypes, TypeOK, Lifecycle,
           NothingSpawned, BeforeUp, StartingUp
  <2>2. QED
    BY <1>1, <1>2, <2>1 DEF BeatsOnTime
<1>4. CASE BeatTick
  <2>1. /\ pc[Heartbeat] = "waiting" /\ pc'[Heartbeat] = "cloned"
        /\ next_beat <= now /\ next_beat' = After(Hb)
        /\ UNCHANGED <<now, beat_due, call>>
    BY <1>1, <1>4 DEF BeatTick, Goto, OwnTypes, vars
  <2>2. /\ next_beat = beat_due
        /\ now <= beat_due + MaxLate /\ beat_due <= now + Hb
    BY <2>1 DEF BeatsOnTime, Ended
  <2>3. beat_due <= After(Hb) /\ After(Hb) <= now + Hb
    BY <1>1, <2>1, <2>2, BoundsAssumption DEF After
  <2>4. QED
    BY <1>1, <1>2, <2>1, <2>2, <2>3 DEF BeatsOnTime
<1>5. CASE BeatAnnounce
  <2>1. /\ pc[Heartbeat] = "cloned" /\ pc'[Heartbeat] = "upserting"
        /\ call'[Heartbeat].at = now
        /\ UNCHANGED <<now, beat_due, next_beat>>
    BY <1>1, <1>5 DEF BeatAnnounce, BeginUpsert, Goto, OwnTypes, TypeOK,
                      others, Registered
  <2>2. QED
    BY <1>1, <2>1 DEF BeatsOnTime, Ended
<1>6. CASE BeatUpserted
  <2>1. /\ pc[Heartbeat] = "upserting" /\ pc'[Heartbeat] = "waiting"
        /\ call'[Heartbeat] = Idle /\ beat_due' = next_beat
        /\ UNCHANGED <<now, next_beat>>
    BY <1>1, <1>6 DEF BeatUpserted, FinishUpsert, Goto, OwnTypes, TypeOK
  <2>2. QED
    BY <1>1, <2>1 DEF BeatsOnTime, Ended, Idle
<1>7. CASE Ended(Heartbeat)'
  BY <1>7 DEF BeatsOnTime
<1>8. CASE BeatAsBefore /\ ~Ended(Heartbeat)'
  <2>1. ~Ended(Heartbeat)
    BY <1>8 DEF BeatAsBefore, Ended
  <2>2. now' = now \/ (now' = now + 1 /\ now < beat_due + MaxLate)
    BY <2>1, OnlyClockMovesTime DEF Clock, Tick, Ended
  <2>3. QED
    BY <1>1, <1>8, <2>1, <2>2 DEF BeatsOnTime, BeatAsBefore
<1>9. QED
  BY <1>3, <1>4, <1>5, <1>6, <1>7, <1>8, OnlyBeatsMoveDeadlines DEF BeatStep

\* The local entry is at most one period and MaxLate older than the due beat.
LEMMA NodeStepEntryOnTime ==
    ASSUME NodeTypes, Lifecycle, Pending, OnTime, [NodeNext]_allVars
    PROVE  EntryOnTime'
<1> USE CallerFacts, TimingAssumption
<1>1. /\ OwnTypes /\ TypeOK /\ Me \in Ids
      /\ now \in Nat /\ beat_due \in Nat /\ next_beat \in Nat
  BY TypesSplit, BoundsAssumption, NodeAssumption DEF OwnTypes
<1>2. ASSUME NEW c \in Callers, c # Listener, FinishUpsert(c)
      PROVE  /\ inner'[Me].last_seen = call[c].at
             /\ call[c].at \in Nat /\ now <= call[c].at + MaxLate
             /\ call[c].op = "upsert"
  <2>1. call[c] \in UpsertCall /\ call[c].id = Me
    BY <1>1, <1>2
       DEF TypeOK, FinishUpsert, Calls, Idle, EvictCall, Pending, PendingOf
  <2>2. inner'[Me] = [card |-> call[c].card, last_seen |-> call[c].at]
    BY <1>1, <1>2, <2>1 DEF FinishUpsert, Store, TypeOK
  <2>3. QED
    BY <1>2, <2>1, <2>2 DEF FinishUpsert, UpsertCall, OnTime, UpsertsOnTime
<1>3. CASE SpawnTasks
  BY <1>1, <1>2, <1>3 DEF SpawnTasks, EntryOnTime
<1>4. CASE BeatTick \/ BeatAnnounce
  BY <1>4
     DEF BeatTick, BeatAnnounce, BeginUpsert, vars, others, Ended, OnTime,
         EntryOnTime
<1>5. CASE BeatUpserted
  <2>1. next_beat <= call[Heartbeat].at + Hb /\ beat_due' = next_beat
    BY <1>2, <1>5 DEF BeatUpserted, OnTime, BeatsOnTime, Ended
  <2>2. QED
    BY <1>1, <1>2, <1>5, <2>1 DEF BeatUpserted, EntryOnTime
<1>6. CASE Ended(Heartbeat)'
  BY <1>6 DEF EntryOnTime
<1>7. CASE BeatAsBefore /\ ~Ended(Heartbeat)' /\ ~BeatStep
  <2>1. ~Ended(Heartbeat) /\ beat_due' = beat_due /\ beat_due <= now + Hb
    BY <1>7 DEF BeatAsBefore, Ended, OnTime, BeatsOnTime
  <2>2. CASE inner'[Me] = inner[Me] \/ inner'[Me] = None
    BY <2>1, <2>2 DEF OnTime, EntryOnTime
  <2>3. CASE inner'[Me] # inner[Me] /\ inner'[Me] # None
    <3>1. PICK a \in Apps : FinishUpsert(a)
      BY <1>7, <2>3, LocalEntryChange
         DEF LocalUpserted, BeatStep, UpdateReturns
    <3>2. QED
      BY <1>1, <1>2, <2>1, <3>1 DEF EntryOnTime
  <2>4. QED
    BY <2>2, <2>3
<1>8. QED
  BY <1>3, <1>4, <1>5, <1>6, <1>7, OnlyBeatsMoveDeadlines DEF BeatStep

-----------------------------------------------------------------------------
(* The theorems. *)

(***************************************************************************)
(* Every reachable state of a node satisfies the inductive invariant.      *)
(***************************************************************************)
THEOREM NodeInductiveInvariant == NodeSpec => []NodeIInv
<1>1. NodeIInv /\ [NodeNext]_allVars => NodeIInv'
  <2> SUFFICES ASSUME NodeIInv, [NodeNext]_allVars PROVE NodeIInv'
    OBVIOUS
  <2>1. IInv'
    BY NodeStepIsOperation, OperationIInv DEF NodeIInv
  <2>2. NodeTypes' /\ LockHolderIsAlive' /\ Lifecycle'
    BY NodeStepTypes, NodeStepLock, NodeStepLifecycle DEF NodeIInv
  <2>3. Pending' /\ Entries' /\ Visibility' /\ ListenerSparesLocal'
    BY NodeStepPending, NodeStepEntries, NodeStepVisibility, NodeStepSpares
       DEF NodeIInv
  <2>4. OnTime'
    BY NodeStepUpsertsOnTime, NodeStepBeatsOnTime, NodeStepEntryOnTime
       DEF NodeIInv, OnTime
  <2>5. QED
    BY <2>1, <2>2, <2>3, <2>4 DEF NodeIInv
<1>2. QED
  BY <1>1, NodeInitIInv, PTL DEF NodeSpec

\* The types of a node's variables and the phases of its tasks (mesh.rs:28-41).
THEOREM NodeTypeCorrect == NodeSpec => []NodeTypeOK
<1>1. NodeIInv => NodeTypeOK
  BY DEF NodeIInv, NodeTypes
<1>2. QED
  BY <1>1, NodeInductiveInvariant, PTL

\* An observer is neither announced nor in its own registry (mesh.rs:114,129).
THEOREM ObserverAlwaysInvisible == NodeSpec => []ObserverIsInvisible
<1>1. NodeIInv => ObserverIsInvisible
  BY DEF NodeIInv, Visibility, ObserverIsInvisible
<1>2. QED
  BY <1>1, NodeInductiveInvariant, PTL

\* The network never touches the local agent's entry (listener.rs:90,108).
THEOREM ListenerAlwaysSparesLocal == NodeSpec => []ListenerSparesLocal
<1>1. NodeIInv => ListenerSparesLocal
  BY DEF NodeIInv
<1>2. QED
  BY <1>1, NodeInductiveInvariant, PTL

\* A verifying node knows verified peers only (listener.rs:92).
THEOREM PeersAlwaysVerified == NodeSpec => []PeersAreVerified
<1>1. NodeIInv => PeersAreVerified
  BY DEF NodeIInv, Entries, Accepted, PeersAreVerified, Present, Peers
<1>2. QED
  BY <1>1, NodeInductiveInvariant, PTL


(***************************************************************************)
(* While the node is up, an own entry that a sweep finds stale is one that *)
(* the heartbeat, at most MaxLate late, should have refreshed within Hb of *)
(* an instant that itself was at most MaxLate old (config.rs:357).         *)
(***************************************************************************)
LEMMA UpEntryIsFresh ==
    ASSUME NodeIInv, pc[Main] = "up", inner[Me] # None
    PROVE  now - inner[Me].last_seen <= Hb + 2 * MaxLate
<1>1. ~Ended(Heartbeat)
  BY DEF NodeIInv, Visibility, Lifecycle, NotSignalled
<1>2. /\ now <= beat_due + MaxLate
      /\ beat_due <= inner[Me].last_seen + Hb + MaxLate
  BY <1>1 DEF NodeIInv, OnTime, BeatsOnTime, EntryOnTime
<1>3. now \in Nat /\ beat_due \in Nat /\ inner[Me].last_seen \in Nat
  BY NodeAssumption, BoundsAssumption, TypesSplit
     DEF NodeIInv, OwnTypes, TypeOK, AgentInfo
<1>4. QED
  BY <1>2, <1>3, TimingAssumption

(***************************************************************************)
(* Under a scheduler that is never later than MaxLate, and a TTL that      *)
(* leaves room for that twice, the local entry does not expire (spec.md).  *)
(***************************************************************************)
THEOREM LocalNeverExpiresOnTime ==
    Hb + 2 * MaxLate <= Ttl => (NodeSpec => LocalNeverExpires)
<1> SUFFICES ASSUME Hb + 2 * MaxLate <= Ttl
             PROVE  NodeSpec => LocalNeverExpires
  OBVIOUS
<1>1. NodeIInv /\ [NodeNext]_allVars
         => [pc[Main] = "up" => ~Expires(Me)]_allVars
  <2> SUFFICES ASSUME NodeIInv, [NodeNext]_allVars,
                      pc[Main] = "up", Expires(Me)
               PROVE  FALSE
    OBVIOUS
  <2>1. now - inner[Me].last_seen > Ttl
    BY NodeStepIsOperation, ExpiresLate, NodeAssumption DEF NodeIInv
  <2>2. now - inner[Me].last_seen <= Hb + 2 * MaxLate
    BY UpEntryIsFresh DEF Expires
  <2>3. now - inner[Me].last_seen \in Int
    BY NodeAssumption, BoundsAssumption, TypesSplit
       DEF NodeIInv, OwnTypes, TypeOK, AgentInfo, Expires
  <2>4. QED
    BY <2>1, <2>2, <2>3, TimingAssumption, TtlAssumption
<1>2. QED
  BY <1>1, NodeInductiveInvariant, PTL DEF NodeSpec, LocalNeverExpires

(***************************************************************************)
(* A shutdown that returned has joined every task and nothing sweeps, so   *)
(* what is still to come are steps of applications and the daemon's end.   *)
(***************************************************************************)
LEMMA ReturnedIsQuiet ==
    ASSUME NodeIInv, [NodeNext]_allVars, pc[Main] = "returned"
    PROVE  /\ \A id \in Peers : inner'[id] = inner[id]
           /\ (\A a \in Apps : pc'[a] = pc[a]) =>
                 UNCHANGED <<inner, log>> /\ published' \in {published, None}
<1> USE CallerFacts
<1>1. /\ Ended(Heartbeat) /\ Ended(Sweeper) /\ Ended(Listener)
      /\ OwnTypes /\ TypeOK /\ Pending
  BY TypesSplit DEF NodeIInv, Lifecycle, JoinedHaveEnded
<1>2. \A c \in Callers : pc[c] = "evicting" => c = Sweeper
  BY <1>1 DEF OwnTypes, MainPhases, StartingUp, AppPhases
<1>3. writer = None
  BY <1>1, <1>2 DEF NodeIInv, LockHolderIsAlive, Ended, TypeOK
<1>4. CASE \E a \in Apps : \/ \E content \in OwnContents : Mutate(a, content)
                         \/ AppStep(a) \/ CancelUpdate(a)
  <2>1. PICK a \in Apps : \/ \E content \in OwnContents : Mutate(a, content)
                          \/ AppStep(a) \/ CancelUpdate(a)
    BY <1>4
  <2>2. CASE UpdateReturns(a)
    <3>1. call[a].op = "upsert" => call[a].id = Me
      BY <1>1 DEF Pending, PendingOf
    <3>2. \A id \in Peers : inner'[id] = inner[id]
      BY <1>1, <2>2, <3>1
         DEF UpdateReturns, FinishUpsert, Store, TypeOK, Peers
    <3>3. pc'[a] # pc[a]
      BY <1>1, <2>2 DEF UpdateReturns, Goto, OwnTypes
    <3>4. QED
      BY <3>2, <3>3
  <2>3. CASE ~UpdateReturns(a)
    <3>1. UNCHANGED <<inner, log>>
      BY <2>1, <2>3
         DEF AppStep, Mutate, SignAndClone, UpdateAnnounce, BeginUpsert,
             UpdateAnnounceFails, CancelUpdate, vars
    <3>2. UpdateAnnounce(a) => pc'[a] # pc[a]
      BY <1>1 DEF UpdateAnnounce, Goto, OwnTypes
    <3>3. published' = published \/ UpdateAnnounce(a)
      BY <2>1, <2>3
         DEF AppStep, Mutate, SignAndClone, UpdateAnnounceFails, CancelUpdate
    <3>4. QED
      BY <3>1, <3>2, <3>3
  <2>4. QED
    BY <2>2, <2>3
<1>5. CASE ~(\E a \in Apps : \/ \E content \in OwnContents : Mutate(a, content)
                           \/ AppStep(a) \/ CancelUpdate(a))
  <2>1. UNCHANGED <<inner, log>> /\ published' \in {published, None}
    BY <1>1, <1>3, <1>5, CardsAssumption
       DEF Ended, StartingUp, NodeNext, Startup, StartAnnounce, StartListener,
           ListenerFails, InsertLocal, SpawnTasks, DaemonExits, HeartbeatStep,
           StopTask, BeatTick, BeatAnnounce, BeatUpserted, AbortTakesEffect,
           SweeperStep, SweepTick, SweepEvicts, SweepReturns, ListenerStep,
           ResolvedUpserted, SearchStops, Resolved, Accept, Removed, Shutdown,
           ShutdownStep, Unregister, RemoveLocal, Join, StopDaemon,
           CancelShutdown, DropHandle, Clock, allVars, nodeVars, others, Goto,
           BeginUpsert, BeginEvict, Tick, vars
  <2>2. QED
    BY <2>1 DEF Peers
<1>6. QED
  BY <1>4, <1>5

\* After shutdown() only applications and the daemon act (mesh.rs:430-442).
THEOREM AlwaysQuietAfterShutdown == NodeSpec => QuietAfterShutdown
<1>1. NodeIInv /\ [NodeNext]_allVars
         => [pc[Main] = "returned" =>
               /\ \A id \in Peers : inner'[id] = inner[id]
               /\ (\A a \in Apps : pc'[a] = pc[a]) =>
                     UNCHANGED <<inner, log>> /\ published' \in {published, None}
            ]_allVars
  BY ReturnedIsQuiet
<1>2. QED
  BY <1>1, NodeInductiveInvariant, PTL DEF NodeSpec, QuietAfterShutdown

(***************************************************************************)
(* The node's registry is still the directory of Presence.tla and its feed *)
(* replays to its map, aborted tasks and cancelled updates included.       *)
(***************************************************************************)
THEOREM NodeImplementsPresence ==
    NodeSpec => ImplementsPresence /\ []FeedIsChained /\ []FeedMatchesMap
<1>1. NodeInit => Directory!Init
  BY DEF NodeInit, Init, Directory!Init, CardOf
<1>2. NodeIInv /\ [NodeNext]_allVars => [Directory!Next]_(Directory!pvars)
  BY NodeStepIsOperation, OperationImplementsPresence
     DEF NodeIInv, NodeTypes, NodeTypeOK
<1>3. NodeIInv => FeedIsChained /\ FeedMatchesMap
  BY DEF NodeIInv, IInv
<1>4. QED
  BY <1>1, <1>2, <1>3, NodeInductiveInvariant, PTL
     DEF NodeSpec, ImplementsPresence, Directory!Spec

(***************************************************************************)
(* A discovery-only node does to the directory what EventStream lets an    *)
(* observer's network do, and nothing else: camp watch and camp serve are  *)
(* modelled over the feed that such a node produces (camp.rs:701-728).     *)
(***************************************************************************)
RemoteChange ==
    \E id \in Ids :
        \/ \E card \in Cards : Directory!Publish(id, card, "Remote")
        \/ Directory!Leave(id, "Remote")
        \/ Directory!Expire(id)

THEOREM ObserversChangeRemotely ==
    NodeSpec => [][~Advertise => RemoteChange]_(Directory!pvars)
<1>1. NodeSpec => []ObserverFeedIsRemote
  <2>1. NodeInit => ObserverFeedIsRemote
    BY DEF NodeInit, Init, ObserverFeedIsRemote
  <2>2. NodeIInv /\ ObserverFeedIsRemote /\ [NodeNext]_allVars
           => ObserverFeedIsRemote'
    BY NodeStepObserverFeed DEF NodeIInv
  <2>3. QED
    BY <2>1, <2>2, NodeInductiveInvariant, PTL DEF NodeSpec
<1>2. ASSUME NodeIInv, ObserverFeedIsRemote, ObserverFeedIsRemote',
             [NodeNext]_allVars, ~Advertise,
             ~UNCHANGED Directory!pvars
      PROVE  RemoteChange
  <2>1. Directory!Next
    BY <1>2, NodeStepIsOperation, OperationImplementsPresence
       DEF NodeIInv, NodeTypes, NodeTypeOK
  <2>2. Len(log) \in Nat /\ log \in Seq(AgentEvent)
    BY <1>2, TypesSplit DEF NodeIInv, TypeOK
  <2>3. ~Advertise'
    BY <1>2, ConfigurationStays
  <2>4. ASSUME NEW e, log' = Append(log, e)
        PROVE  e.origin = "Remote"
    BY <1>2, <2>2, <2>3, <2>4 DEF ObserverFeedIsRemote
  <2>5. ASSUME NEW id \in Ids, NEW card, NEW origin, NEW reason,
               Directory!Change(id, card, origin, reason)
        PROVE  origin = "Remote"
    BY <2>4, <2>5 DEF Directory!Change
  <2>6. PICK id \in Ids :
           \/ \E card \in Cards, origin \in {"Local", "Remote"} :
                 Directory!Publish(id, card, origin)
           \/ \E origin \in {"Local", "Remote"} : Directory!Leave(id, origin)
           \/ Directory!Expire(id)
    BY <2>1 DEF Directory!Next
  <2>7. QED
    BY <2>5, <2>6 DEF RemoteChange, Directory!Publish, Directory!Leave
<1>3. NodeIInv /\ ObserverFeedIsRemote /\ ObserverFeedIsRemote'
      /\ [NodeNext]_allVars
         => [~Advertise => RemoteChange]_(Directory!pvars)
  BY <1>2
<1>4. QED
  BY <1>1, <1>3, NodeInductiveInvariant, PTL DEF NodeSpec
=============================================================================
