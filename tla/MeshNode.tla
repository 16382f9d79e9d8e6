------------------------------ MODULE MeshNode ------------------------------
(***************************************************************************)
(* One running ZeroConfMesh (src/mesh.rs): the handle's start-up, updates, *)
(* shutdown and drop, and its heartbeat, sweeper and listener tasks        *)
(* (src/listener.rs), all sharing a Registry and the local announcement.   *)
(*                                                                         *)
(* Composition: the node's tasks are the Callers of Registry and its       *)
(* actions conjoin Registry's operations.  A task is cut into steps where  *)
(* another thread can run between two accesses to shared state: the        *)
(* local_agent lock, the daemon, the registry's lock, the stop signal.     *)
(***************************************************************************)
EXTENDS Registry

CONSTANTS
    Me,             \* agent_id of the local node
    Contents,       \* what an announcement says, its signature apart
    OwnContents,    \* ... and what the local agent may say of itself
    Announced,      \* what other agents announce
    Unsigned,       \* "no signature metadata"
    Main, Heartbeat, Sweeper, Listener,  \* the handle's owner and the tasks
    Apps,           \* concurrent users of the handle that call update_*
    Initial,        \* content of the first local announcement
    Configs,        \* the configurations a node may be started with
    Hb,             \* heartbeat_interval, in clock ticks
    MaxLate         \* how long the scheduler may delay a due step

Tasks == {Heartbeat, Sweeper, Listener}

ASSUME NodeAssumption ==
    /\ Me \in Ids /\ Unsigned \notin Contents
    /\ Initial \in OwnContents /\ OwnContents \subseteq Contents
    /\ Cards = [content: Contents, signature: Contents \cup {Unsigned}]
    /\ Callers = Tasks \cup {Main} \cup Apps
    /\ Main \notin Tasks \cup Apps /\ Apps \cap Tasks = {}
    /\ Heartbeat # Sweeper /\ Sweeper # Listener /\ Listener # Heartbeat
    /\ Configs \subseteq [advertise: BOOLEAN, auth: BOOLEAN, verify: BOOLEAN]

\* No update changes the instance name (types.rs: it has no setter).
ASSUME OneNameAssumption ==
    \A c1, c2 \in Cards : {c1.content, c2.content} \subseteq OwnContents
                             => InstanceOf[c1] = InstanceOf[c2]

\* config.validate: the TTL exceeds the heartbeat interval, which tokio's
\* time::interval requires to be positive.
ASSUME TimingAssumption == Hb \in Nat \ {0} /\ MaxLate \in Nat /\ Hb < Ttl

VARIABLES
    config,         \* the ZeroConfMeshConfig of the node
    pc,             \* where the handle's owner, each task and each app is
    local_agent,    \* the announcement behind the local_agent lock
    held,           \* the clone a task or app took of it
    published,      \* what the daemon currently advertises, or None
    daemon,         \* the mdns-sd daemon's thread: "running", "stopping" once
                    \* a shutdown command is in its queue, "gone"
    given_up,       \* history: the daemon refused its shutdown command, or the
                    \* caller dropped shutdown()'s future before it was sent
    stop,           \* value of the shutdown watch channel
    aborted,        \* the tasks' handles were aborted
    next_beat, next_sweep,  \* deadlines of the two tokio intervals
    beat_due        \* when the heartbeat in progress, or awaited, was due

daemonVars == <<daemon, given_up>>
nodeVars == <<config, pc, local_agent, held, published, daemonVars, stop,
              aborted, next_beat, next_sweep, beat_due>>
allVars == <<vars, nodeVars>>
others == <<config, next_beat, next_sweep, beat_due>>

Advertise == config.advertise  \* FALSE for discover_only()
Auth == config.auth            \* a shared secret is configured
Verify == config.verify        \* ... with mode SignAndVerify

-----------------------------------------------------------------------------

\* HMAC with the one shared secret: a signature names the content it signs.
Signed(card) == [card EXCEPT !.signature = card.content]
Refreshed(card) == IF Auth THEN Signed(card) ELSE card
IsVerified(card) == card.signature = card.content

\* A tokio timer re-armed now; at the horizon of the clock it keeps firing.
After(d) == IF now + d > MaxTime THEN MaxTime ELSE now + d

Goto(p, phase) == pc' = [pc EXCEPT ![p] = phase]

Peers == Ids \ {Me}

StartingUp == {"announce", "listen", "insert", "inserting"}
MainPhases == StartingUp \cup
    {"failed", "up", "unregister", "remove", "join_heartbeat", "join_sweeper",
     "join_listener", "stop_daemon", "returned", "cancelled", "dropped"}
AppPhases == {"idle", "mutated", "refreshing", "upserting"}
Phases == MainPhases \cup AppPhases \cup
    {"off", "waiting", "cloned", "evicting", "done"}

HandleUsable == pc[Main] \notin StartingUp \cup {"failed", "dropped"}

NodeInit ==
    /\ Init
    /\ config \in Configs
    /\ local_agent = Refreshed([content |-> Initial, signature |-> Unsigned])
    /\ pc = [p \in Callers |->
               CASE p = Main -> IF Advertise THEN "announce" ELSE "listen"
                 [] p \in Apps -> "idle"
                 [] OTHER -> "off"]
    /\ held = [p \in Apps \cup {Heartbeat} |-> local_agent]
    /\ published = None
    /\ daemon = "running" /\ given_up = FALSE
    /\ stop = FALSE /\ aborted = FALSE
    /\ next_beat = 0 /\ next_sweep = 0 /\ beat_due = 0

-----------------------------------------------------------------------------
(* The daemon: a thread of mdns-sd that takes commands from a queue.  It   *)
(* may refuse one (the queue is full); what is queued behind a shutdown is *)
(* accepted and never carried out; once it is gone it refuses everything.  *)

\* What the daemon advertises after it has accepted to register a card.
Registered(card) == IF daemon = "running" THEN card ELSE published

\* daemon.shutdown(), whose result all its callers discard.
ShutDownDaemon ==
    \/ daemon = "running" /\ daemon' = "stopping" /\ UNCHANGED given_up
    \/ given_up' = TRUE /\ UNCHANGED daemon

\* The thread comes to its shutdown command and ends.
DaemonExits ==
    /\ daemon = "stopping"
    /\ daemon' = "gone" /\ published' = None
    /\ UNCHANGED <<vars, pc, local_agent, held, given_up, stop, aborted,
                   others>>

-----------------------------------------------------------------------------
(* from_config. *)

\* broadcaster.announce(local)? : its failure leaves the daemon running.
StartAnnounce ==
    /\ pc[Main] = "announce"
    /\ \/ published' = local_agent /\ Goto(Main, "listen")
       \/ UNCHANGED published /\ Goto(Main, "failed")
    /\ UNCHANGED <<vars, local_agent, held, daemonVars, stop, aborted, others>>

StartListener ==
    /\ pc[Main] = "listen"
    /\ pc' = IF Advertise
             THEN [pc EXCEPT ![Main] = "insert", ![Listener] = "waiting"]
             ELSE [pc EXCEPT ![Main] = "up", ![Listener] = "waiting",
                             ![Sweeper] = "waiting"]
    /\ next_sweep' = now
    /\ UNCHANGED <<vars, local_agent, held, published, daemonVars, stop,
                   aborted, config, next_beat, beat_due>>

(***************************************************************************)
(* The announced service is withdrawn again, as far as the daemon accepts  *)
(* the two commands (and the caller waits for the first); an observer just *)
(* returns.                                                                *)
(***************************************************************************)
ListenerFails ==
    /\ pc[Main] = "listen"
    /\ IF Advertise THEN published' \in {None, published} /\ ShutDownDaemon
                    ELSE UNCHANGED <<published, daemonVars>>
    /\ Goto(Main, "failed")
    /\ UNCHANGED <<vars, local_agent, held, stop, aborted, others>>

InsertLocal ==
    /\ pc[Main] = "insert"
    /\ BeginUpsert(Main, Me, local_agent, "Local")
    /\ Goto(Main, "inserting")
    /\ UNCHANGED <<local_agent, held, published, daemonVars, stop, aborted,
                   others>>

\* The insert is done: both interval tasks start, their first tick due now.
SpawnTasks ==
    /\ pc[Main] = "inserting"
    /\ FinishUpsert(Main)
    /\ pc' = [pc EXCEPT ![Main] = "up", ![Heartbeat] = "waiting",
                        ![Sweeper] = "waiting"]
    /\ next_beat' = now /\ next_sweep' = now /\ beat_due' = now
    /\ UNCHANGED <<local_agent, held, published, daemonVars, stop, aborted,
                   config>>

Startup == StartAnnounce \/ StartListener \/ ListenerFails \/ InsertLocal
           \/ SpawnTasks

-----------------------------------------------------------------------------
(* The background tasks.  select! picks any ready branch, so a due tick    *)
(* may still be taken after the stop signal.                               *)

\* Fault: the listener loop does not watch the stop signal.
StopTaskNotListener(t) ==
    /\ t # Listener
    /\ pc[t] = "waiting" /\ stop
    /\ Goto(t, "done")
    /\ UNCHANGED <<vars, local_agent, held, published, daemonVars, stop,
                   aborted, others>>

StopTask(t) ==
    /\ pc[t] = "waiting" /\ stop
    /\ Goto(t, "done")
    /\ UNCHANGED <<vars, local_agent, held, published, daemonVars, stop,
                   aborted, others>>

\* Fault: the announcement is moved out of the lock, not cloned.
BeatTakesAnnouncement ==
    /\ pc[Heartbeat] = "waiting" /\ now >= next_beat
    /\ held' = [held EXCEPT ![Heartbeat] = local_agent]
    /\ local_agent' = None
    /\ next_beat' = After(Hb)
    /\ Goto(Heartbeat, "cloned")
    /\ UNCHANGED <<vars, published, daemonVars, stop, aborted, config,
                   next_sweep, beat_due>>

\* Fault: the task announces the clone it was spawned with.
BeatReusesClone ==
    /\ pc[Heartbeat] = "waiting" /\ now >= next_beat
    /\ next_beat' = After(Hb)
    /\ Goto(Heartbeat, "cloned")
    /\ UNCHANGED <<vars, local_agent, held, published, daemonVars, stop,
                   aborted, config, next_sweep, beat_due>>

BeatTick ==
    /\ pc[Heartbeat] = "waiting" /\ now >= next_beat
    /\ held' = [held EXCEPT ![Heartbeat] = local_agent]
    /\ next_beat' = After(Hb)
    /\ Goto(Heartbeat, "cloned")
    /\ UNCHANGED <<vars, local_agent, published, daemonVars, stop, aborted,
                   config, next_sweep, beat_due>>

\* Fault: a failed announce skips the registry refresh.
BeatGivesUp ==
    /\ pc[Heartbeat] = "cloned"
    /\ \/ /\ published' = Registered(held[Heartbeat])
          /\ BeginUpsert(Heartbeat, Me, held[Heartbeat], "Local")
          /\ Goto(Heartbeat, "upserting")
          /\ UNCHANGED beat_due
       \/ /\ Goto(Heartbeat, "waiting")
          /\ beat_due' = next_beat
          /\ UNCHANGED <<vars, published>>
    /\ UNCHANGED <<local_agent, held, daemonVars, stop, aborted, config,
                   next_beat, next_sweep>>

\* announce and, whether or not that failed, upsert_local.
BeatAnnounce ==
    /\ pc[Heartbeat] = "cloned"
    /\ published' \in {Registered(held[Heartbeat]), published}
    /\ BeginUpsert(Heartbeat, Me, held[Heartbeat], "Local")
    /\ Goto(Heartbeat, "upserting")
    /\ UNCHANGED <<local_agent, held, daemonVars, stop, aborted, others>>

BeatUpserted ==
    /\ pc[Heartbeat] = "upserting"
    /\ FinishUpsert(Heartbeat)
    /\ beat_due' = next_beat
    /\ Goto(Heartbeat, "waiting")
    /\ UNCHANGED <<local_agent, held, published, daemonVars, stop, aborted,
                   config, next_beat, next_sweep>>

SweepTick ==
    /\ pc[Sweeper] = "waiting" /\ now >= next_sweep
    /\ BeginEvict(Sweeper)
    /\ next_sweep' = After(Hb)
    /\ Goto(Sweeper, "evicting")
    /\ UNCHANGED <<local_agent, held, published, daemonVars, stop, aborted,
                   config, next_beat, beat_due>>

SweepEvicts ==
    /\ pc[Sweeper] = "evicting"
    /\ CollectStale(Sweeper) \/ \E id \in Ids : EvictOne(Sweeper, id)
    /\ UNCHANGED nodeVars

SweepReturns ==
    /\ pc[Sweeper] = "evicting"
    /\ FinishEvict(Sweeper)
    /\ Goto(Sweeper, "waiting")
    /\ UNCHANGED <<local_agent, held, published, daemonVars, stop, aborted,
                   others>>

\* What the listener does with an announcement it accepts.
Accept(id, card) ==
    /\ pc[Listener] = "waiting" /\ Len(log) < MaxEvents /\ card \in Announced
    /\ BeginUpsert(Listener, id, card, "Remote")
    /\ Goto(Listener, "upserting")
    /\ UNCHANGED <<local_agent, held, published, daemonVars, stop, aborted,
                   others>>

\* Faults: our own announcement is taken for a peer's; nothing is verified.
ResolvedOwn(id, card) == (Auth /\ Verify => IsVerified(card)) /\ Accept(id, card)
ResolvedUnverified(id, card) == id # Me /\ Accept(id, card)

(***************************************************************************)
(* ServiceResolved of another agent; our own is skipped, and an unverified *)
(* one under SignAndVerify.  MaxEvents and Announced bound what arrives.   *)
(***************************************************************************)
Resolved(id, card) ==
    /\ id # Me
    /\ Auth /\ Verify => IsVerified(card)
    /\ Accept(id, card)

ResolvedUpserted ==
    /\ pc[Listener] = "upserting"
    /\ FinishUpsert(Listener)
    /\ Goto(Listener, "waiting")
    /\ UNCHANGED <<local_agent, held, published, daemonVars, stop, aborted,
                   others>>

\* ServiceRemoved of any instance but our own.
Removed(instance) ==
    /\ pc[Listener] = "waiting" /\ Len(log) < MaxEvents
    /\ instance # InstanceOf[local_agent]
    /\ RemoveByInstanceName(instance)
    /\ UNCHANGED nodeVars

\* SearchStopped, or the daemon's channel closed: the loop is not restarted.
SearchStops ==
    /\ pc[Listener] = "waiting"
    /\ Goto(Listener, "done")
    /\ UNCHANGED <<vars, local_agent, held, published, daemonVars, stop,
                   aborted, others>>

\* An aborted task ends at its next await, an upsert or sweep not yet begun:
\* there is no await between taking the registry's lock and giving it back.
AbortTakesEffect(t) ==
    /\ aborted /\ pc[t] \notin {"off", "done", "cloned"} /\ writer # t
    /\ Goto(t, "done")
    /\ call' = [call EXCEPT ![t] = Idle]
    /\ UNCHANGED <<inner, now, writer, stale, log, local_agent, held,
                   published, daemonVars, stop, aborted, others>>

HeartbeatStep == StopTask(Heartbeat) \/ BeatTick \/ BeatAnnounce
                 \/ BeatUpserted \/ AbortTakesEffect(Heartbeat)
SweeperStep == StopTask(Sweeper) \/ SweepTick \/ SweepEvicts
               \/ SweepReturns \/ AbortTakesEffect(Sweeper)
ListenerStep == StopTask(Listener) \/ ResolvedUpserted
                \/ AbortTakesEffect(Listener)

-----------------------------------------------------------------------------
(* update_status and the other updaters: mutate_local_agent releases the   *)
(* local_agent lock before refresh_local_agent takes it again.  A rejected *)
(* value changes nothing and is left out.  MaxEvents bounds the calls.     *)

\* Fault: an observer's update refreshes the registry too.
MutateAlwaysRefreshes(a, content) ==
    /\ pc[a] = "idle" /\ HandleUsable /\ Len(log) < MaxEvents
    /\ local_agent' = [local_agent EXCEPT !.content = content]
    /\ Goto(a, "mutated")
    /\ UNCHANGED <<vars, held, published, daemonVars, stop, aborted, others>>

Mutate(a, content) ==
    /\ pc[a] = "idle" /\ HandleUsable /\ Len(log) < MaxEvents
    /\ local_agent' = [local_agent EXCEPT !.content = content]
    /\ Goto(a, IF Advertise THEN "mutated" ELSE "idle")
    /\ UNCHANGED <<vars, held, published, daemonVars, stop, aborted, others>>

SignAndClone(a) ==
    /\ pc[a] = "mutated"
    /\ local_agent' = Refreshed(local_agent)
    /\ held' = [held EXCEPT ![a] = local_agent']
    /\ Goto(a, "refreshing")
    /\ UNCHANGED <<vars, published, daemonVars, stop, aborted, others>>

\* Nothing asks whether shutdown was requested meanwhile, or before.
UpdateAnnounce(a) ==
    /\ pc[a] = "refreshing" /\ daemon # "gone"
    /\ published' = Registered(held[a])
    /\ BeginUpsert(a, Me, held[a], "Local")
    /\ Goto(a, "upserting")
    /\ UNCHANGED <<local_agent, held, daemonVars, stop, aborted, others>>

\* announce(..)? : the caller gets the error, local_agent stays mutated.
UpdateAnnounceFails(a) ==
    /\ pc[a] = "refreshing"
    /\ Goto(a, "idle")
    /\ UNCHANGED <<vars, local_agent, held, published, daemonVars, stop,
                   aborted, others>>

UpdateReturns(a) ==
    /\ pc[a] = "upserting"
    /\ FinishUpsert(a)
    /\ Goto(a, "idle")
    /\ UNCHANGED <<local_agent, held, published, daemonVars, stop, aborted,
                   others>>

\* The caller drops the update's future while it waits for a lock.
CancelUpdate(a) ==
    /\ pc[a] \in {"mutated", "upserting"}
    /\ Goto(a, "idle")
    /\ call' = [call EXCEPT ![a] = Idle]
    /\ UNCHANGED <<inner, now, writer, stale, log, local_agent, held,
                   published, daemonVars, stop, aborted, others>>

AppStep(a) == SignAndClone(a) \/ UpdateAnnounce(a) \/ UpdateAnnounceFails(a)
              \/ UpdateReturns(a)

-----------------------------------------------------------------------------
(* shutdown and Drop. *)

\* Fault: the stop signal is not sent.
ShutdownUnsignalled ==
    /\ pc[Main] = "up"
    /\ Goto(Main, IF Advertise THEN "unregister" ELSE "join_heartbeat")
    /\ UNCHANGED <<vars, local_agent, held, published, daemonVars, stop,
                   aborted, others>>

\* The first call; every later one returns at once and changes nothing.
Shutdown ==
    /\ pc[Main] = "up"
    /\ stop' = TRUE
    /\ Goto(Main, IF Advertise THEN "unregister" ELSE "join_heartbeat")
    /\ UNCHANGED <<vars, local_agent, held, published, daemonVars, aborted,
                   others>>

\* A failing unregister is logged and ignored.
Unregister ==
    /\ pc[Main] = "unregister"
    /\ \/ published' = None
       \/ UNCHANGED published
    /\ Goto(Main, "remove")
    /\ UNCHANGED <<vars, local_agent, held, daemonVars, stop, aborted, others>>

RemoveLocal ==
    /\ pc[Main] = "remove" /\ writer = None
    /\ IF inner[Me] = None THEN UNCHANGED vars ELSE Remove(Me, "Local")
    /\ Goto(Main, "join_heartbeat")
    /\ UNCHANGED <<local_agent, held, published, daemonVars, stop, aborted,
                   others>>

\* Fault: the task's handle is taken but not awaited.
JoinWithoutWaiting(task, here, next) ==
    /\ pc[Main] = here
    /\ Goto(Main, next)
    /\ UNCHANGED <<vars, local_agent, held, published, daemonVars, stop,
                   aborted, others>>

Join(task, here, next) ==
    /\ pc[Main] = here /\ pc[task] \in {"off", "done"}
    /\ Goto(Main, next)
    /\ UNCHANGED <<vars, local_agent, held, published, daemonVars, stop,
                   aborted, others>>

\* Fault: shutdown() leaves the daemon to the other handles.
DaemonRunsOn ==
    /\ pc[Main] = "stop_daemon"
    /\ Goto(Main, "returned")
    /\ UNCHANGED <<vars, local_agent, held, published, daemonVars, stop,
                   aborted, others>>

StopDaemon ==
    /\ pc[Main] = "stop_daemon"
    /\ ShutDownDaemon
    /\ Goto(Main, "returned")
    /\ UNCHANGED <<vars, local_agent, held, published, stop, aborted, others>>

ShutdownStep ==
    \/ Unregister \/ RemoveLocal
    \/ Join(Heartbeat, "join_heartbeat", "join_sweeper")
    \/ Join(Sweeper, "join_sweeper", "join_listener")
    \/ Join(Listener, "join_listener", "stop_daemon")
    \/ StopDaemon

\* The caller drops shutdown()'s future at one of its awaits.
CancelShutdown ==
    /\ pc[Main] \in {"unregister", "remove", "join_heartbeat",
                     "join_sweeper", "join_listener"}
    /\ Goto(Main, "cancelled")
    /\ given_up' = TRUE
    /\ UNCHANGED <<vars, local_agent, held, published, daemon, stop, aborted,
                   others>>

\* Drop does nothing once shutdown was requested, even if it was cancelled.
DropHandle ==
    /\ pc[Main] \in {"up", "cancelled"}
    /\ \A a \in Apps : pc[a] = "idle"
    /\ IF pc[Main] = "up"
       THEN stop' = TRUE /\ aborted' = TRUE /\ ShutDownDaemon
       ELSE UNCHANGED <<stop, aborted, daemonVars>>
    /\ Goto(Main, "dropped")
    /\ UNCHANGED <<vars, local_agent, held, published, others>>

-----------------------------------------------------------------------------

(***************************************************************************)
(* The clock advances unless a heartbeat, or an upsert waiting for the     *)
(* lock, would become more than MaxLate overdue: MaxLate is how late the   *)
(* scheduler may be, and a large one no constraint at all.                 *)
(***************************************************************************)
Clock ==
    /\ pc[Heartbeat] \notin {"off", "done"} => now < beat_due + MaxLate
    /\ \A c \in Callers : call[c].op = "upsert" => now < call[c].at + MaxLate
    /\ Tick
    /\ UNCHANGED nodeVars

NodeNext ==
    \/ Startup
    \/ DaemonExits
    \/ HeartbeatStep
    \/ SweeperStep
    \/ ListenerStep
    \/ SearchStops
    \/ \E id \in Ids, card \in Cards : Resolved(id, card)
    \/ \E instance \in Instances : Removed(instance)
    \/ \E a \in Apps : \/ \E content \in OwnContents : Mutate(a, content)
                       \/ AppStep(a)
                       \/ CancelUpdate(a)
    \/ Shutdown \/ ShutdownStep \/ CancelShutdown \/ DropHandle
    \/ Clock

NodeSpec == NodeInit /\ [][NodeNext]_allVars

(***************************************************************************)
(* The runtime polls every woken task and grants its locks first in, first *)
(* out, so a waiting heartbeat or update is not starved by sweeps; select! *)
(* chooses at random among ready branches, so no stop signal is ignored    *)
(* for ever (each task stops once, so fairness of some StopTask is enough  *)
(* for every one); the daemon's thread comes to its shutdown command; time *)
(* passes; what the handle's owner began goes on.                          *)
(* Nothing makes the network, the applications or the owner begin anything.*)
(***************************************************************************)
Running ==
    /\ WF_allVars(Startup) /\ WF_allVars(Clock)
    /\ SF_allVars(HeartbeatStep) /\ WF_allVars(SweeperStep)
    /\ WF_allVars(ListenerStep)
    /\ \A a \in Apps : SF_allVars(AppStep(a))

Stopping ==
    /\ WF_allVars(ShutdownStep) /\ WF_allVars(DaemonExits)
    /\ SF_allVars(\E t \in Tasks : StopTask(t))

FairNodeSpec == NodeSpec /\ Running /\ Stopping

-----------------------------------------------------------------------------
(* Properties. *)

NodeTypeOK ==
    /\ TypeOK
    /\ config \in Configs
    /\ local_agent \in Cards
    /\ held \in [Apps \cup {Heartbeat} -> Cards]
    /\ published \in Cards \cup {None}
    /\ daemon \in {"running", "stopping", "gone"} /\ given_up \in BOOLEAN
    /\ stop \in BOOLEAN /\ aborted \in BOOLEAN
    /\ next_beat \in 0..MaxTime /\ next_sweep \in 0..MaxTime
    /\ beat_due \in 0..MaxTime
    /\ pc \in [Callers -> Phases]
    /\ pc[Main] \in MainPhases /\ \A a \in Apps : pc[a] \in AppPhases
    /\ pc[Heartbeat] \in {"off", "waiting", "cloned", "upserting", "done"}
    /\ pc[Sweeper] \in {"off", "waiting", "evicting", "done"}
    /\ pc[Listener] \in {"off", "waiting", "upserting", "done"}

(***************************************************************************)
(* The local agent's entry is only ever touched by the node itself: the    *)
(* network cannot announce, change or withdraw it (listener.rs:90,108),    *)
(* so a remote-origin event about it can only be an expiry.                *)
(***************************************************************************)
ListenerSparesLocal ==
    \A i \in DOMAIN log :
        log[i].id = Me /\ log[i].origin = "Remote" => log[i].reason = "Expired"

(***************************************************************************)
(* With SignAndVerify every peer in the registry carries a signature that  *)
(* matches its content, whatever was announced meanwhile (listener.rs:92). *)
(***************************************************************************)
PeersAreVerified ==
    Auth /\ Verify =>
        \A id \in Peers \cap Present : IsVerified(inner[id].card)

(***************************************************************************)
(* TTL eviction is for peers (docs/spec.md:353, config.rs:357): while the  *)
(* node is up its own entry does not expire.  This takes a schedule with   *)
(* Hb + 2 * MaxLate <= Ttl: a beat is up to MaxLate late, and so is a      *)
(* slower upsert that overwrites the beat's instant with an older one.     *)
(***************************************************************************)
LocalNeverExpires == [][pc[Main] = "up" => ~Expires(Me)]_allVars

(***************************************************************************)
(* A discovery-only node is neither registered with the daemon nor in its  *)
(* own registry, updates included (mesh.rs:114,129,419,448).               *)
(***************************************************************************)
ObserverIsInvisible == ~Advertise => inner[Me] = None /\ published = None

(***************************************************************************)
(* Once shutdown() has returned no task of the node works on: no peer      *)
(* comes, changes or expires any more, and the map, the feed and what is   *)
(* advertised only still change by the calls of applications that update   *)
(* the agent nevertheless, and by the daemon's end (mesh.rs:430-442).      *)
(***************************************************************************)
QuietAfterShutdown ==
    [][pc[Main] = "returned" =>
          /\ \A id \in Peers : inner'[id] = inner[id]
          /\ (\A a \in Apps : pc'[a] = pc[a]) =>
                UNCHANGED <<inner, log>> /\ published' \in {published, None}
      ]_allVars

(***************************************************************************)
(* Whatever a heartbeat or an update re-announces after the goodbye, and   *)
(* even if that failed, a node that was shut down or dropped, or failed to *)
(* start, is withdrawn from the network for good, unless its daemon refused*)
(* to stop or shutdown's future was dropped (mesh.rs:419,442,501,524-525). *)
(***************************************************************************)
ServiceIsWithdrawn ==
    pc[Main] \in {"failed", "returned", "dropped"} /\ ~given_up
        ~> [](published = None)

(***************************************************************************)
(* If the local announcement stops changing while the node runs, its       *)
(* registry entry ends up equal to it, whatever older clones were still on *)
(* their way, refreshes failed or updates were cancelled (mesh.rs:545-550).*)
(***************************************************************************)
EntryCatchesUp ==
    \A card \in Cards :
        Advertise /\ <>[](pc[Main] = "up" /\ pc[Heartbeat] # "done"
                          /\ local_agent = card)
            => <>[](CardOf(Me) = card)

(***************************************************************************)
(* After the stop signal, by shutdown, by drop or by a cancelled shutdown, *)
(* every background task ends (mesh.rs:416,483-501,544,568, listener.rs:82)*)
(***************************************************************************)
TasksEnd == stop ~> \A t \in Tasks : pc[t] \in {"off", "done"}

(***************************************************************************)
(* A shutdown that is not cancelled returns: it waits for no task that     *)
(* waits for it (mesh.rs:411-445).                                         *)
(***************************************************************************)
ShutdownReturns ==
    pc[Main] = "unregister" ~> pc[Main] \in {"returned", "cancelled", "dropped"}

-----------------------------------------------------------------------------
(* What the documentation says and the code does not keep. *)

(***************************************************************************)
(* mesh.rs:405: shutdown "stops background tasks and removes the local     *)
(* agent from the registry".                                               *)
(***************************************************************************)
ShutdownRemovesLocal == pc[Main] = "returned" => inner[Me] = None

(***************************************************************************)
(* config.rs:29,31: with a shared secret local announcements are signed,   *)
(* so what the daemon advertises verifies.                                 *)
(***************************************************************************)
AnnouncementsAreSigned == Auth /\ published # None => IsVerified(published)
=============================================================================
