# A verification of zero-conf-mesh

TLA+ models of zero-conf-mesh, the TLC configurations that check them on small
instances, and TLAPS proofs about every stateful module for instances of every
size.
Line numbers are those of the Rust sources under `src/src/`.

## 1. The system

A process starts a `ZeroConfMesh` node. The node announces itself over mDNS,
listens for the announcements of others, keeps the agents it knows of in a
registry, and evicts those it has not heard of for a TTL. The `camp` command
line tool is a set of small programs on top of such nodes.

| Component | State | Operations | Interacts with |
|---|---|---|---|
| registry (`registry.rs`, `events.rs`) | map of `AgentInfo` behind a tokio `RwLock`, broadcast channel | `upsert_local`, `upsert_remote`, `remove_*`, `remove_remote_by_instance_name`, `evict_stale`, `subscribe`, queries | shared by every task of a node; events to subscribers |
| mesh node (`mesh.rs`) | local announcement behind an `RwLock`, stop channel, `shutdown_requested`, task handles | `from_config`, `update_*`, `shutdown`, `Drop`; heartbeat and sweeper tasks | registry, broadcaster, listener |
| listener (`listener.rs`) | browse channel | reacts to resolved and removed services | daemon, registry |
| broadcaster (`broadcaster.rs`) | service registered with the daemon | `announce`, `unregister` | daemon |
| announcement and agent types (`types.rs`) | typed fields, canonical and free metadata, signature | setters, TXT conversion, sign, verify, staleness | node, listener |
| configuration, builder (`config.rs`, `builder.rs`) | validated settings | `validate`, setters, rotation of secrets | node |
| camp watch (`bin/camp.rs`) | state file, temporary file, event log | snapshot, event loop, hooks | observer node, file system |
| camp serve (`bin/camp.rs`) | open SSE responses | REST reads, `/events`, graceful stop | observer node, HTTP clients |
| camp list, get, who, announce, up | a node for as long as the command runs | settings from options or the config file, filters | node, config file |
| camp init | config file, marked block of AGENTS.md | infer defaults, write, replace | file system, the user's edits |

What is hard here, and what makes each part correct:

* **Registry.** Instants are captured before the write lock is granted, sweeps
  hold the lock over several removals, and four tasks use it at once. It is
  correct when subscribers can rebuild the map from the feed and a sweep evicts
  exactly what is stale.
* **Node.** The announcement is read under one lock, sent over the network and
  stored under another; heartbeats, updates, start-up failures, shutdown, a
  cancelled shutdown and drop interleave, the results of the commands that
  withdraw the service are discarded, and updates do not ask whether the node was
  shut down. It is correct when its own entry is neither lost, nor taken over by
  the network, nor stale for ever, when tasks stop, and when a node that is gone
  is withdrawn.
* **Announcement.** Every setter writes a field twice, a signature is carried in
  the metadata it does not cover, what is signed is text in which nothing is
  escaped, and secrets change one node at a time. It is correct when a peer parses back what was announced and accepts exactly what was
  signed.
* **camp watch and serve.** A snapshot and a subscription are two steps, and the
  channel forgets events a slow receiver has not read. They are correct when a
  reader that has seen everything has the registry's content, and none stalls but
  by its own client, hook or output.

* **Nodes on a network.** Announcements and goodbyes are lost, late, repeated and
  overtaken by newer ones, nodes crash, and each node has timers of its own. They
  are correct when views agree after a bounded calm and nobody who left stays.
* **camp's files.** Settings are copied through four structs and a TOML file,
  AGENTS.md is shared with the user, reads fail, inits overlap or are killed. They
  are correct
  when `up` announces what was asked for, the guidance names the project and its
  commands find the agents, and the user's text survives.

`PROJECT.json` lists every component with its status and every hazard at its
line, with the properties that cover it.

## 2. The modules

| Module | What it is |
|---|---|
| `Presence` | abstract specification: a directory of cards, and a feed on which each change of it is announced once, in the same step |
| `Registry` | `registry.rs`: map, lock, clock, pending calls, feed; shown to implement `Presence` |
| `*_proofs` | the theorems about the module of that name; section 5 |
| `MeshNode` | one node: EXTENDS `Registry` and conjoins its operations in the steps of the handle and the three tasks |
| `Announcement` | `types.rs`: one agent's announcement, its setters, TXT form and signature, and a rotation of the shared secret |
| `EventStream` | a broadcast receiver as a position in the feed of `Presence`, with the channel's capacity |
| `CampWatch` | `run_watch` over an `EventStream`, with the state file and restarts |
| `CampServe` | `run_serve` and `events_handler` over an `EventStream` |
| `Mesh` | several nodes, each seen from outside, on a network with losses, delays, repetitions, crashes |
| `NodeConfig` | `builder.rs`, `config.rs`: from what is asked for to a configuration or a rejection; no state |
| `AgentQueries` | the filters of the library, of `camp list` and `get`, and of the REST bridge; no state |
| `CampProject` | one repository: `camp init`, its files, the user's edits, announcers, `camp who` |
| `*MC` | constants of the small instances |

The layers build on each other: `Registry` implements `Presence`, so the two
camp modules use `Presence` as their registry; `MeshNode` needs the lock and the
instants and uses `Registry` itself. `Mesh` composes nodes and abstracts what
`MeshNode` shows of each: an entry is a content with an age. `CampProject` extends
`AgentQueries`, and that `NodeConfig`. Definitions named *Fault...*, or marked
"Fault:" in their comment, are plausible bugs: no specification uses them, they
show that a property would notice one.

### Registry

`inner` maps an agent id to its entry (`card`, `last_seen`) or `None`. A *card*
stands for all that `same_payload_as` compares. `now` is the monotonic clock.
`call` holds what each caller has captured and not yet applied: `upsert_*` and
`evict_stale` take `Instant::now()` before they wait for the lock, so each is a
`Begin...` action and one or more actions under the lock. `writer` and `stale`
are the evicting writer and its `stale_ids`; every victim is a step of its own
because its event can be received before the next one is sent. Upserts and removals take and drop the
lock within one step. `log` is every event ever sent, as a transition
`before -> after` of one agent's card.

### MeshNode

`pc` says where the owner of the handle (`Main`), the tasks and the updating
applications are; they are the `Callers` of `Registry`. Actions end where
another thread can come in between two accesses to shared state:

| Code | Actions |
|---|---|
| `from_config`, `announce_and_start_listener` | `StartAnnounce`, `StartListener`, `ListenerFails`, `InsertLocal`, `SpawnTasks` |
| heartbeat task | `BeatTick` (clone), `BeatAnnounce`, `BeatUpserted` |
| sweeper task | `SweepTick`, `SweepEvicts`, `SweepReturns` |
| listener | `Resolved`, `ResolvedUpserted`, `Removed`, `SearchStops` |
| `update_*`, `refresh_local_agent` | `Mutate`, `SignAndClone`, `UpdateAnnounce`, `UpdateAnnounceFails`, `UpdateReturns`, `CancelUpdate` |
| `shutdown` | `Shutdown`, `Unregister`, `RemoveLocal`, `Join`, `StopDaemon`, `CancelShutdown` |
| `Drop` | `DropHandle`, `AbortTakesEffect` |
| the daemon's thread (external) | `DaemonExits` |
| stop signal, timers | `StopTask`, `Clock` |

A signature is the content it signs. `published` is what the mdns-sd daemon
advertises; each call to it may fail. The daemon is a thread with a queue of
commands: `shutdown()` only puts one there, or is refused, and its callers discard
the result (`mesh.rs:442,501,525`). Until the thread comes to it (`DaemonExits`) it
is `stopping`: what is registered now is accepted and never carried out, so an
update begun before or after the node's shutdown still gets its `Ok` and upserts
the local agent. Once it is `gone` it refuses everything. `given_up` remembers that
the command was refused, or never sent because `shutdown`'s future was dropped. An
abort takes effect at an await, and there is none under the registry's lock; that
is the guard of `AbortTakesEffect`, and no property rests on saying it again.
The network is any sequence of resolved and removed services within `Announced`
and `MaxEvents`, including ones that bear the node's own id or name.
`config` is chosen once from `Configs`: advertising or discovery-only, with or
without a shared secret and verification.

### Announcement

An announcement has its typed fields, a capability set and a map of metadata in
which `Missing` marks absent keys; strings are opaque and `Trim` says what
trimming makes of one. The instance has padded and blank texts, and the
canonical `status` as a caller may try to set it. Keys the configuration supplies
are stored as given (`config.rs:285-298`), those of updates trimmed
(`types.rs:289`), hence the padded free keys.

What is signed is a text, one line for each field and free entry
(`types.rs:707-727`), and values are not escaped: `FirstLine` and `OtherLines` say
which lines a value makes, and `Payload` is the set of the text's numbered lines.
Two announcements can share one: in the instance a project `alpha\nbranch=alpha`
spells the branch's line. A signature is its secret and that text.

`Refresh` signs under the lock and `Announce` sends a clone, possibly late, out of
order or never; `Heartbeat` sends what is there, signed or not. `Rotate` and
`RotatePeer` restart the two ends with the secrets of a next stage: accept the new
secret, sign with it, drop the old one. The first of these may be left out
(`Restarts`), as README.md:1060-1084 does; the other end is then `Unprepared`.
`SurvivesTxt` is what lets `MeshNode` treat an announcement as one opaque card on
both sides of the network, and `AcceptedIffSigned`, for values without newlines,
what lets it treat a signature as the content it signs. The network is taken to
deliver TXT properties as they were sent; mdns-sd compares keys without regard to
case and holds 255 bytes per entry, so free keys that differ from others only in
case (`Status`, which `is_reserved_metadata_key` lets through) and longer entries
are outside the model.

### EventStream, CampWatch, CampServe

A receiver is the index of the next event; it lags when the channel's last
`Capacity` events no longer include that one. `CampWatch` follows the one task
of `run_watch` statement by statement, `write_state_snapshot` as truncating,
writing and renaming a temporary file; it may fail, be killed and run again at
each of them. `CampServe` has one connection per client; the handler subscribes
first and sends its snapshot when the response is first polled. A response is
polled as its client takes bytes: `reading` says whether it does, and
`StopOrGoOnReading` changes that at any moment.

### Mesh

A node is its announcement, the entries of its registry with their ages, and the
ticks left until its next heartbeat and sweep. `air` holds what is on its way,
each message to one receiver: it is delivered at least once within `MaxDelay`
unless it was lost, any number of times and in any order, and a receiver misses
at most `MaxLoss` announcements of one sender in a row. A goodbye is sent once
and may be lost. `calm[n][p]` counts how long `n` has run while `p` neither
changed, started nor ended. `AgreedView` holds after
`2 * MaxDelay + (MaxLoss + 1)` heartbeats: a goodbye of an earlier life can remove
a new one `MaxDelay` after its start, the `MaxLoss` announcements after that can
be missed and the next be late. `DepartedLeave` holds after `MaxDelay` plus a TTL
plus a sweep. One tick less and TLC finds either violated, so neither bound hides
slack in the model.

### NodeConfig, AgentQueries, CampProject

`NodeConfig` follows the builder's setters, `build_config`, `new` and `validate`;
a configuration is a record, a rejection `Invalid`. Texts are opaque, with
constants for what trimming, lower-casing, prefixes, regexes and parsing make of
them. `Hears` is the listener's test: same service type and port, another id, and
a secret it accepts.

In `CampProject` every file operation of `camp init` is a step (`fs::write` is
two: the file is empty in between), and up to two inits run at once, are killed
or fail at any step, while the user inserts and removes lines of AGENTS.md, the
markers and the guidance included. Reading AGENTS.md yields its text or, for any
error, nothing, and init goes on to overwrite it (`ReadOrEmpty`,
`camp.rs:1261-1268`). An init that writes a config file which another has filled
meanwhile leaves the end of a longer text behind. `CampConfigFile` ignores unknown
keys and defaults some, so the result may be whole, may not parse (`Torn`), or may
take the interface selectors of the other init (`Leftover`, `Mixed`): they are the
last keys of the file and the only ones that can be absent from the new text
without the mandatory `shared_secret_mode` before them appearing twice. A file that
is deleted while it is open is written to no avail. A file is a sequence of lines; `LinesIn` is the
user's of them, `WellMarked` says that the others are at most one whole block.
`Collect` keeps the last value of each key, as collecting into a map does, and
`Parsed` is what `camp list` makes of the words it is given. Announcers go
online from the config file (`Up`) or from options (`Announce`) and stay as the
config changes. The history variables say what the promises depend on: `intact`,
that every read of AGENTS.md succeeded, no save or other init came between it and
its write, no kill within the write, and no damaged markers; `complete`, that the
last init ran alone and to its end; `requested`, the options all of the config
file is made of, if there are any such. They end the promises where the code keeps
none: those windows are described in section 4, not covered by a property. With
three overlapping inits what is written over a torn file counts as whole or torn
only.

## 3. The runs

| Run | Question | Bounds |
|---|---|---|
| `Registry_concurrent` | does any interleaving break the feed, a sweep, the TTL, the abstract directory, or leave a call waiting? | 2 agents, 2 cards of different names, 2 callers, TTL 1, clock to 3 |
| `MeshNode_timely` | with a sufficient TTL, is the own entry safe, from the sweeper and from the network; no unverified peer, no visible observer, quiet after shutdown? | a verifying and a discovery-only node, a peer announced signed or unsigned, 1 application, TTL 3, clock to 4 |
| `MeshNode_live` | does the entry catch up, do tasks end, does shutdown return, is a node that is gone withdrawn? | 1 application, 2 contents, weak and strong fairness |
| `Mesh_lossy` | do views agree, do the departed leave, over a bad network? | an agent and an observer, 2 contents, heartbeat 1, TTL 4, delay 1, 2 losses in a row |
| `Announcement_rotation` | do fields and metadata stay in step, does a peer parse back what is announced and accept exactly what was signed, in mid rotation too, prepared or not? | 3 updates in all, 3 free keys, 2 capabilities, a value of two lines, 2 or 3 restarts of each end |
| `CampServe_streams` | is a reader that was sent everything right; does no stream stall whose client reads; does draining end? | 2 clients, 2 agents, 1 card, channel of 2 of 3 events |
| `CampWatch_file` | is the state file whole and does it catch up, over failures, blocking hooks and restarts? | 2 agents, 2 cards, channel of 2, 4 changes per run of the command |
| `CampProject_files` | does the user's text survive, is the guidance current, does `up` repeat `announce`, do `who` and the filters find what they should? | 2 overlapping inits, 2 edits, 1 announcer, 3 option sets, 2 environments |

Why these bounds are enough for the cases that matter: a clock of TTL + 2 lets
an agent be observed, expire and come back; `MaxEvents` stops the start of new
operations, not operations already begun, so a join, a departure and a rejoin fit
in 2; two callers are what it takes for one to overtake another between its
instant and its lock, and the sweeper with an upsert needs no third; the channel
keeps 2 events and 3 or more are sent, so receivers do lag; two cards of
different names let an update change an agent's name and two agents share one.
Three updates
let a field be set, unset or renamed and set again around a refresh or a restart.
In `Mesh` views of different agents and of different observers do not touch one
another, so one of each is enough; the library's default TTL is four heartbeats,
as here, and a delay of one heartbeat with two losses in a row is the worst that
this TTL survives. `Mesh_proofs` shows both for any number of nodes. In
`CampProject` two inits are what it takes to overlap, or to replace a block that
is there; two edits to damage a marker and add text around it; the option sets
are all defaults, a padded second spelling of the project in mid rotation, and
one that `validate` rejects.
The clock stopping at `MaxTime` is not a deadlock of the code, nor is a node that
was shut down, so deadlock is not checked; the liveness properties say what must
still happen instead. In `MeshNode_live` time stands still at its horizon while
the timers go on firing, so that heartbeats and sweeps recur for ever.

Every property comes with a mutant of a modelled definition that breaks it.

### Fairness

* `Registry`: `SF(Step(c))`. tokio wakes and polls a task that can go on and its
  `RwLock` is first in, first out, so no waiter is overtaken for ever; a weak
  condition would not do, since other writers make a waiting step unavailable
  again and again.
* `MeshNode`: the same for the heartbeat and an application's begun update, weak
  fairness for tasks that nobody competes with and for shutdown's own steps, and
  strong fairness of the stop branches: `select!` picks a ready branch at random,
  so it does not ignore the signal for ever. Nothing is assumed of the network or
  of the owner; they need not call, send or shut down anything.
  The mdns-sd thread comes to its shutdown command (weak fairness of
  `DaemonExits`).
* `CampServe`: a response goes on only as its client takes bytes, and nothing times
  out, so `StreamStep` is enabled, and weakly fair, while the client is `reading`;
  clients need not read, leave or come back. A client that does not read stalls its
  own stream and is not even told that it lagged: `StreamsKeepUp` is about those
  that go on reading. `DrainingEnds` says *if* every client lets go again and again:
  the event stream watches no stop signal.
* `CampWatch`: weak fairness of the command's own steps (`OwnStep`). Printing waits
  for the reader of the pipe and `run_exec_hook` for any command, without a timeout
  (`camp.rs:1386`), so the steps after them are not fair: `WatchKeepsUp` says *if*
  they return. Both feeds end at `MaxEvents`; that a reader is overrun again and
  again is within the bound, as the channel holds less than that.

`Mesh` and `CampProject` have safety properties only and assume no fairness:
`AgreedView` and `DepartedLeave` bound the time themselves, because the clock does
not move on while something is due.

## 4. What disagrees with the documentation

Four runs are expected to fail; each is listed under `findings` with the quoted
line.

* `MeshNode_shutdown_leaves_entry`: `shutdown` removes the local agent before it
  joins the heartbeat, and a heartbeat under way inserts it again.
* `MeshNode_torn_signature`: a heartbeat between the mutation and the signing of
  an update announces a content under the old signature.
* `Mesh_camp_observer`: the observer behind every camp command has a TTL of 2 s,
  announcers beat every 30 s, so `camp watch` and `camp serve` see running peers
  expire and come back.
* `CampWatch_missed`: a change between watch's snapshot and its subscription stays
  out of the state file until some other change.

Met while modelling, and not kept as runs.

The node:

* a heartbeat may overwrite an update that has returned with the older clone it
  took (`mesh.rs:546-550`, against "immediately" in `mesh.rs:316`); the next
  heartbeat repairs it (`EntryCatchesUp`);
* with a TTL just above the heartbeat interval, which `validate` accepts, a late
  heartbeat lets the sweeper evict the local agent and announce it as an expired
  remote one (`registry.rs:321`). It cannot happen when TTL >= heartbeat +
  2 * scheduling delay (`MeshNode_timely`);
* `validate` accepts a heartbeat interval of zero (`config.rs:270`); tokio's
  `interval` panics on it inside the spawned tasks, so such a node starts and then
  neither announces again nor sweeps;
* README.md:1060-1063 has nodes sign with the current secret and accept previous
  ones so that the mesh can "roll forward gradually", but a node not yet restarted
  accepts only the previous secret and rejects the restarted ones (`Unprepared`).
  With a first restart that still signs with the old secret and accepts the new
  one nobody is rejected in between; `AcceptedIffSigned` covers both;
* values are joined into the signed text with newlines and not escaped
  (`types.rs:707-727`), so an announcement that was never signed as it stands, with
  a value moved from one field to another, verifies under the signature of one that
  shares its text;
* an update that comes after shutdown, or is under way, may still insert the local
  agent again, while the daemon's thread has not ended (`mesh.rs:447-474` ask for no
  `shutdown_requested`); with `MeshNode_shutdown_leaves_entry` the heartbeat shows
  the same;
* the results of the commands that withdraw a service are discarded
  (`mesh.rs:442,501,524-525`), and a dropped `shutdown` future sends none
  (`mesh.rs:479`): where the daemon refuses, a node that failed to start, was shut
  down or dropped stays announced. `ServiceIsWithdrawn` holds for the others;
* `last_seen` can go back when two upserts of one agent take the lock in the other
  order of their instants (docs/spec.md:184 calls it monotonic; `registry.rs:78`);
* the listener starts before the local agent is inserted (docs/spec.md:79-80 lists
  the opposite order; `mesh.rs:114-131`).

camp:

* two watchers of one state file share its temporary file (`camp.rs:1394`);
* with `--config` the other discovery options are silently ignored
  (`camp.rs:798-809`; `camp.rs:96` calls the file's values defaults), and
  `--shared-secret-accept` without `--shared-secret` drops authentication
  altogether (`camp.rs:957`);
* `camp init` validates nothing: what it writes may be rejected by `camp up`;
* a save of AGENTS.md between init's read and write is lost, a kill within the
  write leaves the file empty, overlapping inits can mix their texts, and a file
  that cannot be read, not being UTF-8 or for any other error, is taken for an empty
  one and replaced (`camp.rs:1261-1268`);
* overlapping inits can leave a config file with the interface selectors of one and
  everything else of the other, which `camp up` announces although nobody asked for
  it (`camp.rs:402-418,1244`); and an init that fails after its config file leaves
  it beside the old guidance (`camp.rs:545`);
* with the start marker kept and the end marker deleted, a second block is added,
  and the init after that takes all from the first start marker to the end marker
  of the second, text in between included, for the block (`camp.rs:1295`);
* every init adds a newline when text follows the block (`camp.rs:1302`), and the
  guidance does not quote a project with blanks (`camp.rs:1281`).

## 5. What is proved

All theorems hold for every value of the constants that satisfies the named
assumptions of the modules; none has a hypothesis of its own except those about
timing that are spelt out below. Each invariant was first checked by TLC on the
instance of its run. A theorem about an invariant has the form `Spec => []Inv`,
from an inductive invariant that is stronger.

### Registry

| Theorem | States |
|---|---|
| `TypeCorrect` | `Spec => []TypeOK` |
| `SweepAlwaysExact` | `Spec => []SweepIsExact` |
| `FeedAlwaysMatchesMap` | `Spec => []FeedMatchesMap` |
| `FeedAlwaysChained` | `Spec => []FeedIsChained` |
| `NeverExpiresEarly` | `Spec => NoPrematureExpiry` |
| `RegistryImplementsPresence` | `Spec => Directory!Spec` |

They all follow from one inductive invariant, `IInv`: `TypeOK`, `SweepIsExact`,
`CapturedInThePast`, `FeedMatchesMap` and `FeedIsChained`. No part carries
itself. That the feed is a chain needs the map to agree with the feed, because
an event's `before` is read from the map. That the map agrees with the feed needs
the types (an entry is never `None`). That nobody expires early needs the sweep's
list to be exact at the sweep's own instant, and that instant, captured before
the lock was waited for, to be in the past: `CapturedInThePast` says so of every
pending call. The lemmas about `EndsWith` say what appending one event does to
what the feed tells about its own agent and about the others. The refinement maps
each operation to one of `Publish`, `Leave`, `Expire`, or to a stutter.

`Operation` is what any step of any user of the registry does to it; the lemmas
are about it, so that the node's proofs use them for the same code called from
its tasks.

### Node

| Theorem | States |
|---|---|
| `NodeTypeCorrect` | `NodeSpec => []NodeTypeOK` |
| `ObserverAlwaysInvisible` | `NodeSpec => []ObserverIsInvisible` |
| `ListenerAlwaysSparesLocal` | `NodeSpec => []ListenerSparesLocal` |
| `PeersAlwaysVerified` | `NodeSpec => []PeersAreVerified` |
| `LocalNeverExpiresOnTime` | `Hb + 2 * MaxLate <= Ttl => (NodeSpec => LocalNeverExpires)` |
| `AlwaysQuietAfterShutdown` | `NodeSpec => QuietAfterShutdown` |
| `NodeImplementsPresence` | the node's registry implements `Presence`, and its feed stays a chain that matches the map |
| `ObserversChangeRemotely` | a discovery-only node's steps are `EventStream`'s `ObserverChange`, up to its bound |

The inductive invariant `NodeIInv` adds to the registry's own: `Lifecycle`, which
tasks can be in which phase given the phase of the handle's owner (nothing runs
before it is spawned, what was joined has ended, an observer has no heartbeat);
`Pending`, who has begun which operation (only the sweeper sweeps, the listener
stores accepted peers under other ids, all others what the agent says of itself);
`Entries` and `Visibility`, what the map and the daemon can hold; and `OnTime`.
`Pending` is what the network properties need: an entry is stored some time after
it was accepted, so the acceptance must be remembered with the call.
`QuietAfterShutdown` needs `Lifecycle`: all three tasks have ended, so a step is one
of an application, of the daemon, or none that matters. It does not say that nothing
can happen, since updates ask for no `shutdown_requested`. `OnTime`
bounds the age of the own entry by the next heartbeat's deadline in each of the
three states of a heartbeat (waiting, cloned, storing). The hypothesis leaves
`MaxLate` for the timer and again for the lock; `MeshNode_timely` meets it
exactly, and section 4 says what happens below it.

The last two theorems join the layers: `CampWatch` and `CampServe` run over the
directory and feed of `Presence`, changed as `EventStream` says, and these are
what the node behind `build_observer` produces.

### Mesh

| Theorem | States |
|---|---|
| `MeshTypeCorrect` | `MeshSpec => []MeshTypeOK` |
| `DepartedAlwaysLeave` | `MeshSpec => []DepartedLeave` |
| `ViewsAlwaysAgree` | `Tolerant => (MeshSpec => []AgreedView)` |
| `LivePeersAlwaysStay` | `Tolerant => (MeshSpec => LivePeersStay)` |

for any finite number of nodes, each with its own intervals, and any bounds on
delay and losses. `MeshIInv` has three parts for each receiver `n` and sender
`p`: a message younger than `p`'s last change is `p`'s present word
(`MessagesAreNews`); so is an entry that was recorded when all older messages had
arrived (`EntryIsNews`), which is what makes a late goodbye or announcement of an
earlier life harmless in the end; and an entry of an agent that is gone is within
a sweep of its eviction (`GoneIsSwept`). None holds without the one before: a
delivery makes an entry of a message, a sweep spares an entry by its age.
`PairStep` reduces every step to what it is for one pair, and the lemmas after it
say what each kind does to that pair.

`Tolerant` is `(MaxLoss + 1) * Hb[p] + MaxDelay <= Ttl[n]` for every observer `n`
and announcer `p`: the TTL outlasts the announcements that may be lost in a row
and one that is late. The library's defaults (30 s and 120 s) satisfy it with two
losses and a delay of up to 30 s, which is what `Mesh_lossy` has; without it a running peer is
rightly taken for dead, so neither property can hold. `ListeningInv` says that
`n` has heard `p` since the last announcement it did not miss, or that this one
is still on its way; each lost one uses up a heartbeat of the bound. camp's
observers (2 s against 30 s) do not satisfy `Tolerant`: `Mesh_camp_observer` is
the consequence.

That finitely many intervals have a longest one is an induction on sets, done by
a smallest counterexample (`LargestMember`, with the library's theorem that
strict inclusion is well founded on finite sets).

### camp watch and camp serve

| Theorem | States |
|---|---|
| `WatchTypeCorrect` | `WatchSpec => []WatchTypeOK` |
| `SnapshotAlwaysWhole` | `WatchSpec => []SnapshotIsWhole` |
| `StateFileAlwaysCatchesUp` | `WatchSpec => []StateFileCatchesUp` |
| `ServeTypeCorrect` | `ServeSpec => []ServeTypeOK` |
| `ViewAlwaysCurrent` | `ServeSpec => []ViewIsCurrent` |

for any agents, clients, capacity of the channel and number of events. Both rest
on `UpToDateFrom(i, view)` of `EventStream_proofs`: a picture is wrong only about
agents that the feed mentions at or after position `i`. A snapshot taken after
subscribing is up to date from the subscription on, applying the next event keeps
it so one position later, a change of the directory keeps it because it appends
an event (`FeedIsChained` supplies that an event tells what it left behind), and
a reader at the end has nothing left to be wrong about. In `CampWatch` the picture
travels through memory and two files, and `ListTravels` follows it.

### Announcement

From the assumptions named in `Announcement` (what trimming yields is trimmed; the
configuration's fields are trimmed and not empty and its capabilities normalised; a
text has finitely many lines, a status one; free keys are ordered; `Missing` is no
text and no capability list):

| Theorem | States |
|---|---|
| `AnnouncementTypeCorrect` | `Spec => []TypeOK` |
| `AlwaysInStep` | `Spec => []MetadataInStep` |
| `AlwaysSurvivesTxt` | `Spec => []SurvivesTxt` |
| `AlwaysAcceptedIffSigned` | `Spec => []AcceptedIffSigned` |

The inductive invariant says that every announcement in sight (the node's, the
one on the air, those signed) is `InStep`, that its signature was made for
something signed, and that neither end is more than a restart ahead. `InStep` is
stronger than `MetadataInStep`: the capability key is absent when the list is empty,
or the round trip would drop it. `RoundTrip`, `PayloadDetermines` (without newlines,
text and signature determine an announcement: every field is then one line, at a
place that depends on the keys only) and `NeighboursAccept` (a restart apart each
end accepts what the other signs, but for the unprepared one) carry the argument.
The proofs know a signature only as the pair of its secret and its text, so they
assume an HMAC that is not forged. What newlines allow is stated, not assumed away:
`AcceptedIffSigned` speaks of the same text first and of the same announcement only
where values are plain. `AlwaysSurvivesTxt` holds over a network that delivers the
properties as they were sent (section 2).

### camp's files

| Theorem | States |
|---|---|
| `ProjectTypeCorrect` | `ProjectSpec => []ProjectTypeOK` |
| `UserTextAlwaysSurvives` | `ProjectSpec => []UserTextSurvives` |
| `GuidanceAlwaysCurrent` | `ProjectSpec => []GuidanceIsCurrent` |
| `UpAlwaysRepeatsAnnounce` | `ProjectSpec => []UpRepeatsAnnounce` |
| `GuidanceAlwaysFindsAgents` | `ProjectSpec => []GuidanceFindsAgents` |
| `AnswersAlwaysAgree` | `ProjectSpec => []AnswersAgree` |

for any inits, edits, announcers, options, environments, texts and filters. The
inductive invariant `PIInv` has six parts.

* `TextIsSomewhere`: while `intact`, the user's text is in AGENTS.md, or the file
  is empty and the one init that is writing it has the text in memory. That there
  is only one is what `intact` buys; without that part a second writer's tail
  would end up behind the first one's text.
* `LoneInit`: while an init has been alone, no other is at work, and what is known
  of the config file is what this init wrote. It is how `complete` comes to mean
  that the block and the config file are of the same init.
* `GuidanceStays`: the lone init's block stays where the user's edits shift it,
  as long as they leave the markers whole. A line removed from a block leaves
  marks that are not (`RemoveKeepsBlock`).
* `ConfigInStep` and `AnnouncersRepeat`: the config file is what was written of
  `requested`, or of options mixed of several inits (`Mixtures`), or is none, empty
  or torn; and a running node is the one its options stand for, or such a mixture's,
  under an id other than an observer's.
* `Typing`, which also says that a file being written is there.

Under them lie three groups of lemmas. `Spliced` describes replacing and appending
a block by positions, and with it inserting and removing a line; that whole marks
stay whole and the user's lines stay in order (`ReplaceKeepsText`) is then a fact
about three positions. `ConfigReadsBack`, `CollectPairs` and `UpIsAnnounce` take an
option through the structs, the TOML tables and back. `BuiltIsConfig` says what of
a builder reaches the node, `ObserverHears` that a secret the config file accepts
lets the observer hear its owner.

The proofs name what they take of the code's types: `Options` and `Settled`, what
`InitCommand` and `AnnounceSettings` may hold; trimming is idempotent, also for a
UUID, and a status is its own trimmed lower case. `FreshAssumption` is that no
agent is given the very UUID that an observer draws, `SentinelAssumption` and
`AuthAssumption` that the model's `None`, `Unset`, `Empty`, `Torn` and `Invalid` are not
at the same time a file, a config or a secret. TLC evaluates all of them in
`CampProject_files`.

To be reasoned about, definitions say which positions and keys they are about
(`LinePlaces`, `PlacesOf`), with a maximum or a count in place of a fold. The
proof of `AnswersAgree` showed that its case for a status spelt differently held
in either branch, because the filters were taken as parsed already; the property
now asks all three implementations in the same words (`Parsed`).

### What stays with TLC

Liveness under fairness is out of the prover's reach: `EveryCallReturns` of the
registry, and the liveness properties of `MeshNode_live` (`EntryCatchesUp`,
`TasksEnd`, `ShutdownReturns`, `ServiceIsWithdrawn`), `CampServe_streams` (`StreamsKeepUp`,
`DrainingEnds`) and `CampWatch_file` (`WatchKeepsUp`). Every other property of a
passing run is a theorem. The four disagreements of section 4 are counterexamples
and need no proof.

## 6. What is not modelled

* Addresses, ephemeral ports and what mdns-sd does to TXT properties (size limits,
  keys regardless of case), which no property is about; in `Announcement` instance names, which no update changes.
* What mdns-sd does with interface selectors: it is external, as is the network.
  `MeshNode` assumes nothing of it; `Mesh` assumes that the daemon reports an
  announcement that arrived also when no record in it changed. Were that not so,
  heartbeats would not refresh peers (the mutant of `AgreedView`).
* `from_config` cancelled by its caller; setters that reject a value (they change
  nothing).
* Two `camp watch` on one state file, two announcers of one id; a power loss that
  undoes writes which were not synced.
* Blank lines and padding in AGENTS.md, the wording of the guidance, which error
  is reported.
* Errors, banner, completions, scripts and examples: no state, no decisions.

## 7. Plan

Every module of the plan is written, and every safety property is proved. What
would extend the project:

1. two `camp watch` on one state file and its temporary file (`camp.rs:1394`);
2. a heartbeat interval of zero, where tokio panics in the spawned tasks
   (`config.rs:270`): `validate` would have to be modelled next to the tasks;
3. liveness proofs, when the prover supports them.
