---------------------------- MODULE CampProject -----------------------------
(***************************************************************************)
(* One repository worked on with camp (src/bin/camp.rs): `camp init`       *)
(* writes a config file and a marked block of guidance into AGENTS.md,     *)
(* `camp up` and `camp announce` bring agents online, and `camp who` finds *)
(* them, while the user edits AGENTS.md and inits overlap or are killed.   *)
(*                                                                         *)
(* A file operation is a step; fs::write truncates and then writes.        *)
(* AGENTS.md is a sequence of lines, blank lines and padding left out.     *)
(***************************************************************************)
EXTENDS AgentQueries, FiniteSets

CONSTANTS
    None,           \* no such file
    Torn,           \* a config file that does not parse
    Inits,          \* concurrent camp init processes
    Slots,          \* terminals an announcer may run in
    Commands,       \* the options camp init and camp announce are given
    Environments,   \* what init infers its defaults from
    Slug,           \* infer_default_agent_id, of a project and a branch
    UserLines,      \* what a user may write into AGENTS.md
    Undecodable,    \* ... and the lines that are not UTF-8
    Filters,        \* what agents are looked up by
    MaxInits, MaxEdits  \* bounds: runs of camp init, edits by the user

VARIABLES
    config_file,    \* the camp config: None, Empty, Torn, or TOML tables
    agents_file,    \* AGENTS.md: None or its lines
    init,           \* the state of each camp init process
    announcer,      \* what runs in each slot
    runs, edits,
    requested,      \* history: the options all of config_file is made of
    text,           \* history: the user's lines, as the user left them
    intact,         \* history: reads succeed, and nothing precedes their writes
    complete        \* history: the last init ran alone, and to its end

\* What may be asked for, and that with every option given or settled; the
\* arguments are the texts and numbers an option may be.
OptionsOf(texts, numbers) ==
    [id: texts, role: texts, project: texts, branch: texts, port: numbers,
     status: Statuses, capabilities: Seq(Texts),
     metadata: Seq([key: Texts, value: Texts]), service_type: Texts,
     mdns_port: Nat, heartbeat_ms: Nat, ttl_ms: Nat,
     shared_secret: Texts \cup {Unset}, shared_secret_accept: Seq(Texts),
     shared_secret_mode: {"sign-only", "sign-and-verify"},
     enable_interface: Seq([kind: STRING \cup {Unset}, value: Texts]),
     disable_interface: Seq([kind: STRING \cup {Unset}, value: Texts])]
Options == OptionsOf(Texts \cup {Unset}, Nat \cup {Unset})
Settled == OptionsOf(Texts, Nat)

ASSUME ProjectAssumption ==
    /\ \A command \in Commands : command \in Options
    /\ \A env \in Environments :
          env \in [package: Texts \cup {Unset}, directory: Texts \cup {Unset},
                  branch: Texts \cup {Unset}]
    /\ Slug \in [Texts \X Texts -> Texts]
    /\ {"agent", "default", "main", "unknown", "observer", "watch",
        DefaultServiceType} \subseteq Texts
    /\ MaxInits \in Nat /\ MaxEdits \in Nat

\* No agent is given the fresh UUID of an observer for an id.
ASSUME FreshAssumption ==
    /\ \A command \in Commands : command.id = Unset \/ Trim[command.id] # Fresh
    /\ \A key \in DOMAIN Slug : Trim[Slug[key]] # Fresh

files == <<config_file, agents_file>>
history == <<requested, text, intact, complete>>
projectVars == <<files, init, announcer, runs, edits, history>>

-----------------------------------------------------------------------------
(* AGENTS.md. *)

FileLine == [kind: {"line", "start", "guidance", "end"},
             words: UserLines \cup Texts \cup {""}]

Line(words) == [kind |-> "line", words |-> words]
Start == [kind |-> "start", words |-> ""]
End == [kind |-> "end", words |-> ""]

\* render_agents_guidance: all that varies in it is the project.
Guidance(project) == <<Start, [kind |-> "guidance", words |-> project], End>>

FirstOf(lines, line) == SelectInSeq(lines, LAMBDA l : l = line)

\* Fault: the end marker is not looked for.
AppendBlock(existing, block) ==
    LET start == FirstOf(existing, Start) IN
    IF start # 0 THEN SubSeq(existing, 1, start - 1) \o block
    ELSE existing \o block

\* Fault: a block that is there already is kept.
KeepBlock(existing, block) ==
    IF FirstOf(existing, Start) # 0 THEN existing ELSE existing \o block

\* replace_marked_block.
ReplaceMarkedBlock(existing, block) ==
    LET start == FirstOf(existing, Start)
        end == FirstOf(existing, End)
    IN  IF start # 0 /\ end > start
        THEN SubSeq(existing, 1, start - 1) \o block
             \o SubSeq(existing, end + 1, Len(existing))
        ELSE existing \o block

LinePlaces(lines) == {k \in DOMAIN lines : lines[k].kind = "line"}

\* The user's lines, in their order.
LinesIn(file) ==
    IF file = None THEN <<>>
    ELSE LET kept == Restrict(file, LinePlaces(file))
             place(n) == CHOOSE k \in DOMAIN kept :
                            Cardinality(DOMAIN kept \cap 1..k) = n
         IN  [n \in 1..Cardinality(DOMAIN kept) |-> kept[place(n)]]

IsUtf8(file) ==
    file # None /\ \A i \in DOMAIN file : file[i].words \notin Undecodable

\* read_to_string(..).unwrap_or_default(), which may fail on any file.
ReadOrEmpty(file) == IF IsUtf8(file) THEN {file, <<>>} ELSE {<<>>}

-----------------------------------------------------------------------------
(* The config file and the settings made of it. *)

AgentFields == {"id", "role", "project", "branch", "port", "status",
                "capabilities", "metadata"}
DiscoveryFields == {"service_type", "mdns_port", "heartbeat_ms", "ttl_ms",
                    "shared_secret", "shared_secret_accept",
                    "shared_secret_mode", "enable_interface",
                    "disable_interface"}

OrElse(option, default) == IF option = Unset THEN default ELSE option

PlacesOf(pairs, key) == {i \in DOMAIN pairs : pairs[i].key = key}
KeysIn(pairs) == {pairs[i].key : i \in DOMAIN pairs}

\* into_iter().collect() of KEY=VALUE pairs: the last of a key stays.
Collect(pairs) ==
    [key \in KeysIn(pairs) |-> pairs[Max(PlacesOf(pairs, key))].value]
Pairs(map) == SetToSeq({[key |-> k, value |-> map[k]] : k \in DOMAIN map})

IsNamed(name) == name # Unset /\ Trim[name] # Empty
InferProject(env) ==
    IF IsNamed(env.package) THEN env.package
    ELSE IF IsNamed(env.directory) THEN env.directory ELSE "default"
InferBranch(env) == OrElse(env.branch, "main")

\* run_init's defaults.
Resolved(command, env) ==
    LET project == OrElse(command.project, InferProject(env))
        branch == OrElse(command.branch, InferBranch(env))
    IN  [command EXCEPT !.project = project, !.branch = branch,
                        !.id = OrElse(@, Slug[project, branch]),
                        !.role = OrElse(@, "agent"), !.port = OrElse(@, 7000)]

\* CampConfigFile; its metadata is a map.
ConfigOf(options) ==
    [agent |-> [f \in AgentFields |->
                   IF f = "metadata" THEN Collect(options[f]) ELSE options[f]],
     discovery |-> [f \in DiscoveryFields |-> options[f]]]

\* skip_serializing_if, and serde(default): what is left out, and read back.
SkippedIf ==
    [capabilities |-> <<>>, metadata |-> <<>>, shared_secret |-> Unset,
     shared_secret_accept |-> <<>>, enable_interface |-> <<>>,
     disable_interface |-> <<>>]
ToToml(table) ==
    [f \in {g \in DOMAIN table :
               g \in DOMAIN SkippedIf => table[g] # SkippedIf[g]} |-> table[f]]
FromToml(table, fields) ==
    [f \in fields |-> IF f \in DOMAIN table THEN table[f] ELSE SkippedIf[f]]

Written(config) == [agent |-> ToToml(config.agent),
                    discovery |-> ToToml(config.discovery)]
ReadCampConfig(file) ==
    IF file \in {None, Empty, Torn} THEN Invalid
    ELSE [agent |-> FromToml(file.agent, AgentFields),
          discovery |-> FromToml(file.discovery, DiscoveryFields)]

\* AnnounceSettings of a config file, and of camp announce's own options.
FromConfigFile(config) ==
    [f \in AgentFields \cup DiscoveryFields |->
        CASE f = "metadata" -> Pairs(config.agent.metadata)
          [] f \in AgentFields \ {"metadata"} -> config.agent[f]
          [] f \in DiscoveryFields -> config.discovery[f]]
AnnounceSettings(options) ==
    [f \in AgentFields \cup DiscoveryFields |-> options[f]]

\* clap's defaults; it requires an id and a port.
AnnounceOptions(command) ==
    [command EXCEPT !.role = OrElse(@, "agent"),
                    !.project = OrElse(@, "default"),
                    !.branch = OrElse(@, "unknown")]

\* What init settles on, and such options with the interfaces of others.
Resolutions == {Resolved(command, env) : command \in Commands, env \in Environments}
Mixed(options, enabling, disabling) ==
    [options EXCEPT !.enable_interface = enabling.enable_interface,
                    !.disable_interface = disabling.disable_interface]
Mixtures == {Mixed(o, e, d) : o, e, d \in Resolutions}

\* Some file, options or config are not what stands for none or a broken one.
ASSUME SentinelAssumption ==
    /\ None \notin Seq(FileLine) /\ Unset \notin Settled
    /\ \A o \in Mixtures : /\ ConfigOf(o) # Invalid
                           /\ Written(ConfigOf(o)) \notin {None, Empty, Torn}

-----------------------------------------------------------------------------
(* From settings to a node. *)

\* A selector is KIND:VALUE, or has no colon and so no kind.
ParseNetworkInterface(selector) ==
    IF selector.kind = Unset
    THEN IF selector.value \in {"all", "ipv4", "ipv6", "loopback-v4",
                                "loopback-v6"}
         THEN [kind |-> selector.value, value |-> Unset]
         ELSE [kind |-> "name", value |-> selector.value]
    ELSE IF \/ selector.kind = "name"
            \/ selector.kind = "addr" /\ selector.value \in Addresses
            \/ /\ selector.kind \in {"index-v4", "index-v6"}
               /\ selector.value \in Indexes
         THEN selector ELSE Invalid

ApplyInterfaces(b, enabled, disabled) ==
    LET parsed == [i \in DOMAIN enabled |-> ParseNetworkInterface(enabled[i])]
        excluded ==
            [i \in DOMAIN disabled |-> ParseNetworkInterface(disabled[i])]
    IN  IF \/ \E i \in DOMAIN parsed : parsed[i] = Invalid
           \/ \E i \in DOMAIN excluded : excluded[i] = Invalid
        THEN Invalid
        ELSE DisableInterfaces(EnableInterfaces(b, parsed), excluded)

\* Fault: the accepted secrets are not passed on.
ApplySigningSecret(b, secret, accepted, mode) ==
    IF secret = Unset THEN b ELSE WithSharedSecret(b, secret, <<>>, mode)

\* Accepted secrets without a secret of one's own are dropped.
ApplySharedSecret(b, secret, accepted, mode) ==
    IF secret = Unset THEN b ELSE WithSharedSecret(b, secret, accepted, mode)

\* Fault: the first of a key stays.
ApplyFirstMetadata(b, metadata) ==
    WithMetadata(b, [key \in KeysIn(metadata) |->
                        metadata[Min(PlacesOf(metadata, key))].value])

\* An insert per pair: the last of a key stays.
ApplyMetadata(b, metadata) == WithMetadata(b, Collect(metadata))

Secured(b, d) ==
    ApplyInterfaces(ApplySharedSecret(b, d.shared_secret,
                                      d.shared_secret_accept,
                                      d.shared_secret_mode),
                    d.enable_interface, d.disable_interface)

Built(b) == IF b = Invalid THEN Invalid ELSE BuildConfig(b)

\* run_announce_with_settings, up to the node that is started.
AnnouncedConfig(s) ==
    LET b == [DefaultBuilder EXCEPT
                 !.agent_id = s.id, !.role = s.role, !.project = s.project,
                 !.branch = s.branch, !.port = s.port,
                 !.mdns_port = s.mdns_port, !.service_type = s.service_type,
                 !.status = s.status, !.heartbeat = s.heartbeat_ms,
                 !.ttl = s.ttl_ms, !.capabilities = s.capabilities]
    IN  Built(Secured(ApplyMetadata(b, s.metadata), s))

\* resolve_discovery_options with --config: other options are not looked at.
ResolveDiscovery(file) ==
    IF ReadCampConfig(file) = Invalid THEN Invalid
    ELSE ReadCampConfig(file).discovery

\* build_observer.
ObserverConfig(d) ==
    IF d = Invalid THEN Invalid
    ELSE Built(Secured(
            [DiscoverOnly(DefaultBuilder) EXCEPT
                !.agent_id = Fresh, !.role = "observer",
                !.project = "observer", !.branch = "watch", !.port = 1,
                !.mdns_port = d.mdns_port, !.service_type = d.service_type,
                !.heartbeat = 200, !.ttl = 2000], d))

Running == {s \in Slots : announcer[s] # Unset}

\* discover_agents, when every announcement has arrived and none has expired
\* (module Mesh: within the observer's TTL).
Discovered(observer) ==
    {AgentInfo(announcer[s].config) :
        s \in {r \in Running : Hears(observer, announcer[r].config)}}

-----------------------------------------------------------------------------
(* camp init. *)

IdleInit == [pc |-> "idle", options |-> Unset, seen |-> <<>>, alone |-> FALSE]

ProjectInit ==
    /\ config_file = None /\ requested = Unset
    /\ \E line \in UserLines : agents_file \in {None, <<Line(line)>>}
    /\ text = LinesIn(agents_file)
    /\ init = [i \in Inits |-> IdleInit]
    /\ announcer = [s \in Slots |-> Unset]
    /\ runs = 0 /\ edits = 0
    /\ intact = TRUE /\ complete = FALSE

Step(i, from, to) ==
    /\ init[i].pc = from
    /\ init' = [init EXCEPT ![i].pc = to]
    /\ UNCHANGED <<announcer, runs, edits>>

\* An existing config file is refused without --force.
BeginInit(i, command, force, env) ==
    /\ init[i].pc = "idle" /\ runs < MaxInits
    /\ config_file = None \/ force
    /\ init' = [j \in Inits |->
          IF j = i THEN [pc |-> "open_config", options |-> Resolved(command, env),
                         seen |-> <<>>,
                         alone |-> \A k \in Inits : init[k].pc = "idle"]
                   ELSE [init[j] EXCEPT !.alone = FALSE]]
    /\ runs' = runs + 1
    /\ complete' = FALSE
    /\ UNCHANGED <<files, announcer, edits, requested, text, intact>>

OpenConfig(i) ==
    /\ Step(i, "open_config", "write_config")
    /\ config_file' = Empty /\ requested' = Unset
    /\ UNCHANGED <<agents_file, text, intact, complete>>

(***************************************************************************)
(* Another init may have written since the file was opened.  Then the end  *)
(* of a longer text stays: blank or in a key nobody knows, which is        *)
(* ignored, in the middle of a line or with keys that are there twice,     *)
(* which is Torn, or with whole interface keys, the last of the file and   *)
(* the only ones of them that may be left out (camp.rs:408-417).           *)
(***************************************************************************)
InterfaceFields == {"enable_interface", "disable_interface"}

Leftover(options, old) ==
    {tail \in SUBSET InterfaceFields :
        /\ tail # {}
        /\ \A f \in tail : old[f] # <<>> /\ options[f] = <<>>
        /\ old.disable_interface # <<>> => "disable_interface" \in tail}

WriteConfig(i) ==
    /\ Step(i, "write_config", "read_guidance")
    /\ LET options == init[i].options
           old == ReadCampConfig(config_file)
       IN  \/ /\ config_file' = Written(ConfigOf(options))
              /\ requested' = options
           \/ /\ config_file # Empty
              /\ config_file' = Torn /\ requested' = Unset
           \/ /\ old # Invalid
              /\ \E tail \in Leftover(options, old.discovery) :
                    LET From(f) == IF f \in tail THEN old.discovery ELSE options IN
                    config_file' = Written(ConfigOf(
                        Mixed(options, From("enable_interface"),
                                       From("disable_interface"))))
              /\ requested' = Unset
    /\ UNCHANGED <<agents_file, text, intact, complete>>

Opened(i) == \E j \in Inits \ {i} : init[j].pc = "write_guidance"

ReadGuidance(i) ==
    /\ init[i].pc = "read_guidance"
    /\ \E seen \in ReadOrEmpty(agents_file) :
          /\ init' = [init EXCEPT ![i].pc = "open_guidance", ![i].seen = seen]
          /\ intact' = (intact /\ agents_file \in {seen, None} /\ ~Opened(i))
    /\ UNCHANGED <<files, announcer, runs, edits, requested, text, complete>>

OpenGuidance(i) ==
    /\ Step(i, "open_guidance", "write_guidance")
    /\ agents_file' = <<>>
    /\ intact' = (intact /\ ~Opened(i))
    /\ UNCHANGED <<config_file, requested, text, complete>>

WriteGuidance(i) ==
    /\ init[i].pc = "write_guidance"
    /\ LET updated == ReplaceMarkedBlock(init[i].seen,
                                         Guidance(init[i].options.project))
           rest == SubSeq(agents_file, Len(updated) + 1, Len(agents_file))
       IN  agents_file' = updated \o rest
    /\ init' = [init EXCEPT ![i] = IdleInit]
    /\ complete' = (init[i].alone /\ requested # Unset)
    /\ UNCHANGED <<config_file, announcer, runs, edits, requested, text, intact>>

\* Killed, or a failing open or write: the file being written stays empty.
Dies(i) ==
    /\ init[i].pc # "idle"
    /\ init' = [init EXCEPT ![i] = IdleInit]
    /\ intact' = (intact /\ init[i].pc # "write_guidance")
    /\ UNCHANGED <<files, announcer, runs, edits, requested, text, complete>>

-----------------------------------------------------------------------------
(* The user. *)

\* At most one block, whole and with nothing of the user's in it.
WellMarked(lines) ==
    LET marks == DOMAIN lines \ LinePlaces(lines) IN
    \/ marks = {}
    \/ \E k \in marks : /\ marks = k..(k + 2)
                        /\ lines[k] = Start /\ lines[k + 2] = End
                        /\ lines[k + 1].kind = "guidance"

\* An edit that is not overwritten makes what it leaves the user's text.
Saves(lines) ==
    /\ edits < MaxEdits /\ edits' = edits + 1
    /\ agents_file' = lines
    /\ text' = LinesIn(lines)
    /\ intact' = /\ WellMarked(lines)
                 /\ \A i \in Inits :
                       init[i].pc \notin {"open_guidance", "write_guidance"}
    /\ complete' = (complete /\ WellMarked(lines))
    /\ UNCHANGED <<config_file, init, announcer, runs, requested>>

InsertLine(k, line) ==
    /\ agents_file # None /\ k <= Len(agents_file) + 1
    /\ Saves(InsertAt(agents_file, k, Line(line)))

RemoveLine(k) ==
    /\ agents_file # None /\ k <= Len(agents_file)
    /\ Saves(RemoveAt(agents_file, k))

\* An init that has it open writes into what is no file any more.
DeleteConfig ==
    /\ config_file # None /\ edits < MaxEdits
    /\ config_file' = None /\ requested' = Unset
    /\ init' = [i \in Inits |->
                  IF init[i].pc # "write_config" THEN init[i]
                  ELSE [init[i] EXCEPT !.pc = "read_guidance"]]
    /\ complete' = FALSE
    /\ edits' = edits + 1
    /\ UNCHANGED <<agents_file, announcer, runs, text, intact>>

-----------------------------------------------------------------------------
(* Announcers.  The guidance asks for one per agent; one whose settings    *)
(* are rejected ends at once and is left out.                              *)

GoesOnline(s, config, options) ==
    /\ announcer[s] = Unset /\ config # Invalid
    /\ \A r \in Running : announcer[r].config.agent_id # config.agent_id
    /\ announcer' = [announcer EXCEPT ![s] = [config |-> config,
                                              options |-> options]]
    /\ UNCHANGED <<files, init, runs, edits, history>>

\* run_up.  Nobody asked for what is left of two texts: options are Unset.
Up(s) ==
    /\ ReadCampConfig(config_file) # Invalid
    /\ GoesOnline(s, AnnouncedConfig(FromConfigFile(ReadCampConfig(config_file))),
                  requested)

\* run_announce.
Announce(s, command) ==
    /\ command.id # Unset /\ command.port # Unset
    /\ LET options == AnnounceOptions(command) IN
       GoesOnline(s, AnnouncedConfig(AnnounceSettings(options)), options)

\* Ctrl-C, or the end of --duration-secs.
GoesOffline(s) ==
    /\ announcer[s] # Unset
    /\ announcer' = [announcer EXCEPT ![s] = Unset]
    /\ UNCHANGED <<files, init, runs, edits, history>>

ProjectNext ==
    \/ \E i \in Inits :
          \/ \E command \in Commands, force \in BOOLEAN, env \in Environments :
                BeginInit(i, command, force, env)
          \/ OpenConfig(i) \/ WriteConfig(i)
          \/ ReadGuidance(i) \/ OpenGuidance(i) \/ WriteGuidance(i)
          \/ Dies(i)
    \/ \E k \in 1..(3 * MaxInits + MaxEdits + 1) :
          RemoveLine(k) \/ \E line \in UserLines : InsertLine(k, line)
    \/ DeleteConfig
    \/ \E s \in Slots :
          \/ Up(s) \/ GoesOffline(s)
          \/ \E command \in Commands : Announce(s, command)

ProjectSpec == ProjectInit /\ [][ProjectNext]_projectVars

-----------------------------------------------------------------------------
(* Properties. *)

ProjectTypeOK ==
    /\ requested # Unset => config_file \notin {None, Empty, Torn}
    /\ requested = Unset \/ DOMAIN requested = AgentFields \cup DiscoveryFields
    /\ agents_file = None \/ \A k \in DOMAIN agents_file :
          agents_file[k].kind \in {"line", "start", "guidance", "end"}
    /\ \A i \in Inits :
          init[i].pc \in {"idle", "open_config", "write_config",
                          "read_guidance", "open_guidance", "write_guidance"}
    /\ \A s \in Running, f \in RequiredFields :
          announcer[s].config[f] \in Texts
          /\ Trim[announcer[s].config[f]] = announcer[s].config[f]
    /\ {intact, complete} \subseteq BOOLEAN

(***************************************************************************)
(* camp init replaces its own block and keeps everything else of AGENTS.md *)
(* in its place, however often it is run and whatever the user adds or     *)
(* removes around the block (camp.rs:1248-1312).  What it does not promise *)
(* is in `intact`: no other init and no edit between its read and its      *)
(* write, no kill within the write, a read that succeeds, whole markers.   *)
(***************************************************************************)
UserTextSurvives ==
    intact /\ (\A i \in Inits : init[i].pc # "write_guidance")
        => LinesIn(agents_file) = text

(***************************************************************************)
(* When an init has run alone, the guidance names the project of the       *)
(* config file, also in a file whose markers were damaged, and is the only *)
(* one in a file whose markers were whole (camp.rs:545-546,1292-1312).     *)
(***************************************************************************)
GuidanceIsCurrent ==
    complete =>
        LET config == ReadCampConfig(config_file) IN
        /\ config # Invalid
        /\ \E k \in 1..(Len(agents_file) - 2) :
              SubSeq(agents_file, k, k + 2) = Guidance(config.agent.project)
        /\ intact => Cardinality({k \in DOMAIN agents_file :
                                     agents_file[k].kind = "guidance"}) = 1

(***************************************************************************)
(* `camp up` announces what `camp announce` would with the options init    *)
(* was given: nothing is lost, reordered or defaulted otherwise on the way *)
(* through the config file (camp.rs:452-475,506-586,735-793).  A file with *)
(* the remains of an overlapping init's text makes no such promise.        *)
(***************************************************************************)
UpRepeatsAnnounce ==
    \A s \in Running :
        announcer[s].options # Unset =>
            announcer[s].config
              = AnnouncedConfig(AnnounceSettings(announcer[s].options))

\* The options camp who and camp list filter by, and what leaves one out.
SingleFilters == ExactFields \cup {"capability"}
RepeatedFilters == {"metadata", "metadata_keys", "metadata_key_prefixes",
                    "metadata_prefixes", "metadata_regexes"}
AnyAgent == [f \in SingleFilters \cup RepeatedFilters |->
                IF f \in SingleFilters THEN Unset ELSE {}]
ASSUME FilterAssumption == \A f \in Filters : DOMAIN f = DOMAIN AnyAgent

WhoOf(project) == [AnyAgent EXCEPT !.project = Trim[project]]

SameMesh(o, r) ==
    /\ Trim[o.project] = Trim[r.project]
    /\ Trim[o.service_type] = Trim[r.service_type] /\ o.mdns_port = r.mdns_port
    /\ \/ r.shared_secret = Unset \/ r.shared_secret_mode = "sign-only"
       \/ /\ o.shared_secret # Unset
          /\ Trim[o.shared_secret] \in TrimmedSet(r.shared_secret_accept)
                                       \cup {Trim[r.shared_secret]}

(***************************************************************************)
(* The guidance's `camp who --config F --project P` finds every agent of   *)
(* the project, padded spellings and agents that went online under an      *)
(* earlier config included, as long as the config at hand accepts their    *)
(* secret (camp.rs:588-600,795-820,1272-1290).  P is one word to a shell.  *)
(***************************************************************************)
GuidanceFindsAgents ==
    LET observer == ObserverConfig(ResolveDiscovery(config_file)) IN
    complete /\ observer # Invalid =>
        \A s \in Running :
            /\ announcer[s].options # Unset
            /\ SameMesh(announcer[s].options, requested)
            => \E found \in RunList(Discovered(observer), WhoOf(requested.project)) :
                found.id = announcer[s].config.agent_id

\* What of the filters GET /agents has a query parameter for.
InQuery(f) == [g \in DOMAIN f |-> IF g \in SingleFilters THEN f[g] ELSE {}]

(***************************************************************************)
(* The three implementations of the filters agree, asked in the same       *)
(* words: camp list returns what the library's queries together return,    *)
(* and nothing for a pattern that is no regex; GET /agents what camp list  *)
(* does, but nobody for a status that is not spelt as it is stored         *)
(* (camp.rs:822-932,1097-1106, registry.rs:197-312).                       *)
(***************************************************************************)
AnswersAgree ==
    LET agents == {AgentInfo(announcer[s].config) : s \in Running} IN
    \A f \in Filters :
        /\ RunList(agents, Parsed(f)) = LibraryList(agents, Parsed(f))
        /\ ListAgents(agents, f) =
              IF f.status = Unset \/ ParseStatus(f.status) = f.status
              THEN RunList(agents, Parsed(InQuery(f))) ELSE {}
        /\ RunGet(agents, f.id) = GetAllBy(agents, "id", f.id)
=============================================================================
