---------------------------- MODULE AgentQueries ----------------------------
(***************************************************************************)
(* The three ways to ask for agents: the library's queries                 *)
(* (src/registry.rs, src/mesh.rs), the filters of camp list and get, and   *)
(* those of the REST bridge (src/bin/camp.rs).  Each is a function of what *)
(* the registry holds, a set of agents with one per id: the code sorts its *)
(* answers by id.                                                          *)
(***************************************************************************)
EXTENDS NodeConfig

CONSTANTS
    Lower,      \* str::to_ascii_lowercase of a text
    PrefixesOf,   \* the prefixes of each text
    Language    \* the texts a pattern matches, Invalid if it is no regex

ASSUME QueryAssumption ==
    /\ Lower \in [Texts -> Texts]
    /\ PrefixesOf \in [Texts -> SUBSET (Texts \cup {Empty})]
    /\ \A p \in DOMAIN Language :
          Language[p] = Invalid \/ Language[p] \subseteq Texts
    /\ \A s \in Statuses : s \in Texts /\ Trim[s] = s /\ Lower[s] = s

-----------------------------------------------------------------------------
(* The library. *)

Keys(agent) == DOMAIN agent.metadata
Value(agent, key) ==
    IF key \in Keys(agent) THEN agent.metadata[key] ELSE Unset
HasCapability(agent, capability) == capability \in agent.capabilities

\* list, get, and get_all_by_project, _branch, _status and _role.
GetAllBy(agents, field, value) == {a \in agents : a[field] = value}
GetAllByProjectAndBranch(agents, project, branch) ==
    {a \in agents : a.project = project /\ a.branch = branch}
GetAllWithCapability(agents, capability) ==
    {a \in agents : HasCapability(a, capability)}

GetAllWithMetadataKey(agents, key) == {a \in agents : key \in Keys(a)}
GetAllWithMetadataKeyPrefix(agents, prefix) ==
    {a \in agents : \E key \in Keys(a) : prefix \in PrefixesOf[key]}
GetAllByMetadata(agents, key, value) == {a \in agents : Value(a, key) = value}
GetAllByMetadataPrefix(agents, key, prefix) ==
    {a \in agents : key \in Keys(a) /\ prefix \in PrefixesOf[a.metadata[key]]}
GetAllByMetadataRegex(agents, key, pattern) ==
    IF Language[pattern] = Invalid THEN [error |-> TRUE]
    ELSE [error |-> FALSE,
          found |-> {a \in agents : Value(a, key) \in Language[pattern]}]

-----------------------------------------------------------------------------
(* camp list (alias who) and camp get.  An option is a text or Unset, a    *)
(* repeatable one a set.                                                   *)

ParseStatus(text) ==
    LET word == Trim[text] IN
    IF word # Empty /\ Lower[word] \in Statuses THEN Lower[word] ELSE Invalid

\* KEY=VALUE, split at the first '='.
ParseKeyValue(pair) == [key |-> Trim[pair.key], value |-> Trim[pair.value]]

\* ListCommand's value_parsers; a status they reject is Invalid.
Parsed(words) ==
    [words EXCEPT !.status = IF @ = Unset THEN Unset ELSE ParseStatus(@),
                  !.metadata = {ParseKeyValue(m) : m \in @},
                  !.metadata_prefixes = {ParseKeyValue(m) : m \in @},
                  !.metadata_regexes = {ParseKeyValue(m) : m \in @}]

ExactFields == {"id", "role", "project", "branch", "status"}

\* Fault: a pattern that is no regex filters nothing.
MatchesRegexOrBad(agent, m) ==
    \/ Language[m.value] = Invalid
    \/ Value(agent, m.key) \in Language[m.value]

MatchesRegex(agent, m) ==
    /\ Language[m.value] # Invalid
    /\ Value(agent, m.key) \in Language[m.value]

MatchesFilters(agent, command) ==
    /\ \A f \in ExactFields : command[f] \in {Unset, agent[f]}
    /\ command.capability # Unset => HasCapability(agent, command.capability)
    /\ \A m \in command.metadata : Value(agent, m.key) = m.value
    /\ command.metadata_keys \subseteq Keys(agent)
    /\ \A prefix \in command.metadata_key_prefixes :
          \E key \in Keys(agent) : prefix \in PrefixesOf[key]
    /\ \A m \in command.metadata_prefixes :
          m.key \in Keys(agent) /\ m.value \in PrefixesOf[agent.metadata[m.key]]
    /\ \A m \in command.metadata_regexes : MatchesRegex(agent, m)

RunList(agents, command) == {a \in agents : MatchesFilters(a, command)}
RunGet(agents, id) == {a \in agents : a.id = id}

-----------------------------------------------------------------------------
(* GET /agents and /agents/{id}: a status is compared as it is written.    *)

MatchesAgentQuery(agent, query) ==
    /\ \A f \in ExactFields : query[f] \in {Unset, agent[f]}
    /\ query.capability # Unset => HasCapability(agent, query.capability)

ListAgents(agents, query) == {a \in agents : MatchesAgentQuery(a, query)}

-----------------------------------------------------------------------------

(***************************************************************************)
(* What camp list's filters stand for: the agents that every library query *)
(* they name returns, none if one of those is an error.                    *)
(***************************************************************************)
LibraryList(agents, command) ==
    {a \in agents :
        /\ \A f \in ExactFields :
              command[f] # Unset => a \in GetAllBy(agents, f, command[f])
        /\ command.capability # Unset =>
              a \in GetAllWithCapability(agents, command.capability)
        /\ \A m \in command.metadata :
              a \in GetAllByMetadata(agents, m.key, m.value)
        /\ \A key \in command.metadata_keys :
              a \in GetAllWithMetadataKey(agents, key)
        /\ \A prefix \in command.metadata_key_prefixes :
              a \in GetAllWithMetadataKeyPrefix(agents, prefix)
        /\ \A m \in command.metadata_prefixes :
              a \in GetAllByMetadataPrefix(agents, m.key, m.value)
        /\ \A m \in command.metadata_regexes :
              LET result == GetAllByMetadataRegex(agents, m.key, m.value) IN
              ~result.error /\ a \in result.found}
=============================================================================
