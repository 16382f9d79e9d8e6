----------------------------- MODULE NodeConfig -----------------------------
(***************************************************************************)
(* From a builder to the configuration a node starts with                  *)
(* (src/builder.rs, src/config.rs): what is stored, what is normalised and *)
(* what is rejected.  No state: a builder and a configuration are records. *)
(*                                                                         *)
(* Texts are opaque, Trim is str::trim.  Which check rejects is left out:  *)
(* every error is Invalid.  A sorted list without duplicates is a set.     *)
(***************************************************************************)
EXTENDS Integers, Sequences, SequencesExt, TLC

CONSTANTS
    Texts,
    Trim,           \* each text's trimmed form, or Empty
    Empty,
    Unset,          \* Option::None
    Invalid,        \* a Result that is an error
    WithComma,      \* the texts that contain a comma
    ServiceTypes,   \* the texts is_valid_service_type accepts
    Addresses,      \* the texts that parse as an IP address
    Indexes,        \* ... and as an interface index
    Fresh           \* what Uuid::new_v4 returns

ASSUME ConfigTextAssumption ==
    /\ Trim \in [Texts -> Texts \cup {Empty}] /\ Empty \notin Texts
    /\ \A t \in Texts : Trim[t] # Empty => Trim[Trim[t]] = Trim[t]
    /\ Unset \notin Texts /\ Invalid \notin Texts
    /\ WithComma \cup ServiceTypes \cup Addresses \cup Indexes \subseteq Texts
    /\ Fresh \in Texts /\ Trim[Fresh] = Fresh

\* A shared secret as it is asked for, a sequence, and as a node has it, a set.
Auth(accepted) == [signing: Texts, accepted: accepted,
                   mode: {"sign-only", "sign-and-verify"}]

\* Some of it is not None.
ASSUME AuthAssumption ==
    Unset \notin Auth(Seq(Texts)) /\ Unset \notin Auth(SUBSET Texts)

Statuses == {"idle", "busy", "error"}
ReservedKeys == {"agent_id", "role", "current_project", "current_branch",
                 "status", "capabilities", "zcm_auth", "zcm_sig"}
DefaultServiceType == "_agent-mesh._tcp.local."
DefaultMdnsPort == 5353

TrimmedSet(seq) == {Trim[seq[i]] : i \in DOMAIN seq}

-----------------------------------------------------------------------------
(* ZeroConfMeshBuilder; times in milliseconds. *)

DefaultBuilder ==
    [agent_id |-> Unset, role |-> "agent", project |-> "default",
     branch |-> "unknown", port |-> Unset, mdns_port |-> DefaultMdnsPort,
     service_type |-> DefaultServiceType, status |-> "idle",
     heartbeat |-> 30000, ttl |-> 120000, event_capacity |-> 256,
     metadata |-> <<>>, capabilities |-> <<>>, advertise |-> TRUE,
     enabled |-> <<>>, disabled |-> <<>>, auth |-> Unset]

\* The setters that replace one field, metadata_map and capabilities included.
With(b, field, value) == [b EXCEPT ![field] = value]

\* The setters that add one: metadata, enable_interface and disable_interface,
\* each called for all that is to be added.
WithMetadata(b, map) == [b EXCEPT !.metadata = map @@ @]
WithCapability(b, capability) ==
    [b EXCEPT !.capabilities = Append(@, capability)]
DiscoverOnly(b) == With(b, "advertise", FALSE)
EnableInterfaces(b, interfaces) == [b EXCEPT !.enabled = @ \o interfaces]
DisableInterfaces(b, interfaces) == [b EXCEPT !.disabled = @ \o interfaces]

\* shared_secret*: without a rotation, `accepted` is empty.
WithSharedSecret(b, secret, accepted, mode) ==
    With(b, "auth", [signing |-> secret, accepted |-> accepted, mode |-> mode])

-----------------------------------------------------------------------------
(* ZeroConfConfig. *)

\* SharedSecretAuth::with_rotation; new is that with nothing else accepted.
SharedSecretAuth(auth) ==
    LET accepted == TrimmedSet(auth.accepted) \cup {Trim[auth.signing]} IN
    IF Empty \in accepted THEN Invalid
    ELSE [signing |-> Trim[auth.signing], accepted |-> accepted,
          mode |-> auth.mode]

\* canonicalize_capabilities.
Canonical(capabilities) ==
    IF \E i \in DOMAIN capabilities :
          capabilities[i] \in WithComma \/ Trim[capabilities[i]] = Empty
    THEN Invalid ELSE TrimmedSet(capabilities)

RequiredFields == {"agent_id", "role", "project", "branch", "service_type"}

\* ZeroConfConfig::validate.
Validates(c) ==
    /\ c.port # 0 /\ c.mdns_port # 0
    /\ c.ttl > c.heartbeat
    /\ c.event_capacity # 0
    /\ c.service_type \in ServiceTypes
    /\ \A key \in DOMAIN c.metadata : Trim[key] # Empty /\ key \notin ReservedKeys

\* Fault: required fields are checked but kept as they were given.
NewConfigUntrimmed(b) ==
    IF \/ \E f \in RequiredFields : Trim[b[f]] = Empty
       \/ ~Validates(b)
    THEN Invalid ELSE b

\* ZeroConfConfig::new: required fields are trimmed, then all is validated.
NewConfig(b) ==
    LET c == [f \in DOMAIN b |-> IF f \in RequiredFields THEN Trim[b[f]]
                                                         ELSE b[f]] IN
    IF (\E f \in RequiredFields : c[f] = Empty) \/ ~Validates(c)
    THEN Invalid ELSE c

\* build_config: a missing id is generated, a missing port is an error.
BuildConfig(b) ==
    LET id == IF b.agent_id = Unset THEN Fresh ELSE b.agent_id
        capabilities == Canonical(b.capabilities)
        auth == IF b.auth = Unset THEN Unset ELSE SharedSecretAuth(b.auth)
    IN  IF capabilities = Invalid \/ auth = Invalid \/ b.port = Unset
        THEN Invalid
        ELSE NewConfig([b EXCEPT !.agent_id = id, !.auth = auth,
                                 !.capabilities = capabilities])

(***************************************************************************)
(* local_announcement, as a peer's registry shows it once it went through  *)
(* the TXT properties and back (module Announcement): the typed fields and *)
(* the metadata that repeats them; the keys of the capabilities and of the *)
(* signature are left out.                                                 *)
(***************************************************************************)
AgentInfo(c) ==
    [id |-> c.agent_id, role |-> c.role, project |-> c.project,
     branch |-> c.branch, status |-> c.status,
     capabilities |-> c.capabilities,
     metadata |-> "agent_id" :> c.agent_id @@ "role" :> c.role
                  @@ "current_project" :> c.project
                  @@ "current_branch" :> c.branch @@ "status" :> c.status
                  @@ c.metadata]

\* run_listener of a node configured as c meets what one configured as d says.
Hears(c, d) ==
    /\ d.advertise
    /\ c.service_type = d.service_type /\ c.mdns_port = d.mdns_port
    /\ c.agent_id # d.agent_id
    /\ c.auth # Unset /\ c.auth.mode = "sign-and-verify" =>
          d.auth # Unset /\ d.auth.signing \in c.auth.accepted
=============================================================================
