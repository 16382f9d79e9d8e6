---------------------------- MODULE Announcement ----------------------------
(***************************************************************************)
(* The announcement of one agent (src/types.rs): typed fields, the         *)
(* metadata that repeats them under canonical keys beside the free entries,*)
(* a shared-secret signature, and the TXT properties a peer parses it back *)
(* from.  The agent edits it with the update_* calls, is restarted with    *)
(* other secrets while the fleet rotates them, and so is the peer.         *)
(*                                                                         *)
(* Texts are opaque: Trim says what str::trim makes of one, FirstLine and  *)
(* OtherLines what its newlines make of it.  A capability list, sorted and *)
(* without duplicates wherever it is stored, is a set.  zcm_auth, always   *)
(* written together with zcm_sig, is left out, and so are the fields that  *)
(* never change: instance name, port and (unsigned) addresses.             *)
(*                                                                         *)
(* The network is taken to deliver TXT properties as they were sent, which *)
(* mdns-sd does for keys without `=` that differ not only in case, and for *)
(* entries of at most 255 bytes.                                           *)
(***************************************************************************)
EXTENDS Integers, Sequences, FiniteSets

CONSTANTS
    Texts,        \* strings: field values, metadata keys and values
    Trim,         \* str::trim: each text's trimmed form, or Empty
    Empty,        \* the empty string
    Missing,      \* a key that is not in the map
    Invalid,      \* an announcement that could not be built
    Inputs,       \* field and metadata values callers pass
    KeyInputs,    \* metadata keys callers pass
    CapInputs,    \* capabilities callers pass
    WithComma,    \* the texts that contain a comma
    FirstLine,    \* each text up to its first newline
    OtherLines,   \* the lines after that, as the <<field, value>> they spell
    KeyRank,      \* each free key's place in the order of strings
    Profile,      \* the fields the configuration starts with
    ProfileCaps,  \* the capabilities it starts with
    FreeMetadata, \* the metadata it starts with
    OldSecret, NewSecret,
    MaxEdits      \* bound: updates in all

Statuses == {"idle", "busy", "error"}
TypedKeys == {"agent_id", "role", "current_project", "current_branch", "status"}

\* Fault: the status key may be set like any other.
ReservedButStatus == (TypedKeys \ {"status"}) \cup {"capabilities", "zcm_sig"}

\* is_reserved_metadata_key.
ReservedKeys == TypedKeys \cup {"capabilities", "zcm_sig"}

Names == {Trim[t] : t \in Texts} \ {Empty}
Caps == {Trim[c] : c \in CapInputs \ WithComma} \ {Empty}

\* Keys of the configuration are kept as given, those of updates trimmed.
FreeKeys == {t \in Texts : t \notin ReservedKeys /\ Trim[t] # Empty
                            /\ \E k \in KeyInputs : t \in {k, Trim[k]}}

ASSUME TextAssumption ==
    /\ Trim \in [Texts -> Texts \cup {Empty}] /\ Empty \notin Texts
    /\ \A t \in Names : Trim[t] = t
    /\ Inputs \cup KeyInputs \cup CapInputs \cup Statuses \subseteq Texts
    /\ Statuses \subseteq Names

\* Keys and capabilities have no newline, and the names of statuses.
ASSUME LineAssumption ==
    /\ FirstLine \in [Texts -> Texts \cup {Empty}]
    /\ DOMAIN OtherLines = Texts /\ \A t \in Texts : Len(OtherLines[t]) \in Nat
    /\ \A t \in Statuses : FirstLine[t] = t /\ OtherLines[t] = <<>>
    /\ KeyRank \in [FreeKeys -> Nat]
    /\ \A k, l \in FreeKeys : KeyRank[k] = KeyRank[l] => k = l

ASSUME ProfileAssumption ==
    /\ ProfileCaps \subseteq Caps
    /\ Profile \in [TypedKeys -> Names] /\ Profile["status"] \in Statuses
    /\ FreeMetadata \in [FreeKeys -> Texts \cup {Missing}]
    /\ OldSecret # NewSecret /\ MaxEdits \in Nat

VARIABLES
    local_agent,   \* the announcement behind the node's lock
    on_air,        \* the TXT properties the network holds of it
    refresh_due,   \* an update has mutated it and not yet signed it
    signed,        \* what the agent has signed since it was started
    stage, peer_stage,   \* how far the agent and its peer are in the rotation
    edits

vars == <<local_agent, on_air, refresh_due, signed, stage, peer_stage, edits>>

-----------------------------------------------------------------------------
(* Metadata. *)

MetadataKeys == ReservedKeys \cup FreeKeys
Put(metadata, key, value) ==
    [k \in MetadataKeys |-> IF k = key THEN value ELSE metadata[k]]

\* sync_capabilities_metadata, capabilities_from_metadata.
SyncCapabilities(metadata, capabilities) ==
    Put(metadata, "capabilities",
        IF capabilities = {} THEN Missing ELSE capabilities)

CapabilitiesOf(metadata) ==
    IF metadata["capabilities"] = Missing THEN {} ELSE metadata["capabilities"]

\* The typed fields written under their canonical keys.
WithTyped(metadata, typed) ==
    [k \in MetadataKeys |-> IF k \in TypedKeys THEN typed[k] ELSE metadata[k]]

\* AgentAnnouncement::new.
New(typed, metadata) ==
    IF \E k \in TypedKeys : Trim[typed[k]] = Empty THEN Invalid
    ELSE [typed |-> [k \in TypedKeys |-> Trim[typed[k]]],
          capabilities |-> CapabilitiesOf(metadata),
          metadata |-> SyncCapabilities(metadata, CapabilitiesOf(metadata))]

\* ZeroConfConfig::local_announcement.
LocalAnnouncement ==
    LET free == [k \in MetadataKeys |->
                   IF k \in FreeKeys THEN FreeMetadata[k] ELSE Missing]
    IN  New(Profile, SyncCapabilities(WithTyped(free, Profile), ProfileCaps))

ToTxt(a) == SyncCapabilities(WithTyped(a.metadata, a.typed), a.capabilities)

FromTxt(txt) ==
    IF \/ \E k \in TypedKeys : txt[k] = Missing
       \/ Trim[txt["status"]] \notin Statuses
    THEN Invalid
    ELSE New([k \in TypedKeys |-> txt[k]], txt)

-----------------------------------------------------------------------------
(* Signatures: an HMAC is its secret and the text it was made of, one line *)
(* `key=value` for each field and free entry, in a fixed order.  Nothing   *)
(* is escaped: a value with newlines spells lines of its own.  A text is   *)
(* the set of its numbered lines.                                          *)

Values == Texts \cup {Missing}

ASSUME MissingAssumption ==
    Missing \notin Texts /\ \A capabilities \in SUBSET Caps : Missing # capabilities

PayloadKeys == TypedKeys \cup {"capabilities"} \cup FreeKeys

\* The lines of one field; an entry that is not there has none.
LinesOf(a, key) ==
    CASE key \in TypedKeys ->
           <<<<key, FirstLine[a.typed[key]]>>>> \o OtherLines[a.typed[key]]
      [] key = "capabilities" -> <<<<key, a.capabilities>>>>
      [] OTHER ->
           IF a.metadata[key] = Missing THEN <<>>
           ELSE <<<<key, FirstLine[a.metadata[key]]>>>> \o OtherLines[a.metadata[key]]

\* Where a field's lines come: the typed ones first, free keys as sorted.
Rank(key) ==
    CASE key = "agent_id" -> 0 [] key = "role" -> 1
      [] key = "current_project" -> 2 [] key = "current_branch" -> 3
      [] key = "status" -> 4 [] key = "capabilities" -> 5
      [] OTHER -> 6 + KeyRank[key]

\* The lines one after the other, each with its number.
Numbered(lines) ==
    LET places == UNION {{Rank(key)} \X DOMAIN lines[key] : key \in DOMAIN lines}
        Before(key) == Cardinality({p \in places : p[1] < Rank(key)})
    IN  UNION {{<<Before(key) + i, lines[key][i]>> : i \in DOMAIN lines[key]}
                  : key \in DOMAIN lines}

\* signature_payload, over the fields that are part of it.
Text(a, keys) == Numbered([key \in keys |-> LinesOf(a, key)])

\* Fault: the capabilities are not part of what is signed.
PayloadWithoutCapabilities(a) == Text(a, PayloadKeys \ {"capabilities"})

Payload(a) == Text(a, PayloadKeys)

\* SharedSecretAuth::with_rotation; new(secret) is that with no other secret.
WithRotation(signing, accepted) ==
    [signing |-> signing, accepted |-> accepted \cup {signing}]

Sign(a, auth) ==
    [a EXCEPT !.metadata = Put(a.metadata, "zcm_sig",
                               [secret |-> auth.signing, payload |-> Payload(a)])]

Verifies(a, auth) ==
    LET text == Payload(a) IN
    \E s \in auth.accepted :
        a.metadata["zcm_sig"] = [secret |-> s, payload |-> text]

(***************************************************************************)
(* The configurations a node is restarted with: it accepts the new secret, *)
(* signs with it, and accepts the old one no longer.  The rotation of      *)
(* README.md:1060-1084 leaves the first of these restarts out.             *)
(***************************************************************************)
AuthAt(s) == CASE s = 0 -> WithRotation(OldSecret, {})
               [] s = 1 -> WithRotation(OldSecret, {NewSecret})
               [] s = 2 -> WithRotation(NewSecret, {OldSecret})
               [] s = 3 -> WithRotation(NewSecret, {})
Restarts(s) == IF s = 0 THEN {1, 2} ELSE {s + 1}
Auth == AuthAt(stage)

-----------------------------------------------------------------------------

\* from_config: the first announcement, signed.
Started(s) == Sign(LocalAnnouncement, AuthAt(s))

Init ==
    /\ stage = 0 /\ peer_stage = 0
    /\ local_agent = Started(0) /\ on_air = ToTxt(local_agent)
    /\ signed = {local_agent}
    /\ refresh_due = FALSE /\ edits = 0

\* mutate_local_agent with a mutator that succeeds.
Mutate(a) ==
    /\ edits < MaxEdits
    /\ local_agent' = a
    /\ refresh_due' = TRUE
    /\ edits' = edits + 1
    /\ UNCHANGED <<on_air, signed, stage, peer_stage>>

\* Fault: the canonical metadata key is forgotten.
SetFieldOnly(key, value) ==
    /\ Trim[value] # Empty
    /\ Mutate([local_agent EXCEPT !.typed[key] = Trim[value]])

\* set_project, set_branch.
SetField(key, value) ==
    /\ Trim[value] # Empty
    /\ Mutate([local_agent EXCEPT !.typed[key] = Trim[value],
                                  !.metadata[key] = Trim[value]])

SetStatus(status) ==
    Mutate([local_agent EXCEPT !.typed["status"] = status,
                               !.metadata["status"] = status])

SetMetadata(key, value) ==
    /\ Trim[key] \notin ReservedKeys \cup {Empty}
    /\ Mutate([local_agent EXCEPT !.metadata[Trim[key]] = value])

RemoveMetadata(key) ==
    /\ Trim[key] \notin ReservedKeys \cup {Empty}
    /\ Mutate([local_agent EXCEPT !.metadata[Trim[key]] = Missing])

WithCapabilities(capabilities) ==
    [local_agent EXCEPT !.capabilities = capabilities,
                        !.metadata = SyncCapabilities(local_agent.metadata,
                                                      capabilities)]

\* Fault: blank capabilities are let in.
SetCapabilitiesUnchecked(inputs) ==
    Mutate(WithCapabilities({Trim[c] : c \in inputs}))

\* normalize_capability: neither blank nor with a comma.
Normal(inputs) == \A c \in inputs : Trim[c] # Empty /\ c \notin WithComma

SetCapabilities(inputs) ==
    /\ Normal(inputs)
    /\ Mutate(WithCapabilities({Trim[c] : c \in inputs}))

AddCapability(input) ==
    /\ Normal({input})
    /\ Mutate(WithCapabilities(local_agent.capabilities \cup {Trim[input]}))

RemoveCapability(input) ==
    /\ Normal({input})
    /\ Mutate(WithCapabilities(local_agent.capabilities \ {Trim[input]}))

\* refresh_local_agent: sign under the lock ...
Refresh ==
    /\ refresh_due
    /\ local_agent' = Sign(local_agent, Auth)
    /\ signed' = signed \cup {local_agent'}
    /\ refresh_due' = FALSE
    /\ UNCHANGED <<on_air, stage, peer_stage, edits>>

\* ... and announce the clone, later, out of order or never.
Announce ==
    /\ on_air' \in {ToTxt(a) : a \in signed}
    /\ UNCHANGED <<local_agent, refresh_due, signed, stage, peer_stage, edits>>

\* The heartbeat announces whatever is there.
Heartbeat ==
    /\ on_air' = ToTxt(local_agent)
    /\ UNCHANGED <<local_agent, refresh_due, signed, stage, peer_stage, edits>>

\* A restart into a next stage, once nobody is behind.
Rotate ==
    /\ stage < 3 /\ stage <= peer_stage
    /\ stage' \in Restarts(stage)
    /\ local_agent' = Started(stage') /\ on_air' = ToTxt(local_agent')
    /\ signed' = {local_agent'}
    /\ refresh_due' = FALSE
    /\ UNCHANGED <<peer_stage, edits>>

RotatePeer ==
    /\ peer_stage < 3 /\ peer_stage <= stage
    /\ peer_stage' \in Restarts(peer_stage)
    /\ UNCHANGED <<local_agent, on_air, refresh_due, signed, stage, edits>>

Edit ==
    \/ \E key \in {"current_project", "current_branch"}, value \in Inputs :
          SetField(key, value)
    \/ \E status \in Statuses : SetStatus(status)
    \/ \E key \in KeyInputs : \/ \E value \in Inputs : SetMetadata(key, value)
                              \/ RemoveMetadata(key)
    \/ \E inputs \in SUBSET CapInputs : SetCapabilities(inputs)
    \/ \E input \in CapInputs : AddCapability(input) \/ RemoveCapability(input)

Next == Edit \/ Refresh \/ Announce \/ Heartbeat \/ Rotate \/ RotatePeer

Spec == Init /\ [][Next]_vars

-----------------------------------------------------------------------------
(* Properties. *)

IsAnnouncement(a) ==
    /\ DOMAIN a = {"typed", "capabilities", "metadata"}
    /\ a.typed \in [TypedKeys -> Names] /\ a.typed["status"] \in Statuses
    /\ a.capabilities \in SUBSET Caps
    /\ DOMAIN a.metadata = MetadataKeys
    /\ \A k \in FreeKeys : a.metadata[k] \in Values
    /\ a.metadata["zcm_sig"].secret \in {OldSecret, NewSecret}

TypeOK ==
    /\ IsAnnouncement(local_agent)
    /\ \A a \in signed : IsAnnouncement(a)
    /\ DOMAIN on_air = MetadataKeys
    /\ refresh_due \in BOOLEAN
    /\ {stage, peer_stage} \subseteq 0..3
    /\ edits \in 0..MaxEdits

(***************************************************************************)
(* docs/spec.md:290: updates do not "create divergent runtime state": the  *)
(* metadata says under every canonical key what the typed field says,      *)
(* after any sequence of updates (types.rs:205-310).                       *)
(***************************************************************************)
MetadataInStep ==
    /\ \A k \in TypedKeys : local_agent.metadata[k] = local_agent.typed[k]
    /\ local_agent.capabilities = CapabilitiesOf(local_agent.metadata)

(***************************************************************************)
(* A peer that parses what is announced gets the announcement the node     *)
(* keeps in its own registry, typed fields, metadata and signature, so     *)
(* both ends compare and publish the same card (types.rs:353-366,411-435). *)
(***************************************************************************)
SurvivesTxt == FromTxt(ToTxt(local_agent)) = local_agent

(***************************************************************************)
(* Whatever is on the air, between the edits and signatures of updates,    *)
(* failed announcements, heartbeats and restarts of both ends in mid       *)
(* rotation, the peer accepts it exactly when it carries a signature the   *)
(* agent, as it runs now, made of the same text (types.rs:328-349,         *)
(* config.rs:75-102): and without newlines in the values, exactly when the *)
(* agent has signed it as it stands.  Only a peer that has missed the      *)
(* first restart rejects all that is signed with the new secret.           *)
(***************************************************************************)
Heard == FromTxt(on_air)
Accepted == Verifies(Heard, AuthAt(peer_stage))
Unprepared == stage = 2 /\ peer_stage = 0

\* No field of a has a newline.
IsPlain(a) ==
    \A t \in {a.typed[k] : k \in TypedKeys}
             \cup ({a.metadata[k] : k \in FreeKeys} \ {Missing}) :
        FirstLine[t] = t /\ OtherLines[t] = <<>>

AcceptedIffSigned ==
    /\ Accepted <=> /\ ~Unprepared
                    /\ \E a \in signed :
                          /\ a.metadata["zcm_sig"] = Heard.metadata["zcm_sig"]
                          /\ Payload(a) = Payload(Heard)
    /\ (\A a \in signed \cup {Heard} : IsPlain(a)) =>
          (Accepted <=> ~Unprepared /\ Heard \in signed)
=============================================================================
