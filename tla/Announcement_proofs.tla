------------------------ MODULE Announcement_proofs ------------------------
(***************************************************************************)
(* Proofs about the announcement of an agent, for any texts, keys,         *)
(* capabilities, secrets and number of updates.                            *)
(***************************************************************************)
EXTENDS Announcement, TLAPS

(***************************************************************************)
(* An announcement whose metadata repeats its fields.  The capability key  *)
(* is absent when there are none, which MetadataInStep does not ask for    *)
(* and a round trip over the network needs.                                *)
(***************************************************************************)
InStep(a) ==
    /\ a = [typed |-> a.typed, capabilities |-> a.capabilities,
            metadata |-> a.metadata]
    /\ a.typed \in [TypedKeys -> Names] /\ a.typed["status"] \in Statuses
    /\ a.capabilities \in SUBSET Caps
    /\ a.metadata = [k \in MetadataKeys |-> a.metadata[k]]
    /\ \A k \in TypedKeys : a.metadata[k] = a.typed[k]
    /\ a.metadata["capabilities"]
         = IF a.capabilities = {} THEN Missing ELSE a.capabilities
    /\ \A k \in FreeKeys : a.metadata[k] \in Values

\* What a carries as its signature was made for something signed.
SignatureIsKnown(a, those) ==
    \E b \in those : a.metadata["zcm_sig"] = b.metadata["zcm_sig"]

\* b is as it was when it was signed in stage s.
SignedAt(b, s) ==
    b.metadata["zcm_sig"] = [secret |-> AuthAt(s).signing, payload |-> Payload(b)]

\* An end at s is ahead of one at t by at most a restart.
Follows(s, t) == s <= t + 1 \/ s = 2

(***************************************************************************)
(* The inductive invariant: every announcement in sight is in step and     *)
(* carries the signature of one that was signed in this stage, and neither *)
(* end is more than a restart ahead.                                       *)
(***************************************************************************)
IInv ==
    /\ InStep(local_agent) /\ SignatureIsKnown(local_agent, signed)
    /\ InStep(Heard) /\ SignatureIsKnown(Heard, signed)
    /\ on_air = ToTxt(Heard)
    /\ \A b \in signed : InStep(b) /\ SignedAt(b, stage)
    /\ {stage, peer_stage} \subseteq 0..3
    /\ Follows(stage, peer_stage) /\ Follows(peer_stage, stage)
    /\ refresh_due \in BOOLEAN /\ edits \in 0..MaxEdits

-----------------------------------------------------------------------------
(* Texts and keys. *)

\* Trimmed texts are trimmed texts (types.rs:565-571).
LEMMA NamesAreTrimmed ==
    \A t \in Names : t \in Texts /\ Trim[t] = t /\ t # Empty /\ t # Missing
<1> SUFFICES ASSUME NEW t \in Names PROVE t \in Texts /\ Trim[t] = t /\ t # Empty /\ t # Missing
  OBVIOUS
<1>1. PICK u \in Texts : t = Trim[u] /\ t # Empty
  BY DEF Names
<1>2. t \in Texts
  BY <1>1, TextAssumption
<1>3. QED
  BY <1>1, <1>2, TextAssumption, MissingAssumption

\* The canonical keys are different keys (types.rs:13-28).
LEMMA KeysAreDistinct ==
    /\ "capabilities" \notin TypedKeys /\ "zcm_sig" \notin TypedKeys
    /\ "capabilities" # "zcm_sig" /\ "status" \in TypedKeys
    /\ TypedKeys \subseteq MetadataKeys /\ FreeKeys \subseteq MetadataKeys
    /\ "capabilities" \in MetadataKeys /\ "zcm_sig" \in MetadataKeys
    /\ \A k \in FreeKeys : k \notin TypedKeys /\ k # "capabilities" /\ k # "zcm_sig"
    /\ MetadataKeys = TypedKeys \cup FreeKeys \cup {"capabilities", "zcm_sig"}
BY DEF TypedKeys, ReservedKeys, MetadataKeys, FreeKeys

\* A key an update accepts is free (types.rs:289-292).
LEMMA AcceptedKeysAreFree ==
    ASSUME NEW key \in KeyInputs, Trim[key] \notin ReservedKeys \cup {Empty}
    PROVE  Trim[key] \in FreeKeys
<1>1. key \in Texts /\ Trim[key] \in Names
  BY TextAssumption DEF Names
<1>2. QED
  BY <1>1, NamesAreTrimmed DEF FreeKeys

-----------------------------------------------------------------------------
(* Announcements. *)

\* Announcements are converted to their metadata (types.rs:353-366).
LEMMA TxtIsMetadata ==
    ASSUME NEW a, InStep(a)
    PROVE  ToTxt(a) = a.metadata
<1>1. WithTyped(a.metadata, a.typed) = a.metadata
  BY DEF InStep, WithTyped
<1>2. SyncCapabilities(a.metadata, a.capabilities) = a.metadata
  BY DEF InStep, SyncCapabilities, Put
<1>3. QED
  BY <1>1, <1>2 DEF ToTxt

\* The capability key tells the capabilities (types.rs:617-639).
LEMMA CapabilitiesAreTold ==
    ASSUME NEW a, InStep(a)
    PROVE  CapabilitiesOf(a.metadata) = a.capabilities
BY MissingAssumption DEF InStep, CapabilitiesOf

\* An announcement in step comes back from the network as it was sent.
LEMMA RoundTrip ==
    ASSUME NEW a, InStep(a)
    PROVE  FromTxt(ToTxt(a)) = a
<1> DEFINE typed == [k \in TypedKeys |-> a.metadata[k]]
<1>1. typed = a.typed
  BY DEF InStep
<1>2. \A k \in TypedKeys : /\ a.typed[k] \in Names /\ a.metadata[k] # Missing
                           /\ Trim[a.typed[k]] = a.typed[k]
                           /\ Trim[a.typed[k]] # Empty
  BY NamesAreTrimmed DEF InStep
<1>3. Trim[a.metadata["status"]] \in Statuses
  BY <1>2, KeysAreDistinct DEF InStep
<1>4. [k \in TypedKeys |-> Trim[a.typed[k]]] = a.typed
  BY <1>2 DEF InStep
<1>5. SyncCapabilities(a.metadata, a.capabilities) = a.metadata
  BY DEF InStep, SyncCapabilities, Put
<1>6. New(a.typed, a.metadata) = a
  BY <1>2, <1>4, <1>5, CapabilitiesAreTold DEF New, InStep
<1>7. FromTxt(a.metadata) = New(typed, a.metadata)
  BY <1>2, <1>3 DEF FromTxt
<1>8. QED
  BY <1>1, <1>6, <1>7, TxtIsMetadata

-----------------------------------------------------------------------------
(* The signed text. *)

\* Every line of a field is a line of the text, and the other way round.
LEMMA LineIsThere ==
    ASSUME NEW a, NEW key \in PayloadKeys, NEW i \in DOMAIN LinesOf(a, key)
    PROVE  \E n : <<n, LinesOf(a, key)[i]>> \in Payload(a)
<1> DEFINE lines == [k \in PayloadKeys |-> LinesOf(a, k)]
           places == UNION {{Rank(k)} \X DOMAIN lines[k] : k \in DOMAIN lines}
           Before(k) == Cardinality({p \in places : p[1] < Rank(k)})
           Block(k) == {<<Before(k) + j, lines[k][j]>> : j \in DOMAIN lines[k]}
<1>1. DOMAIN lines = PayloadKeys /\ lines[key] = LinesOf(a, key)
  OBVIOUS
<1>2. Payload(a) = UNION {Block(k) : k \in DOMAIN lines}
  BY DEF Payload, Text, Numbered
<1> HIDE DEF lines, Before
<1>3. <<Before(key) + i, lines[key][i]>> \in Block(key)
  BY <1>1
<1> HIDE DEF Block
<1>4. <<Before(key) + i, lines[key][i]>> \in Payload(a)
  BY <1>1, <1>2, <1>3
<1>5. QED
  BY <1>1, <1>4

LEMMA LineComesFrom ==
    ASSUME NEW a, NEW n, NEW line, <<n, line>> \in Payload(a)
    PROVE  \E key \in PayloadKeys :
              \E i \in DOMAIN LinesOf(a, key) : line = LinesOf(a, key)[i]
<1> DEFINE lines == [k \in PayloadKeys |-> LinesOf(a, k)]
           places == UNION {{Rank(k)} \X DOMAIN lines[k] : k \in DOMAIN lines}
           Before(k) == Cardinality({p \in places : p[1] < Rank(k)})
           Block(k) == {<<Before(k) + j, lines[k][j]>> : j \in DOMAIN lines[k]}
<1>1. DOMAIN lines = PayloadKeys /\ \A k \in PayloadKeys : lines[k] = LinesOf(a, k)
  OBVIOUS
<1>2. Payload(a) = UNION {Block(k) : k \in DOMAIN lines}
  BY DEF Payload, Text, Numbered
<1> HIDE DEF lines, Before
<1>3. PICK key \in DOMAIN lines : <<n, line>> \in Block(key)
  <2> HIDE DEF Block
  <2> QED
    BY <1>2
<1>4. PICK i \in DOMAIN lines[key] : <<n, line>> = <<Before(key) + i, lines[key][i]>>
  BY <1>3
<1>5. line = lines[key][i]
  BY <1>4
<1>6. QED
  BY <1>1, <1>5

\* What a says under a key: nothing, or a value.
Says(a, key) ==
    CASE key \in TypedKeys -> a.typed[key]
      [] key = "capabilities" -> a.capabilities
      [] OTHER -> a.metadata[key]

\* A plain field is one line, which names its key and its value.
LEMMA PlainLines ==
    ASSUME NEW a, InStep(a), IsPlain(a), NEW key \in PayloadKeys
    PROVE  LinesOf(a, key) = IF key \in FreeKeys /\ Says(a, key) = Missing
                             THEN <<>> ELSE <<<<key, Says(a, key)>>>>
<1> USE KeysAreDistinct
<1>1. CASE key \in TypedKeys
  <2>1. FirstLine[a.typed[key]] = a.typed[key] /\ OtherLines[a.typed[key]] = <<>>
    BY <1>1 DEF IsPlain
  <2>2. QED
    BY <1>1, <2>1 DEF LinesOf, Says
<1>2. CASE key = "capabilities"
  BY <1>2 DEF LinesOf, Says
<1>3. CASE key \in FreeKeys /\ a.metadata[key] = Missing
  BY <1>3 DEF LinesOf, Says
<1>4. CASE key \in FreeKeys /\ a.metadata[key] # Missing
  <2>1. /\ FirstLine[a.metadata[key]] = a.metadata[key]
        /\ OtherLines[a.metadata[key]] = <<>>
    BY <1>4 DEF IsPlain
  <2>2. QED
    BY <1>4, <2>1 DEF LinesOf, Says
<1>5. QED
  BY <1>1, <1>2, <1>3, <1>4 DEF PayloadKeys

\* What one plain announcement says, another with the same text says too.
LEMMA SaysTheSame ==
    ASSUME NEW a, NEW b, InStep(a), InStep(b), IsPlain(a), IsPlain(b),
           Payload(a) = Payload(b), NEW key \in PayloadKeys,
           ~(key \in FreeKeys /\ Says(a, key) = Missing)
    PROVE  Says(b, key) = Says(a, key)
<1> DEFINE line == <<key, Says(a, key)>>
<1>1. LinesOf(a, key) = <<line>>
  BY PlainLines
<1>2. 1 \in DOMAIN LinesOf(a, key) /\ LinesOf(a, key)[1] = line
  BY <1>1
<1>3. PICK n : <<n, line>> \in Payload(b)
  BY <1>2, LineIsThere
<1>4. PICK other \in PayloadKeys :
         \E i \in DOMAIN LinesOf(b, other) : line = LinesOf(b, other)[i]
  BY <1>3, LineComesFrom
<1>5. LinesOf(b, other) = <<<<other, Says(b, other)>>>>
  BY <1>4, PlainLines
<1>6. line = <<other, Says(b, other)>>
  BY <1>4, <1>5
<1>7. QED
  BY <1>6

\* Without newlines the text and the signature determine an announcement.
LEMMA PayloadDetermines ==
    ASSUME NEW a, NEW b, InStep(a), InStep(b), IsPlain(a), IsPlain(b),
           Payload(a) = Payload(b),
           a.metadata["zcm_sig"] = b.metadata["zcm_sig"]
    PROVE  a = b
<1> USE KeysAreDistinct
<1>1. \A key \in PayloadKeys : Says(a, key) = Says(b, key)
  <2> TAKE key \in PayloadKeys
  <2>1. \/ Says(b, key) = Says(a, key)
        \/ key \in FreeKeys /\ Says(a, key) = Missing
    BY SaysTheSame
  <2>2. \/ Says(a, key) = Says(b, key)
        \/ key \in FreeKeys /\ Says(b, key) = Missing
    BY SaysTheSame
  <2>3. QED
    BY <2>1, <2>2
<1>2. \A k \in TypedKeys : a.typed[k] = b.typed[k]
  BY <1>1 DEF Says, PayloadKeys
<1>3. a.capabilities = b.capabilities
  BY <1>1 DEF Says, PayloadKeys
<1>4. \A k \in FreeKeys : a.metadata[k] = b.metadata[k]
  BY <1>1 DEF Says, PayloadKeys
<1>5. a.typed = b.typed
  BY <1>2 DEF InStep
<1>6. \A k \in MetadataKeys : a.metadata[k] = b.metadata[k]
  BY <1>2, <1>3, <1>4 DEF InStep
<1>7. a.metadata = b.metadata
  BY <1>6 DEF InStep
<1>8. QED
  BY <1>3, <1>5, <1>7 DEF InStep

\* Signing changes the signature only, to one of what is signed.
LEMMA SigningSigns ==
    ASSUME NEW a, InStep(a), NEW s
    PROVE  InStep(Sign(a, AuthAt(s))) /\ SignedAt(Sign(a, AuthAt(s)), s)
<1> DEFINE b == Sign(a, AuthAt(s))
           sig == [secret |-> AuthAt(s).signing, payload |-> Payload(a)]
<1>1. b = [typed |-> a.typed, capabilities |-> a.capabilities,
           metadata |-> Put(a.metadata, "zcm_sig", sig)]
  BY DEF Sign, InStep
<1>2. /\ b.typed = a.typed /\ b.capabilities = a.capabilities
      /\ b.metadata = Put(a.metadata, "zcm_sig", sig)
  BY <1>1
<1> HIDE DEF b, sig
<1>3. /\ b.metadata = [k \in MetadataKeys |-> b.metadata[k]]
      /\ \A k \in MetadataKeys \ {"zcm_sig"} : b.metadata[k] = a.metadata[k]
      /\ b.metadata["zcm_sig"] = sig
  BY <1>2, KeysAreDistinct DEF Put
<1>4. InStep(b)
  BY <1>1, <1>2, <1>3, KeysAreDistinct DEF InStep
<1>5. \A key \in PayloadKeys : LinesOf(b, key) = LinesOf(a, key)
  BY <1>2, <1>3, KeysAreDistinct DEF LinesOf, PayloadKeys
<1>6. Payload(b) = Payload(a)
  <2>1. [key \in PayloadKeys |-> LinesOf(b, key)]
          = [key \in PayloadKeys |-> LinesOf(a, key)]
    BY <1>5
  <2>2. QED
    BY <2>1 DEF Payload, Text
<1>7. QED
  BY <1>3, <1>4, <1>6 DEF b, sig, SignedAt

\* The configuration's announcement is in step (config.rs:469-492).
LEMMA StartsInStep == InStep(LocalAnnouncement)
<1> DEFINE free == [k \in MetadataKeys |->
                      IF k \in FreeKeys THEN FreeMetadata[k] ELSE Missing]
           m == SyncCapabilities(WithTyped(free, Profile), ProfileCaps)
           a == LocalAnnouncement
<1>1. \A k \in TypedKeys : Trim[Profile[k]] = Profile[k] /\ Profile[k] # Empty
  BY NamesAreTrimmed, ProfileAssumption
<1>2. /\ m = [k \in MetadataKeys |-> m[k]]
      /\ \A k \in TypedKeys : m[k] = Profile[k]
      /\ \A k \in FreeKeys : m[k] = FreeMetadata[k]
      /\ m["capabilities"] = IF ProfileCaps = {} THEN Missing ELSE ProfileCaps
  BY KeysAreDistinct DEF WithTyped, SyncCapabilities, Put
<1> HIDE DEF m
<1>3. CapabilitiesOf(m) = ProfileCaps /\ SyncCapabilities(m, ProfileCaps) = m
  <2>1. ProfileCaps # Missing
    BY ProfileAssumption, MissingAssumption
  <2>2. QED
    BY <1>2, <2>1 DEF CapabilitiesOf, SyncCapabilities, Put
<1>4. [k \in TypedKeys |-> Trim[Profile[k]]] = Profile
  BY <1>1, ProfileAssumption
<1>5. a = [typed |-> Profile, capabilities |-> ProfileCaps, metadata |-> m]
  BY <1>1, <1>3, <1>4 DEF LocalAnnouncement, New, m
<1>6. a.typed = Profile /\ a.capabilities = ProfileCaps /\ a.metadata = m
  BY <1>5
<1> HIDE DEF a
<1>7. QED
  BY <1>2, <1>5, <1>6, ProfileAssumption DEF InStep, Values, a

-----------------------------------------------------------------------------
(* Every step. *)

\* The updates leave the announcement in step and its signature alone.
LEMMA EditsKeepStep ==
    ASSUME InStep(local_agent), Edit
    PROVE  /\ InStep(local_agent')
           /\ local_agent'.metadata["zcm_sig"] = local_agent.metadata["zcm_sig"]
           /\ edits < MaxEdits /\ edits' = edits + 1 /\ refresh_due' = TRUE
           /\ UNCHANGED <<on_air, signed, stage, peer_stage>>
<1> USE KeysAreDistinct
<1> DEFINE a == local_agent
           b == local_agent'
           Kept == /\ edits < MaxEdits /\ edits' = edits + 1 /\ refresh_due' = TRUE
                   /\ UNCHANGED <<on_air, signed, stage, peer_stage>>
<1>0. ASSUME NEW key \in TypedKeys, NEW value \in Names,
             key = "status" => value \in Statuses,
             Mutate([a EXCEPT !.typed[key] = value, !.metadata[key] = value])
      PROVE  InStep(b) /\ b.metadata["zcm_sig"] = a.metadata["zcm_sig"] /\ Kept
  <2>1. b = [typed |-> [a.typed EXCEPT ![key] = value],
             capabilities |-> a.capabilities,
             metadata |-> [a.metadata EXCEPT ![key] = value]]
    BY <1>0 DEF Mutate, InStep
  <2>2. /\ b.typed = [a.typed EXCEPT ![key] = value]
        /\ b.capabilities = a.capabilities
        /\ b.metadata = [a.metadata EXCEPT ![key] = value]
    BY <2>1
  <2>3. b.typed \in [TypedKeys -> Names] /\ b.typed["status"] \in Statuses
    BY <1>0, <2>2 DEF InStep
  <2>4. /\ b.metadata = [k \in MetadataKeys |-> b.metadata[k]]
        /\ \A k \in MetadataKeys : b.metadata[k] = IF k = key THEN value ELSE a.metadata[k]
        /\ \A k \in TypedKeys : b.typed[k] = IF k = key THEN value ELSE a.typed[k]
    BY <2>2 DEF InStep
  <2>5. Kept
    BY <1>0 DEF Mutate
  <2>6. QED
    BY <1>0, <2>1, <2>2, <2>3, <2>4, <2>5 DEF InStep
<1>1. ASSUME NEW key \in {"current_project", "current_branch"},
             NEW value \in Inputs, SetField(key, value)
      PROVE  InStep(b) /\ b.metadata["zcm_sig"] = a.metadata["zcm_sig"] /\ Kept
  <2>1. key \in TypedKeys /\ key # "status" /\ Trim[value] \in Names
    BY <1>1, TextAssumption DEF TypedKeys, Names, SetField
  <2>2. QED
    BY <1>0, <1>1, <2>1 DEF SetField
<1>2. ASSUME NEW status \in Statuses, SetStatus(status)
      PROVE  InStep(b) /\ b.metadata["zcm_sig"] = a.metadata["zcm_sig"] /\ Kept
  <2>1. status \in Names
    BY TextAssumption
  <2>2. QED
    BY <1>0, <1>2, <2>1 DEF SetStatus
<1>3. ASSUME NEW key \in FreeKeys, NEW value \in Values,
             Mutate([a EXCEPT !.metadata[key] = value])
      PROVE  InStep(b) /\ b.metadata["zcm_sig"] = a.metadata["zcm_sig"] /\ Kept
  <2>1. b = [typed |-> a.typed, capabilities |-> a.capabilities,
             metadata |-> [a.metadata EXCEPT ![key] = value]]
    BY <1>3 DEF Mutate, InStep
  <2>2. QED
    BY <1>3, <2>1 DEF Mutate, InStep
<1>4. ASSUME NEW caps \in SUBSET Caps, Mutate(WithCapabilities(caps))
      PROVE  InStep(b) /\ b.metadata["zcm_sig"] = a.metadata["zcm_sig"] /\ Kept
  <2>1. b = [typed |-> a.typed, capabilities |-> caps,
             metadata |-> SyncCapabilities(a.metadata, caps)]
    BY <1>4 DEF Mutate, WithCapabilities, InStep
  <2>2. b.typed = a.typed /\ b.capabilities = caps
        /\ b.metadata = SyncCapabilities(a.metadata, caps)
    BY <2>1
  <2>3. /\ b.metadata = [k \in MetadataKeys |-> b.metadata[k]]
        /\ \A k \in MetadataKeys \ {"capabilities"} : b.metadata[k] = a.metadata[k]
        /\ b.metadata["capabilities"] = IF caps = {} THEN Missing ELSE caps
    BY <2>2 DEF SyncCapabilities, Put
  <2>4. Kept
    BY <1>4 DEF Mutate
  <2>5. QED
    BY <2>1, <2>2, <2>3, <2>4 DEF InStep
<1>5. ASSUME NEW key \in KeyInputs, NEW value \in Inputs, SetMetadata(key, value)
      PROVE  InStep(b) /\ b.metadata["zcm_sig"] = a.metadata["zcm_sig"] /\ Kept
  <2>1. Trim[key] \in FreeKeys /\ value \in Values
    BY <1>5, AcceptedKeysAreFree, TextAssumption DEF SetMetadata, Values
  <2>2. QED
    BY <1>3, <1>5, <2>1 DEF SetMetadata
<1>6. ASSUME NEW key \in KeyInputs, RemoveMetadata(key)
      PROVE  InStep(b) /\ b.metadata["zcm_sig"] = a.metadata["zcm_sig"] /\ Kept
  <2>1. Trim[key] \in FreeKeys /\ Missing \in Values
    BY <1>6, AcceptedKeysAreFree DEF RemoveMetadata, Values
  <2>2. QED
    BY <1>3, <1>6, <2>1 DEF RemoveMetadata
<1>7. ASSUME NEW inputs \in SUBSET CapInputs, SetCapabilities(inputs)
      PROVE  InStep(b) /\ b.metadata["zcm_sig"] = a.metadata["zcm_sig"] /\ Kept
  <2>1. {Trim[c] : c \in inputs} \in SUBSET Caps
    BY <1>7 DEF SetCapabilities, Normal, Caps
  <2>2. QED
    BY <1>4, <1>7, <2>1 DEF SetCapabilities
<1>8. ASSUME NEW input \in CapInputs, AddCapability(input) \/ RemoveCapability(input)
      PROVE  InStep(b) /\ b.metadata["zcm_sig"] = a.metadata["zcm_sig"] /\ Kept
  <2>1. Trim[input] \in Caps
    BY <1>8 DEF AddCapability, RemoveCapability, Normal, Caps
  <2>2. /\ a.capabilities \cup {Trim[input]} \in SUBSET Caps
        /\ a.capabilities \ {Trim[input]} \in SUBSET Caps
    BY <2>1 DEF InStep
  <2>3. QED
    BY <1>4, <1>8, <2>2 DEF AddCapability, RemoveCapability
<1>9. QED
  BY <1>1, <1>2, <1>5, <1>6, <1>7, <1>8 DEF Edit

\* The secrets of every stage (config.rs:75-102).
LEMMA StageSecrets ==
    ASSUME NEW s \in 0..3
    PROVE  /\ AuthAt(s).signing \in {OldSecret, NewSecret}
           /\ s \in {0, 1} => AuthAt(s).signing = OldSecret
           /\ s \in {2, 3} => AuthAt(s).signing = NewSecret
           /\ s = 0 => AuthAt(s).accepted = {OldSecret}
           /\ s \in {1, 2} => AuthAt(s).accepted = {OldSecret, NewSecret}
           /\ s = 3 => AuthAt(s).accepted = {NewSecret}
<1>1. \A x, y : /\ WithRotation(x, y).signing = x
                /\ WithRotation(x, y).accepted = y \cup {x}
  BY DEF WithRotation
<1>2. s \in {0, 1, 2, 3}
  OBVIOUS
<1>3. QED
  BY <1>1, <1>2 DEF AuthAt

\* At most a restart apart each end accepts the other, the new secret before
\* it was heard of excepted.
LEMMA NeighboursAccept ==
    ASSUME NEW s \in 0..3, NEW t \in 0..3, Follows(s, t), Follows(t, s)
    PROVE  AuthAt(s).signing \in AuthAt(t).accepted <=> ~(s = 2 /\ t = 0)
<1>1. s \in {0, 1, 2, 3} /\ t \in {0, 1, 2, 3}
  OBVIOUS
<1>2. OldSecret # NewSecret
  BY ProfileAssumption
<1>3. QED
  BY <1>1, <1>2, StageSecrets DEF Follows

LEMMA InitEstablishes == Init => IInv
<1> SUFFICES ASSUME Init PROVE IInv
  OBVIOUS
<1>1. InStep(local_agent) /\ SignedAt(local_agent, 0)
  BY StartsInStep, SigningSigns DEF Init, Started
<1>2. Heard = local_agent
  BY <1>1, RoundTrip DEF Init, Heard
<1>3. SignatureIsKnown(local_agent, signed)
  BY DEF Init, SignatureIsKnown
<1>4. \A b \in signed : InStep(b) /\ SignedAt(b, stage)
  BY <1>1 DEF Init
<1>5. on_air = ToTxt(Heard)
  BY <1>2 DEF Init
<1>6. /\ {stage, peer_stage} \subseteq 0..3
      /\ Follows(stage, peer_stage) /\ Follows(peer_stage, stage)
      /\ refresh_due \in BOOLEAN /\ edits \in 0..MaxEdits
  <2>1. MaxEdits \in Nat
    BY ProfileAssumption
  <2>2. refresh_due \in BOOLEAN
    BY DEF Init
  <2>3. stage = 0 /\ peer_stage = 0 /\ edits = 0
    BY DEF Init
  <2>4. QED
    BY <2>1, <2>2, <2>3 DEF Follows
<1>7. QED
  BY <1>1, <1>2, <1>3, <1>4, <1>5, <1>6 DEF IInv

LEMMA StepPreserves == IInv /\ [Next]_vars => IInv'
<1> SUFFICES ASSUME IInv, [Next]_vars PROVE IInv'
  OBVIOUS
<1>1. CASE Edit
  BY <1>1, EditsKeepStep, ProfileAssumption
     DEF IInv, Heard, SignatureIsKnown, SignedAt
<1>2. CASE Refresh
  <2>1. InStep(local_agent') /\ SignedAt(local_agent', stage)
    BY <1>2, SigningSigns DEF IInv, Refresh, Auth
  <2>2. local_agent' \in signed' /\ signed \subseteq signed'
    BY <1>2 DEF Refresh
  <2>3. SignatureIsKnown(local_agent', signed')
    BY <2>2 DEF SignatureIsKnown
  <2>4. UNCHANGED <<on_air, Heard, stage, peer_stage, edits>> /\ refresh_due' = FALSE
    BY <1>2 DEF Refresh, Heard
  <2>5. SignatureIsKnown(Heard', signed')
    BY <2>2, <2>4 DEF IInv, SignatureIsKnown
  <2>6. \A b \in signed' : InStep(b) /\ SignedAt(b, stage')
    BY <1>2, <2>1, <2>4 DEF IInv, Refresh
  <2>7. QED
    BY <2>1, <2>3, <2>4, <2>5, <2>6 DEF IInv
<1>3. ASSUME NEW a, InStep(a), SignatureIsKnown(a, signed), on_air' = ToTxt(a),
             UNCHANGED <<local_agent, refresh_due, signed, stage, peer_stage, edits>>
      PROVE  IInv'
  <2>1. Heard' = a
    BY <1>3, RoundTrip DEF Heard
  <2>2. QED
    BY <1>3, <2>1 DEF IInv
<1>4. CASE Announce
  <2>1. PICK a \in signed : on_air' = ToTxt(a)
    BY <1>4 DEF Announce
  <2>2. InStep(a) /\ SignatureIsKnown(a, signed)
    BY DEF IInv, SignatureIsKnown
  <2>3. QED
    BY <1>3, <1>4, <2>1, <2>2 DEF Announce
<1>5. CASE Heartbeat
  BY <1>3, <1>5 DEF Heartbeat, IInv
<1>6. CASE Rotate
  <2>1. InStep(local_agent') /\ SignedAt(local_agent', stage')
    BY <1>6, StartsInStep, SigningSigns DEF Rotate, Started
  <2>2. Heard' = local_agent' /\ on_air' = ToTxt(local_agent')
    BY <1>6, <2>1, RoundTrip DEF Rotate, Heard
  <2>3. signed' = {local_agent'} /\ SignatureIsKnown(local_agent', signed')
    BY <1>6 DEF Rotate, SignatureIsKnown
  <2>4. /\ {stage', peer_stage'} \subseteq 0..3 /\ refresh_due' = FALSE
        /\ Follows(stage', peer_stage') /\ Follows(peer_stage', stage')
        /\ edits' = edits
    BY <1>6 DEF Rotate, IInv, Follows, Restarts
  <2>5. QED
    BY <2>1, <2>2, <2>3, <2>4 DEF IInv
<1>7. CASE RotatePeer
  <2>1. /\ {stage', peer_stage'} \subseteq 0..3
        /\ Follows(stage', peer_stage') /\ Follows(peer_stage', stage')
    BY <1>7 DEF RotatePeer, IInv, Follows, Restarts
  <2>2. UNCHANGED <<local_agent, on_air, Heard, refresh_due, signed, stage, edits>>
    BY <1>7 DEF RotatePeer, Heard
  <2>3. QED
    BY <2>1, <2>2 DEF IInv
<1>8. CASE UNCHANGED vars
  BY <1>8 DEF vars, IInv, Heard
<1>9. QED
  BY <1>1, <1>2, <1>4, <1>5, <1>6, <1>7, <1>8 DEF Next

LEMMA InductiveInvariant == Spec => []IInv
BY InitEstablishes, StepPreserves, PTL DEF Spec

-----------------------------------------------------------------------------
(* The theorems. *)

(***************************************************************************)
(* Whatever updates, restarts and announcements happen, announcements are  *)
(* announcements: fields trimmed and not empty, capabilities normalised,   *)
(* and a signature under one of the secrets (types.rs:102-143, 205-322).   *)
(***************************************************************************)
THEOREM AnnouncementTypeCorrect == Spec => []TypeOK
<1>1. ASSUME NEW a, InStep(a),
             a.metadata["zcm_sig"].secret \in {OldSecret, NewSecret}
      PROVE  IsAnnouncement(a)
  <2>1. DOMAIN a = {"typed", "capabilities", "metadata"}
    BY <1>1 DEF InStep
  <2>2. DOMAIN a.metadata = MetadataKeys
    BY <1>1 DEF InStep
  <2>3. QED
    BY <1>1, <2>1, <2>2 DEF InStep, IsAnnouncement
<1>2. IInv => TypeOK
  <2> SUFFICES ASSUME IInv PROVE TypeOK
    OBVIOUS
  <2>1. ASSUME NEW b \in signed
        PROVE  /\ IsAnnouncement(b)
               /\ b.metadata["zcm_sig"].secret \in {OldSecret, NewSecret}
    <3>1. InStep(b) /\ SignedAt(b, stage)
      BY DEF IInv
    <3>2. b.metadata["zcm_sig"].secret = AuthAt(stage).signing
      BY <3>1 DEF SignedAt
    <3>3. AuthAt(stage).signing \in {OldSecret, NewSecret}
      BY StageSecrets DEF IInv
    <3>4. QED
      BY <1>1, <3>1, <3>2, <3>3
  <2>2. IsAnnouncement(local_agent)
    BY <1>1, <2>1 DEF IInv, SignatureIsKnown
  <2>3. DOMAIN on_air = MetadataKeys
    BY DEF IInv, ToTxt, SyncCapabilities, Put
  <2>4. QED
    BY <2>1, <2>2, <2>3 DEF IInv, TypeOK
<1>3. QED
  BY <1>2, InductiveInvariant, PTL

(***************************************************************************)
(* No sequence of updates makes a field and its canonical key disagree     *)
(* (types.rs:205-310).                                                     *)
(***************************************************************************)
THEOREM AlwaysInStep == Spec => []MetadataInStep
<1>1. IInv => MetadataInStep
  BY CapabilitiesAreTold DEF IInv, InStep, MetadataInStep
<1>2. QED
  BY <1>1, InductiveInvariant, PTL

(***************************************************************************)
(* What a node announces of itself is parsed back as what it keeps in its  *)
(* own registry (types.rs:353-366, 411-435).                               *)
(***************************************************************************)
THEOREM AlwaysSurvivesTxt == Spec => []SurvivesTxt
<1>1. IInv => SurvivesTxt
  BY RoundTrip DEF IInv, SurvivesTxt
<1>2. QED
  BY <1>1, InductiveInvariant, PTL

(***************************************************************************)
(* At every point of a rotation a peer accepts what is on the air exactly  *)
(* when it carries a signature made of its own text, and, without          *)
(* newlines, exactly when the agent has signed it as it stands             *)
(* (types.rs:328-349), unless it has not heard of the agent's new secret   *)
(* at all.  Accepted means signed because the signature was made for       *)
(* something signed; signed means accepted because the ends are at most a  *)
(* restart apart.                                                          *)
(***************************************************************************)
THEOREM AlwaysAcceptedIffSigned == Spec => []AcceptedIffSigned
<1> DEFINE SameText(a) == /\ a.metadata["zcm_sig"] = Heard.metadata["zcm_sig"]
                          /\ Payload(a) = Payload(Heard)
<1>1. ASSUME IInv
      PROVE  AuthAt(stage).signing \in AuthAt(peer_stage).accepted <=> ~Unprepared
  BY <1>1, NeighboursAccept DEF IInv, Unprepared
<1>2. ASSUME IInv, Accepted PROVE ~Unprepared /\ \E a \in signed : SameText(a)
  <2>1. PICK s \in AuthAt(peer_stage).accepted :
           Heard.metadata["zcm_sig"] = [secret |-> s, payload |-> Payload(Heard)]
    BY <1>2 DEF Accepted, Verifies
  <2>2. PICK b \in signed : Heard.metadata["zcm_sig"] = b.metadata["zcm_sig"]
    BY <1>2 DEF IInv, SignatureIsKnown
  <2>3. b.metadata["zcm_sig"]
          = [secret |-> AuthAt(stage).signing, payload |-> Payload(b)]
    BY <1>2 DEF IInv, SignedAt
  <2>4. Payload(Heard) = Payload(b) /\ s = AuthAt(stage).signing
    BY <2>1, <2>2, <2>3
  <2>5. QED
    BY <1>1, <1>2, <2>2, <2>4
<1>3. ASSUME IInv, ~Unprepared, NEW a \in signed, SameText(a) PROVE Accepted
  <2>1. a.metadata["zcm_sig"]
          = [secret |-> AuthAt(stage).signing, payload |-> Payload(a)]
    BY <1>3 DEF IInv, SignedAt
  <2>2. QED
    BY <1>1, <1>3, <2>1 DEF Accepted, Verifies
<1>4. ASSUME IInv, \A a \in signed \cup {Heard} : IsPlain(a),
             NEW a \in signed, SameText(a)
      PROVE  a = Heard
  BY <1>4, PayloadDetermines DEF IInv
<1>5. IInv => AcceptedIffSigned
  <2> SUFFICES ASSUME IInv PROVE AcceptedIffSigned
    OBVIOUS
  <2>1. Accepted <=> ~Unprepared /\ \E a \in signed : SameText(a)
    BY <1>2, <1>3
  <2>2. ASSUME \A a \in signed \cup {Heard} : IsPlain(a)
        PROVE  (\E a \in signed : SameText(a)) <=> Heard \in signed
    BY <1>4, <2>2
  <2>3. QED
    BY <2>1, <2>2 DEF AcceptedIffSigned
<1>6. QED
  BY <1>5, InductiveInvariant, PTL

=============================================================================
