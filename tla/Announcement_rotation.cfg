\* Updates, refreshes, heartbeats and a rotation of the shared secret.
SPECIFICATION Spec
CONSTANTS
    Texts <- AllTexts
    Trim <- TrimAll
    Empty = Empty
    Missing = Missing
    Invalid = Invalid
    Inputs <- Values3
    KeyInputs <- Keys4
    CapInputs <- Caps4
    WithComma <- Commas
    FirstLine <- FirstLines
    OtherLines <- OtherLinesOf
    KeyRank <- KeyRanks
    Profile <- AgentProfile
    ProfileCaps <- ProfilePlan
    FreeMetadata <- PaddedNote
    OldSecret = OldSecret
    NewSecret = NewSecret
    MaxEdits = 3
INVARIANTS
    TypeOK
    MetadataInStep
    SurvivesTxt
    AcceptedIffSigned
CHECK_DEADLOCK FALSE
