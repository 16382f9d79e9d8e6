\* Inits that overlap or are killed, an editing user, agents that come and go.
SPECIFICATION ProjectSpec
CONSTANTS
    None = None
    Torn = Torn
    Unset = Unset
    Invalid = Invalid
    Empty = Empty
    i1 = i1
    i2 = i2
    t1 = t1
    t2 = t2
    Texts <- AllTexts
    Trim <- TrimAll
    Lower <- LowerAll
    PrefixesOf <- Prefixes2
    Language <- Patterns
    WithComma <- Commas
    ServiceTypes <- Types
    Addresses <- Ips
    Indexes <- NoIndexes
    Fresh = "uuid"
    Slug <- SlugAll
    Inits = {i1, i2}
    Slots = {t1}
    Commands <- AllCommands
    Environments <- Repository
    UserLines = {"l1", "bin"}
    Undecodable = {"bin"}
    Filters <- AskedFor
    MaxInits = 2
    MaxEdits = 2
SYMMETRY Symmetry
INVARIANTS
    ProjectTypeOK
    UserTextSurvives
    GuidanceIsCurrent
    UpRepeatsAnnounce
    GuidanceFindsAgents
    AnswersAgree
CHECK_DEADLOCK FALSE
