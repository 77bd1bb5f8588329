SPECIFICATION CliSpec
CONSTANTS
    a = a  b = b  g = g  u1 = u1  u2 = u2
    NoName = NoName  NoType = NoType  NoUrl = NoUrl  Unset = Unset
    NoConfig = NoConfig  NoProvider = NoProvider
    Model <- MCModel
    Backends = {}
    Groups = {}
    RecoverTimes = {1000}
    MaxAge = 2
    Url <- MCUrl
    Files <- MCFiles
    Requests <- MCRequests
    MaxInits = 3
    OwnTypes = {"openai", "custom"}
\* Every program ends, and the bound on initialisations is used up.
CHECK_DEADLOCK FALSE
INVARIANTS AvailableIsUsable AcceptedIsAnswered LinesGoWhereThePromptSays
