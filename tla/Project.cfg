SPECIFICATION MCSpec
CONSTANTS
    None = None
    config = config
    helper = helper
    package = package
    workspace = workspace
    extra = extra
    lock = lock
    ProjectDir <- MCProjectDir
    DefaultInclude <- MCDefaultInclude
    PluralForm <- MCPluralForm
    NotIdentifiers <- MCNotIdentifiers
    Files <- MCFiles
    Config = config
    Lock = lock
    Installed = {package}
    Texts <- MCTexts
    Candidates <- MCCandidates
    ConfigOf <- MCConfigOf
    MaxModules = 3
    Appearing = {}
    MaxEdits = 2
    MaxInspects = 1
    Hidden = {".git"}
    Stem <- MCStem
    Lower <- MCLower
    TreeEdits <- MCTreeEdits
    MaxTreeEdits = 1
    MaxListFailures = 1
    MaxDiscoveries = 1
CHECK_DEADLOCK FALSE
INVARIANT LoadedIsCurrent NamesAreUnique EmbedsComeFirst DiscoveredIsThere
ACTION_CONSTRAINT MCEdits
