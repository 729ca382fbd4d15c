SPECIFICATION MCSpec
CONSTANTS
    None = None
    builder = builder
    developer = developer
    logo = logo
    photo = photo
    secret = secret
    Note = note
    Texts = {old, new}
    Sessions <- MCSessions
    Sources <- MCSources
    Allowed <- MCAllowed
    Wants <- MCWants
    Mode <- MCMode
    SyncInDev = TRUE
    Prune = TRUE
    PruneEmpty = FALSE
    MaxClock = 2
    MaxEdits = 2
    MaxBuilds = 3
    MaxWrong = 1
INVARIANTS
    PublishedAreThere
    CopiesAreListed
    PublishedAreStored
CHECK_DEADLOCK FALSE
ACTION_CONSTRAINT MCSteps
SYMMETRY MCTexts
