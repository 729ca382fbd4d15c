SPECIFICATION FairRelease
CONSTANTS
    core = core
    plugin = plugin
    Order <- MCOrder
    Cli = core
    Deps <- MCDeps
    Versions = {"1.0.0", "1.0.1"}
    Faults = {"tests", "dist", "packed"}
    MaxFailures = 2
    Nothing = Nothing
INVARIANT PinsAreOnNpm InvalidIsNotPublished
PROPERTY ReleaseCompletes
