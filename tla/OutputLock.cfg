\* Two builds per process, one of them killed, two looks at a lock in use.
SPECIFICATION LockSpec
CONSTANTS
    p1 = p1
    p2 = p2
    here = here
    there = there
    NoLock = NoLock
    Processes <- MCProcesses
    Host <- MCHost
    MaxWaits = 1
    MaxBuilds = 2
    MaxKills = 1
INVARIANT
    LockTypeOK
PROPERTIES
    TakenOnlyInAWindow
    WaiterIsAnswered
    KilledHolderIsCleared
\* Every process has used its builds.
CHECK_DEADLOCK FALSE
