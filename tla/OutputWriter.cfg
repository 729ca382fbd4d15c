\* Two sessions on one folder of a case-sensitive file system, with every
\* crash, failure, hand edit and order of steps.
SPECIFICATION Spec
CONSTANTS
    post = post
    Post = Post
    page = page
    index = index
    None = None
    Sessions = {s1, s2}
    Files <- MCFiles
    Texts <- MCTexts
    Rank <- MCRank
    Imports <- MCImports
    Size <- MCSize
    Lower <- MCLower
    Slot <- MCCaseSensitive
    LegacyFiles <- MCLegacyFiles
    Plans <- MCPlans
    UserFiles = {page}
    WriteConcurrency = 2
VIEW MCView
SYMMETRY MCSymmetry
INVARIANTS
    TypeOK
    ManifestTruthful
    NothingOrphaned
    IndexPointsAtFiles
    FastExitSafe
PROPERTIES
    SuccessMeansOnDisk
