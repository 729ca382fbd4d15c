SPECIFICATION MCSpec
CONSTANTS
    authors = authors
    posts = posts
    ann = ann
    bob = bob
    post = post
    main = main
    scope = scope
    recent = recent
    None = None
    Sources <- MCSources
    EmbedOrder <- MCEmbedOrder
    Files <- MCFiles
    SourceOf <- MCSourceOf
    RefersTo <- MCRefersTo
    TargetOrder <- MCTargetOrder
    Required = {authors}
    Targets = {main, scope}
    Main = main
    Views = {recent}
    Draft <- MCDraft
    HasTransform <- MCHasTransform
    CachesTransforms <- MCCaches
    CachesViews <- MCCachesViews
    TransformReads <- MCTransformReads
    Transformed <- MCTransformed
    Prepared <- MCPrepared
    Keeps <- MCKeeps
    Ref <- MCRef
    Key <- MCKey
    Uniq <- MCUniq
    ViewFrom <- MCViewFrom
    ViewReads <- MCViewReads
    Row <- MCRow
    RowKey <- MCRowKey
    Plugin <- MCPlugin
    Texts <- MCTexts
    Projects = {1, 2}
    MaxEvents = 4
CHECK_DEADLOCK FALSE
INVARIANT RefusedForAReason UnchangedIsNotRedone OutputIsCurrent
PROPERTY WritesWhatAFreshBuildWould
ACTION_CONSTRAINT EditsBetweenStages
