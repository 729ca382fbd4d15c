\* Two edits of a content file and of the config, which names the file's folder,
\* then does not, then does again.
SPECIFICATION Spec
CONSTANTS
    post = post
    config = config
    Content = {post}
    Config = config
    Named <- MCNamed
    Loops = {l1, l2}
    First = first
    MaxEdits <- MCMaxEdits
    None = None
INVARIANTS
    SettledMeansBuilt
PROPERTIES
    EditsAreBuilt
    HotUpdatesReturn
\* A server with nothing to do waits for the user.
CHECK_DEADLOCK FALSE
