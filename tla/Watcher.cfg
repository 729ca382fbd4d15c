\* Two edits in each content folder, one of the config, and one folder deleted.
SPECIFICATION WatchSpec
CONSTANTS
    conf = conf
    posts = posts
    pages = pages
    Nothing = Nothing
    Folders = {conf, posts, pages}
    Conf = conf
    Names <- MCNames
    MaxEdits <- MCMaxEdits
    MaxDeletes = 1
INVARIANTS
    EditsAreAccountedFor
PROPERTIES
    WatchedEditsAreBuilt
    FoldersAreWatchedAgain
\* A session with nothing to do waits for the user.
CHECK_DEADLOCK FALSE
