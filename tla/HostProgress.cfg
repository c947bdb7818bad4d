SPECIFICATION Spec
PROPERTIES
    FoldersServed
    JobsServed
    WorkspacesReleased
    NodesFollowed
CHECK_DEADLOCK FALSE
