SPECIFICATION Spec
CONSTANTS
    Root <- MCRoot
    Headers <- MCHeaders
    Projects <- MCProjects
    MaxEdits = 4
INVARIANTS PublishedAsProved OutputsClosed ContextKept
