SPECIFICATION Spec
CONSTANTS
    Kinds = {"frame"}
    Wide = TRUE
    MaxMessages = 2
INVARIANT KeepsRunning
