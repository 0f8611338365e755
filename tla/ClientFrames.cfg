SPECIFICATION Spec
CONSTANTS
    Kinds = {"frame"}
    Wide = TRUE
    MaxMessages = 4
INVARIANT FramesProcessed
