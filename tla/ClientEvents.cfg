SPECIFICATION Spec
CONSTANTS
    Kinds = {"frame", "gameplay"}
    Wide = FALSE
    MaxMessages = 4
INVARIANT FramesProcessed
