\* Debug build: a button press latched before the first WFI does not end the wait.
CONSTANTS
    NChunks <- MCNChunks
    MaxResets <- MCMaxResets
    NDEBUG = FALSE
SPECIFICATION FairSpec
PROPERTY LatchEndsWait
