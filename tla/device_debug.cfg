\* Both cores, debug bootloader.
CONSTANTS
    NChunks <- MCNChunks
    MaxResets <- MCMaxResets
    NDEBUG = FALSE
    NetworkConnMaxRetry = 5
SPECIFICATION FairSpec
INVARIANT Cm4RunsSlotImage
PROPERTY RollbackRunsFactoryApp
