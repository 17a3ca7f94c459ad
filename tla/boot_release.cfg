\* Release build (NDEBUG: CY_ASSERT compiled out): what still holds once the asserts
\* no longer halt, including the NULL fap_primary a debug build never reaches.
CONSTANTS
    NChunks <- MCNChunks
    MaxResets <- MCMaxResets
    NDEBUG = TRUE
SPECIFICATION FairSpec
INVARIANT TransferSuccessMeansCopied
PROPERTY RollbackTerminates
PROPERTY PrimaryAccessedOnlyWhenOpen
