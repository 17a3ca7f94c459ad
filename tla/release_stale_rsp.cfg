\* Release build: after a failed rollback main boots its stale boot_rsp.
CONSTANTS
    NChunks <- MCNChunks
    MaxResets <- MCMaxResets
    NDEBUG = TRUE
SPECIFICATION FairSpec
INVARIANT BootedImageValidated
