\* Debug build (CY_ASSERT halts): the handoff, the copy, the magic check and the rollback ending.
CONSTANTS
    NChunks <- MCNChunks
    MaxResets <- MCMaxResets
    NDEBUG = FALSE
SPECIFICATION FairSpec
INVARIANT TypeOK
INVARIANT BootedImageValidated
INVARIANT TransferSuccessMeansCopied
PROPERTY PrimaryChangesOnlyWithFactoryMagic
PROPERTY RollbackTerminates
