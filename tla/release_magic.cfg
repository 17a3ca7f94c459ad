\* Release build: a wrong factory magic still lets the copy overwrite the primary slot.
CONSTANTS
    NChunks <- MCNChunks
    MaxResets <- MCMaxResets
    NDEBUG = TRUE
SPECIFICATION FairSpec
PROPERTY PrimaryChangesOnlyWithFactoryMagic
