\* Every size macro equal, so that only CY_BOOTLOADER_START_ADDRESS can
\* make two areas overlap: the default start and one unit above it.
CONSTANTS
    Sizes = {1}
    StartOffsets = {0, 1}
    AnyBuild = TRUE
SPECIFICATION Spec
INVARIANT AreasDisjoint
