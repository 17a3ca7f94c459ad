\* Every build the macros accept, with the default bootloader start.
CONSTANTS
    Sizes = {1, 2}
    StartOffsets = {0}
    AnyBuild = TRUE
SPECIFICATION Spec
INVARIANT AreasDisjoint
