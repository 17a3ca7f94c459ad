\* The builds ext_flash_map.c is written for, sizes of 1 to 3 units.
CONSTANTS
    Sizes = {1, 2, 3}
    StartOffsets = {0}
    AnyBuild = FALSE
SPECIFICATION Spec
INVARIANT AreasDisjoint
