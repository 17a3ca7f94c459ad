\* Every build the macros accept.
CONSTANTS
    Sizes = {1, 2}
    StartOffsets = {0, 1}
    AnyBuild = TRUE
SPECIFICATION Spec
INVARIANT CopyWithinFactoryImage
