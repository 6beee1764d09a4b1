CONSTANTS
    IntWidth = 30
    MaxSize = 1000
    Sizes = {1, 1000, 536870911}
SPECIFICATION Spec
CHECK_DEADLOCK FALSE
INVARIANTS
    BufferWithinSize
