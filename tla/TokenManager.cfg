SPECIFICATION TokenSpec
CONSTANTS
    x = x
    y = y
    Addr = {x, y}
    Half = 2
SYMMETRY Symmetry
INVARIANTS
    TokenLastsLongEnough
    NoOldTokenPasses
