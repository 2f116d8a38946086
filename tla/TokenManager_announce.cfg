SPECIFICATION TokenSpec
CONSTANTS
    x = x
    y = y
    Addr = {x}
    Half = 2
INVARIANT
    FreshTokenAnnounces
