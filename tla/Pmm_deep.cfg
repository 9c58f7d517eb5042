SPECIFICATION Spec
CONSTANTS
    MAX_ORDER = 2
    reserved = 0
    total_pages = 4
    Lifo = FALSE
INVARIANTS
    FreeCountReal
