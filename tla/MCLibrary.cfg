SPECIFICATION LibrarySpec
INVARIANTS
    CallsRight
    StoresRight
    PicturesRight
CHECK_DEADLOCK FALSE
