SPECIFICATION Spec
CONSTANTS
    Cells = {c1, c2, c3, c4, c5, c6}
    Null = Null
    Lines = {1, 2}
    Handlers = {h1, h2}
    FileSystems <- MCFileSystems
    FsNames = {"ext2", "fat", "iso"}
    Names <- MCNames
SYMMETRY BlockSymmetry
INVARIANTS
    ServesRegistered
    BlocksAccounted
    FindsNewest
    RootWhole
CHECK_DEADLOCK FALSE
