CONSTANTS
    t1 = t1
    t2 = t2
    leaf = leaf
    node = node
    root = root
    extLeaf = extLeaf
    fsTree = fsTree
    extTree = extTree
    logTree = logTree
    Threads <- TwoThreads
    Buffers <- TwoTrees
    Trees <- ThreeTrees
    MaxLevel = 3
    Level <- LevelOf
    Owner <- OwnerOf
    LogTrees <- OneLogTree
    Recycled <- OneRecycled
    Garbage <- SomeGarbage
SPECIFICATION Spec
INVARIANTS ViewIsReal ReportedAreDeadlocked NoMissedABBA InversionsAreReal InversionsAreFound
SYMMETRY Symmetry
CHECK_DEADLOCK FALSE
