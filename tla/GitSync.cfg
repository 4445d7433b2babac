SPECIFICATION Spec
CONSTANTS
    main = main
    rel = rel
    pr = pr
    u = u
    a = a
    b = b
    e1 = e1
    e2 = e2
    Cur = main
    LocalNames <- Local
    OriginNames <- Origin
    FallbackNames <- FallbackOrder
    OtherRefs <- Others
    UserStashes = {u}
    Leftovers <- SomeLeftovers
    Submodules <- TwoSubmodules
    Edits <- TwoEdits
    MaxPush = 1
INVARIANT SyncedIsFresh
PROPERTIES UserStashesKept EditsOnlyLostToConflicts DoneRestoresEdits
SYMMETRY Symmetry
