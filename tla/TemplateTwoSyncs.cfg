SPECIFICATION Spec
CONSTANTS
    core = core
    overlay = overlay
    a = a
    b = b
    x = x
    y = y
    p1 = p1
    p2 = p2
    first = first
    upgraded = upgraded
    reworded = reworded
    alone = alone
    profiles = profiles
    lone = lone
    bare = bare
    NoTemplate = NoTemplate
    Absent = Absent
    NoRow = NoRow
    NoCheckout = NoCheckout
    Nobody = Nobody
    Templates <- TwoTemplates
    Versions <- TwoVersions
    Contents <- FourContents
    ParentOf <- MCParentOf
    Checkouts <- OverlapCheckouts
    Registry <- MCRegistry
    Defaults <- MCDefaults
    Syncers <- TwoSyncers
INVARIANT ActiveParentsAreActive
SYMMETRY Interchangeable
