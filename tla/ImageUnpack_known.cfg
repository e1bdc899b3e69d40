SPECIFICATION FairSpec
CONSTANTS
    Tasks = {t1, t2}
    Refs = {a, b}
    t1 = t1
    a = a
    b = b
    m1 = m1
    m2 = m2
    base = base
    app = app
    lib = lib
    Manifests = {m1, m2}
    Layers = {base, app, lib}
    DiffIds <- MCDiffIds
    Asks <- SameOrOther
    Tags <- FirstIsM1
    KnownRefs = {a, b}
    MaxPushes = 1
    MaxRemovals = 1
    None = None
INVARIANTS
    TypeOK
    SnapshotIsItsChain
    RootfsIsWholeImage
    KeyLeaksOnlyOnFailure
    EnsureUnpackedSucceeds
PROPERTIES
    EveryTaskEnds
    ImplementsChainStore
CHECK_DEADLOCK FALSE
