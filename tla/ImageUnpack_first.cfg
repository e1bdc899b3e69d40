SPECIFICATION Spec
CONSTANTS
    Tasks = {t1}
    Refs = {a, b}
    t1 = t1
    a = a
    b = b
    m1 = m1
    m2 = m2
    base = base
    app = app
    lib = lib
    Manifests = {m1, m2}
    Layers = {base, app, lib}
    DiffIds <- MCDiffIds
    Asks <- SameOrOther
    Tags <- FirstIsM1
    KnownRefs = {}
    MaxPushes = 0
    MaxRemovals = 0
    None = None
INVARIANT
    EnsureUnpackedSucceeds
CHECK_DEADLOCK FALSE
