\* Segments served by two threads at once: two tasks for a cache of one,
\* two model directories, expiry after more than one tick.  No symmetry: one
\* property is a liveness property.
SPECIFICATION Spec
CONSTANTS
    Tasks = {t1, t2}
    Paths = {p1, p2}
    Callers = {c1, c2}
    TTL = 1
    MaxTasks = 1
    Parallel = TRUE
    NoPath = NoPath
    NoCaller = NoCaller
INVARIANTS
    TypeOK
    WithinCapacity
    OwnModel
PROPERTIES
    KeptUntilDue
    RefusedOnlyWhenBusy
    LastReleases
    Served
