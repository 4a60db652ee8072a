\* Two jobs of two groups, two open requests, one crash.
SPECIFICATION Spec
CONSTANTS
    Jobs = {j1, j2}
    Requests = {r1, r2}
    NumGroups = 2
    BatchLimit = 2
    MaxCrashes = 1
    NoJob = NoJob
SYMMETRY JobSymmetry
INVARIANTS
    TypeOK
    SingleHolder
    NoLostJob
    AssertExists
    CompletedHasModels
PROPERTIES
    BatchDeletesAll
    ServedInOrder
    ImplementsLifecycle
\* Once every uuid has been used and every row deleted, nothing is left to do.
CHECK_DEADLOCK FALSE
