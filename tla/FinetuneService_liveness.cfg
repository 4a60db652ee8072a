\* Progress, with one crash; no symmetry, it is not sound for liveness.
SPECIFICATION Spec
CONSTANTS
    Jobs = {j1, j2}
    Requests = {r1}
    NumGroups = 1
    BatchLimit = 2
    MaxCrashes = 1
    NoJob = NoJob
PROPERTIES
    Finishes
    Answered
\* Once every uuid has been used and every row deleted, nothing is left to do.
CHECK_DEADLOCK FALSE
