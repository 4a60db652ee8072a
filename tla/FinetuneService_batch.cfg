\* Deleting everything deletes one page of the jobs only.
SPECIFICATION Spec
CONSTANTS
    Jobs = {j1, j2}
    Requests = {r1}
    NumGroups = 1
    BatchLimit = 1
    MaxCrashes = 0
    NoJob = NoJob
PROPERTIES
    BatchDeletesAll
\* Once every uuid has been used and every row deleted, nothing is left to do.
CHECK_DEADLOCK FALSE
