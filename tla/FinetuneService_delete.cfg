\* A running row is deleted without waiting for the worker.
SPECIFICATION Spec
CONSTANTS
    Jobs = {j1}
    Requests = {r1}
    NumGroups = 1
    BatchLimit = 1
    MaxCrashes = 0
    NoJob = NoJob
PROPERTIES
    DeleteWaitsForRunning
\* Once every uuid has been used and every row deleted, nothing is left to do.
CHECK_DEADLOCK FALSE
