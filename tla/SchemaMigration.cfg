\* Two jobs of up to two groups, one logged step, two crashes or failing copies.
SPECIFICATION Spec
CONSTANTS
    Jobs = {j1, j2}
    a = a
    b = b
    Targets = {a, b}
    Requests <- SmallRequests
    MaxGroups = 2
    Steps = {1}
    MaxFaults = 2
INVARIANTS
    TypeOK
    SchemaReady
    NothingDestroyed
    CurvesKept
PROPERTY Serves
\* The upgrade ends.
CHECK_DEADLOCK FALSE
