\* Three groups of two steps, two of the same stripped target, failing calls, one restart,
\* a client that polls.
SPECIFICATION DetailSpec
CONSTANTS
    NumGroups = 3
    NumSteps = 2
    Curve <- OuterSpaces
    Faulty = {"loading", "starting", "reporting", "progress", "point", "stepping", "deciding",
              "marking", "completing", "cancelling", "failing"}
    MaxFaults = 1
    MaxRestarts = 1
INVARIANTS
    TypeOK
    CompletedHasCurve
    PointsReported
    EndRecordedUnlessFaulty
    PolledWhole
PROPERTIES
    ProgressForward
    FollowsLifecycle
    RunEnds
\* The job ends.
CHECK_DEADLOCK FALSE
