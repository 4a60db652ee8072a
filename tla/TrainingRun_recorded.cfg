\* One group of two steps, and one failing write of a loss point.
SPECIFICATION DetailSpec
CONSTANTS
    NumGroups = 1
    NumSteps = 2
    Curve <- OuterSpaces
    Faulty = {"point"}
    MaxFaults = 1
    MaxRestarts = 0
INVARIANT EndRecorded
\* The job ends.
CHECK_DEADLOCK FALSE
