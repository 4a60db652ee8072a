\* Jobs of up to two groups, two prefixes, one reader, one crash or failure.
SPECIFICATION Spec
CONSTANTS
    a = a
    b = b
    blank = blank
    Columns = {a, b}
    Blank = blank
    Requests <- SmallRequests
    Fixed = "finetuned-ckpt"
    Prefixes = {"finetuned-ckpt", "custom"}
    Readers = {r}
    NoName = NoName
    MaxFaults = 1
INVARIANTS
    TypeOK
    PublishedWhole
    NeverWrongModel
    ServedOncePublished
PROPERTIES
    MetadataLast
    EverybodyEnds
\* Once the job is gone and its release unreadable, nothing is left to do.
CHECK_DEADLOCK FALSE
