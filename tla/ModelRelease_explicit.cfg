\* One group, trained under another prefix than the fixed one.
SPECIFICATION Spec
CONSTANTS
    a = a
    b = b
    blank = blank
    Columns = {a, b}
    Blank = blank
    Requests <- SmallRequests
    Fixed = "finetuned-ckpt"
    Prefixes = {"finetuned-ckpt", "custom"}
    Readers = {}
    NoName = NoName
    MaxFaults = 0
INVARIANT ModelDirPreferred
CHECK_DEADLOCK FALSE
