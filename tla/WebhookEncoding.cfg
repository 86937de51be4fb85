SPECIFICATION Spec
CONSTANTS
    None = None
    Pod = {p1}
    Encoding = {"DER", "PEM"}
    Published = "DER"
    Readable = {"PEM"}
    MaxRuns = 2
    MaxCrashes = 1
    MaxEdits = 1
    MaxErrors = 1
INVARIANTS
    ServingIsTrusted
CHECK_DEADLOCK FALSE
