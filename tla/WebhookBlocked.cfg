SPECIFICATION FairSpec
CONSTANTS
    None = None
    Pod = {p1}
    Encoding = {"DER", "PEM"}
    Published = "DER"
    Readable = {"DER", "PEM"}
    MaxRuns = 2
    MaxCrashes = 1
    MaxEdits = 1
    MaxErrors = 1
PROPERTIES
    BlockedOnlyBriefly
CHECK_DEADLOCK FALSE
