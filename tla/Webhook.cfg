SPECIFICATION FairSpec
CONSTANTS
    None = None
    Pod = {p1, p2}
    Encoding = {"DER", "PEM"}
    Published = "DER"
    Readable = {"PEM"}
    MaxRuns = 3
    MaxCrashes = 2
    MaxEdits = 2
    MaxErrors = 1
INVARIANTS
    EditsSurvive
    ServingIsPublished
    InductiveInvariant
PROPERTIES
    NoOlderCertificate
    ComesToServe
CHECK_DEADLOCK FALSE
