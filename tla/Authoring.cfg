SPECIFICATION FairSpec
CONSTANTS
    None = None
    RawHost = {""}
    Lower <- MCLower
    Path = {"/"}
    Regex = {}
    ValidRegex = {}
    Matches <- MCMatches
    Expr = {"true", "string"}
    ValidExpr = {"true", "string"}
    Execute <- MCExecute
    Namespace = {"monitoring"}
    Name = {"grafana"}
    Group = {"gateway.networking.k8s.io"}
    GatewayGroup = "gateway.networking.k8s.io"
    Write = {w1}
    Specs <- MCSpecs
    Pod = {p1, p2}
    Encoding = {"DER"}
    Published = "DER"
    Readable = {"DER"}
    Injected = FALSE
    MaxRuns = 2
    MaxCrashes = 1
    MaxEdits = 1
    MaxFaults = 1
    MaxErrors = 1
INVARIANTS
    InductiveInvariant
PROPERTIES
    Guards
    KeptWasReviewed
    RefusedForAReason
    EveryWriteAnswered
CHECK_DEADLOCK FALSE
