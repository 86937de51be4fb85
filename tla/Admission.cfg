SPECIFICATION FairSpec
CONSTANTS
    None = None
    RawHost <- MCRawHost
    Lower <- MCLower
    Path = {"/", "/public"}
    Regex <- MCRegex
    ValidRegex <- MCValidRegex
    Matches <- MCMatches
    Expr <- MCExpr
    ValidExpr <- MCValidExpr
    Execute <- MCExecute
    Namespace = {"monitoring", "default"}
    Name = {"grafana"}
    Group = {"gateway.networking.k8s.io", "apps"}
    GatewayGroup = "gateway.networking.k8s.io"
    Write = {w1, w2}
    Specs <- SpecsBad
    MaxErrors = 1
INVARIANTS
    StoredCompiles
    InductiveInvariant
PROPERTIES
    StoredHadTarget
    EveryWriteAnswered
CHECK_DEADLOCK FALSE
