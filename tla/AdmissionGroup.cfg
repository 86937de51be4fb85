SPECIFICATION Spec
CONSTANTS
    None = None
    RawHost <- MCRawHost
    Lower <- MCLower
    Path = {"/", "/public"}
    Regex <- MCRegex
    ValidRegex <- MCValidRegex
    Matches <- MCMatches
    Expr <- MCExpr
    ValidExpr <- MCValidExpr
    Execute <- MCExecute
    Namespace = {"monitoring"}
    Name = {"grafana"}
    Group = {"gateway.networking.k8s.io", "apps"}
    GatewayGroup = "gateway.networking.k8s.io"
    Write = {w1}
    Specs <- SpecsGroups
    MaxErrors = 0
INVARIANTS
    StoredTargetsGatewayApi
CHECK_DEADLOCK FALSE
