SPECIFICATION Spec
CONSTANTS
    None = None
    Unreadable = Unreadable
    Bare = Bare
    PortalUrl = "https://auth.example.com"
    CookieName = "authroute_session"
    Text <- MCText
    RawHost <- MCRawHost
    Lower <- MCLower
    Path <- MCPath
    Regex <- MCRegex
    ValidRegex <- MCValidRegex
    Matches <- MCMatches
    Expr <- MCExpr
    ValidExpr <- MCValidExpr
    Execute <- MCExecute
    HeaderContent <- MCHeaderContent
    Replica = {r1}
    Query = {q1}
    Requests <- ManyRequests
    Rollout <- RolloutGood
    MaxStops = 0
INVARIANTS
    BadTargetRejected
CHECK_DEADLOCK FALSE
