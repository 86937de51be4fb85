SPECIFICATION FairSpec
CONSTANTS
    None = None
    Unreadable = Unreadable
    Bare = Bare
    PortalUrl = "https://auth.example.com"
    CookieName = "authroute_session"
    Text <- MCText
    RawHost <- MCRawHost
    Lower <- MCLower
    Path <- MCPath
    Regex <- MCRegex
    ValidRegex <- MCValidRegex
    Matches <- MCMatches
    Expr <- MCExpr
    ValidExpr <- MCValidExpr
    Execute <- MCExecute
    HeaderContent <- MCHeaderContent
    Replica = {r1}
    Query = {q1, q2}
    Requests <- OneRequest
    Rollout <- RolloutBad
    MaxStops = 2
INVARIANTS
    AcceptedHasReplica
PROPERTIES
    EveryCheckSettles
    DrainEnds
    Available
CHECK_DEADLOCK FALSE
