SPECIFICATION Spec
CONSTANTS
    None = None
    Unreadable = Unreadable
    Bare = Bare
    PortalUrl = "https://auth.example.com"
    CookieName = "authroute_session"
    Text <- MCText
    RawHost <- MCRawHost
    Lower <- MCLower
    Path <- MCPath
    Regex <- MCRegex
    ValidRegex <- MCValidRegex
    Matches <- MCMatches
    Expr <- MCExpr
    ValidExpr <- MCValidExpr
    Execute <- MCExecute
    HeaderContent <- MCHeaderContent
    Replica = {r1, r2}
    Query = {q1}
    Requests <- ManyRequests
    Rollout <- RolloutAll
    MaxStops = 1
INVARIANTS
    TypeOK
    AnswerIsPolicy
    IdentityIsOwn
    NoLoginLoop
    ServesWholePolicy
    UpstreamJustified
    InductiveInvariant
PROPERTIES
    KeepsPromise
CHECK_DEADLOCK FALSE
