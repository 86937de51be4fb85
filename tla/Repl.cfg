SPECIFICATION Spec
CONSTANTS
    None = None
    Unreadable = Unreadable
    Bare = Bare
    PortalUrl = "https://auth.example.com"
    CookieName = "authroute_session"
    Text <- MCText
    RawHost = {""}
    Lower <- MCLower
    Path = {"/"}
    Regex = {}
    ValidRegex = {}
    Matches <- MCMatches
    Expr <- MCExpr
    ValidExpr <- MCValidExpr
    Execute <- MCExecute
    HeaderContent <- MCHeaderContent
    Piece = {"", "admins"}
INVARIANTS
    ForecastsService
    InductiveInvariant
CHECK_DEADLOCK FALSE
