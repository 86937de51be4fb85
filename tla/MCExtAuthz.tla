----------------------------- MODULE MCExtAuthz -----------------------------
(***************************************************************************)
(* Small instances of ExtAuthz.  Texts of hosts, regexes and policies are  *)
(* the ones the tests and deploy/dev/policies.example.yaml use; the two    *)
(* engines are tabulated over them.                                        *)
(***************************************************************************)
EXTENDS ExtAuthz

MCRawHost == {"app.example.com", "App.Example.com", "wiki.example.com", ""}
MCLower(h) == IF h = "App.Example.com" THEN "app.example.com" ELSE h

MCPath == {"/", "/admin", "/public"}
MCRegex == {"^/admin", "^/", "("}
MCValidRegex == MCRegex \ {"("}
MCMatches(re, path) == re = "^/" \/ (re = "^/admin" /\ path = "/admin")

IsAdmin == "'admins' in groups"
LoggedIn == "user != ''"
Shortcut == "user != '' || undeclared"   \* an error once the left side is false
NotBool == "user"
Unknown == "undeclared"
Garbled == "user =="

MCExpr == {"true", IsAdmin, LoggedIn, Shortcut, NotBool, Unknown, Garbled}
MCValidExpr == MCExpr \ {Garbled}

Bool(b) == IF b THEN "true" ELSE "false"
MCExecute(expr, act) ==
    CASE expr = "true"     -> "true"
      [] expr = IsAdmin    -> Bool(\E i \in DOMAIN act.groups : act.groups[i] = "admins")
      [] expr = LoggedIn   -> Bool(act.user # "")
      [] expr = Shortcut -> IF act.user # "" THEN "true" ELSE "fault"
      [] expr = NotBool    -> "string"
      [] expr = Unknown    -> "fault"

\* So is every value the stub sessions and a portal URL hold.
MCHeaderContent(value) == TRUE

-----------------------------------------------------------------------------
MCRoute(host, default, extras) ==
    [host |-> host, defaultPolicy |-> default, extraPolicy |-> extras]
MCExtra(re, policy) == [pathRegex |-> re, policy |-> policy]
Document(routes) == [value |-> "document", routes |-> routes]

\* Extras whose order matters.
Ordered == Document(<<
    MCRoute("app.example.com", "true", <<MCExtra("^/admin", IsAdmin), MCExtra("^/", LoggedIn)>>),
    MCRoute("wiki.example.com", "true", <<>>)>>)

\* The same host twice, in two spellings; the second is stricter, and faults
\* for an anonymous subject.
Twice == Document(<<
    MCRoute("app.example.com", "true", <<>>),
    MCRoute("App.Example.com", Shortcut, <<MCExtra("^/admin", IsAdmin)>>)>>)

\* A good route before one whose regex, and one whose policy, is invalid.
BadRegex == Document(<<
    MCRoute("wiki.example.com", "true", <<>>),
    MCRoute("app.example.com", "true", <<MCExtra("^/admin", "true"), MCExtra("(", IsAdmin)>>)>>)
BadPolicy == Document(<<
    MCRoute("app.example.com", "true", <<>>),
    MCRoute("wiki.example.com", NotBool, <<>>)>>)

NoEnv(value) == [value |-> value, routes |-> <<>>]

RolloutGood == <<Ordered, Twice>>
RolloutBad == <<Ordered, BadRegex>>
RolloutAll == <<NoEnv("unset"), Ordered, NoEnv("malformed"), BadPolicy, Twice, NoEnv("empty")>>

-----------------------------------------------------------------------------
Uri(path, query) == [path |-> path, query |-> query]
Cookie(token) == <<[key |-> CookieName, value |-> token]>>

MCText == {"authroute_session", "theme", "admin-token", "user-token", "expired-token"}

NoHeaders == [name \in HeaderNames |-> <<>>]

Forwarded(host, uri, cookies) ==
    [NoHeaders EXCEPT !["x-forwarded-host"] = <<host>>,
                      !["x-forwarded-uri"] = <<uri>>,
                      !["cookie"] = cookies]

AnonymousAdmin == Forwarded("App.Example.com", Uri("/admin", "x=1"), <<>>)
UserAdmin == Forwarded("app.example.com", Uri("/admin", ""), <<Cookie("user-token")>>)
\* Another pair, a bare one and a second session pair around the session's.
AdminAdmin == Forwarded("app.example.com", Uri("/admin", ""),
    << <<Bare, [key |-> "theme", value |-> "user-token"],
         [key |-> CookieName, value |-> "admin-token"],
         [key |-> CookieName, value |-> "user-token"]>> >>)
\* Two sessions in one header, and the host in Host only.
UserHome == [Forwarded("app.example.com", Uri("/", ""),
                       <<Cookie("user-token") \o Cookie("admin-token")>>)
                EXCEPT !["x-forwarded-host"] = <<>>, !["host"] = <<"App.Example.com">>]
StaleHome == Forwarded("app.example.com", Uri("/", ""), <<Cookie("expired-token")>>)
AnonymousHome == Forwarded("app.example.com", Uri("/public", ""), <<>>)
\* A cookie header that is not visible ASCII, and a second one that is.
OpaqueWiki == [Forwarded("wiki.example.com", Uri("/", ""), <<Unreadable, Cookie("admin-token")>>)
                  EXCEPT !["x-forwarded-proto"] = <<"http">>]
\* An unreadable forwarded host falls back to Host.
UserWiki == [Forwarded("wiki.example.com", Uri("/", ""), <<Cookie("user-token")>>)
                EXCEPT !["x-forwarded-host"] = <<Unreadable>>, !["host"] = <<"wiki.example.com">>]

ManyRequests ==
    {AnonymousAdmin, UserAdmin, AdminAdmin, UserHome, StaleHome, AnonymousHome,
     OpaqueWiki, UserWiki, NoHeaders}
OneRequest == {UserAdmin}
=============================================================================
