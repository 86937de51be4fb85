------------------------------- MODULE Checks -------------------------------
(***************************************************************************)
(* One ext_authz check, from Envoy's request headers to the response:      *)
(* authroute/src/check.rs, session.rs, decision.rs and the handler in      *)
(* main.rs.  The handler has no await point, so it is one step of the      *)
(* replica it runs at; this module says what that step computes.           *)
(***************************************************************************)
EXTENDS Policies

CONSTANTS
    Unreadable,        \* a header value HeaderValue::to_str rejects
    Bare,              \* a cookie pair without "="
    Text,              \* names and values in cookies
    PortalUrl,         \* AUTHROUTE_PORTAL_URL
    CookieName,        \* AUTHROUTE_COOKIE_NAME
    HeaderContent(_)   \* HeaderValue::from_str accepts it

-----------------------------------------------------------------------------
(* Reading the headers.  A header map gives each name its values, in the   *)
(* order received.                                                         *)

HeaderNames == {"x-forwarded-proto", "x-forwarded-host", "host",
                "x-forwarded-uri", "cookie"}

Pair == [key : Text, value : Text]
CookieValue == Seq(Pair \cup {Bare})

IsHeaderMap(headers) ==
    /\ DOMAIN headers = HeaderNames
    /\ \A name \in {"x-forwarded-host", "host"} :
          headers[name] \in Seq(RawHost \cup {Unreadable})
    /\ headers["cookie"] \in Seq(CookieValue \cup {Unreadable})

ASSUME HeaderAssumption == /\ Unreadable \notin RawHost /\ Unreadable \notin CookieValue
                           /\ Bare \notin Pair
                           /\ None # Unreadable /\ None \notin CookieValue

\* The first value, if there is one and it is visible ASCII.
Header(headers, name) ==
    IF headers[name] = <<>> THEN None
    ELSE IF Head(headers[name]) = Unreadable THEN None
    ELSE Head(headers[name])

OrElse(value, fallback) == IF value = None THEN fallback ELSE value

FromHeaders(headers) ==
    [proto  |-> OrElse(Header(headers, "x-forwarded-proto"), "https"),
     host   |-> Hostname(OrElse(OrElse(Header(headers, "x-forwarded-host"),
                                       Header(headers, "host")), "")),
     uri    |-> OrElse(Header(headers, "x-forwarded-uri"),
                       [path |-> "/", query |-> ""]),
     cookie |-> Header(headers, "cookie")]

\* What pathRegex matches: the uri up to the first "?".
PathOf(req) == req.uri.path

OriginalUrl(req) == [proto |-> req.proto, host |-> req.host, uri |-> req.uri]

-----------------------------------------------------------------------------
(* Sessions.  A readable cookie header is a sequence of pairs.             *)

StubSessions ==
    [token \in {"admin-token", "user-token"} |->
        IF token = "admin-token"
        THEN Subject("admin@example.com", <<"admins", "users">>,
                     "Admin User", "admin@example.com")
        ELSE Subject("user@example.com", <<"users">>,
                     "Regular User", "user@example.com")]

ASSUME SessionAssumption == /\ DOMAIN StubSessions \cup {CookieName} \subseteq Text
                            /\ None \notin Text

\* Mutant: the last pair with that name.
SessionCookieLast(cookie, name) ==
    LET hits == {i \in DOMAIN cookie :
                    IF cookie[i] = Bare THEN FALSE ELSE cookie[i].key = name}
    IN  IF hits = {} THEN None
        ELSE cookie[CHOOSE i \in hits : \A j \in hits : j <= i].value

\* The first pair with that name; a pair without "=" is passed over.
SessionCookie(cookie, name) ==
    LET named(pair) == IF pair = Bare THEN FALSE ELSE pair.key = name
    IN  IF \E i \in DOMAIN cookie : named(cookie[i])
        THEN cookie[CHOOSE i \in DOMAIN cookie : IsFirst(i, cookie, named)].value
        ELSE None

ResolveSession(cookie, name) ==
    IF cookie = None THEN None
    ELSE LET value == SessionCookie(cookie, name) IN
         IF value \in DOMAIN StubSessions THEN StubSessions[value] ELSE None

-----------------------------------------------------------------------------
(* The decision.                                                           *)

Allow(subject) == [kind |-> "Allow", subject |-> subject, location |-> None]
Forbidden == [kind |-> "Forbidden", subject |-> None, location |-> None]

\* The rd parameter stands for the percent-encoding of the URL it names.
LoginUrl(returnTo) == [portal |-> PortalUrl, rd |-> returnTo]

\* Mutant: return to the path, without the query.
RedirectToPath(req) ==
    [kind |-> "Redirect", subject |-> None,
     location |-> LoginUrl([OriginalUrl(req) EXCEPT !.uri.query = ""])]

Redirect(req) ==
    [kind |-> "Redirect", subject |-> None, location |-> LoginUrl(OriginalUrl(req))]

Deny(req, authenticated) == IF authenticated THEN Forbidden ELSE Redirect(req)

\* Mutant: a host without a policy is open.
DecideOpenHost(table, req, subject) ==
    LET policy == Resolve(table, req.host, PathOf(req))
        allowed == IF policy = None THEN TRUE
                   ELSE Evaluate(policy, OrElse(subject, DefaultSubject)) = "true"
    IN  IF allowed THEN Allow(subject) ELSE Deny(req, subject # None)

\* An evaluation error counts as "false".
Decide(table, req, subject) ==
    LET policy == Resolve(table, req.host, PathOf(req))
        allowed == /\ policy # None
                   /\ Evaluate(policy, OrElse(subject, DefaultSubject)) = "true"
    IN  IF allowed THEN Allow(subject) ELSE Deny(req, subject # None)

-----------------------------------------------------------------------------
(* The response.  A value that is not header content is left out.          *)

Identity(subject) ==
    [header \in {"Remote-User", "Remote-Groups", "Remote-Name", "Remote-Email"} |->
        CASE header = "Remote-User"   -> subject.username
          [] header = "Remote-Groups" -> subject.groups
          [] header = "Remote-Name"   -> subject.name
          [] header = "Remote-Email"  -> subject.email]

SetHeaders(values) ==
    [header \in {h \in DOMAIN values : HeaderContent(values[h])} |-> values[header]]

Response(status, remote, location) ==
    [status |-> status, remote |-> remote, location |-> location]

AllowResponse(subject) ==
    Response(200, IF subject = None THEN <<>> ELSE SetHeaders(Identity(subject)), None)

RedirectResponse(location) ==
    Response(302, <<>>, IF HeaderContent(location.portal) THEN location ELSE None)

AuthzResponse(table, headers) ==
    LET req == FromHeaders(headers)
        decision == Decide(table, req, ResolveSession(req.cookie, CookieName))
    IN  CASE decision.kind = "Allow"     -> AllowResponse(decision.subject)
          [] decision.kind = "Forbidden" -> Response(403, <<>>, None)
          [] decision.kind = "Redirect"  -> RedirectResponse(decision.location)

-----------------------------------------------------------------------------
(* What the answer to a check has to say, from the document alone.         *)

\* The readable cookie header's first pair of the session's name holds token.
Presents(headers, token) ==
    /\ headers["cookie"] # <<>>
    /\ LET cookie == Head(headers["cookie"]) IN
       /\ cookie # Unreadable
       /\ \E i \in DOMAIN cookie :
             /\ cookie[i] = [key |-> CookieName, value |-> token]
             /\ \A j \in DOMAIN cookie :
                   j < i => \/ cookie[j] = Bare
                            \/ cookie[j].key # CookieName

\* The subject whose session the check carries, None if it carries none.
SubjectOf(headers) ==
    IF \E token \in DOMAIN StubSessions : Presents(headers, token)
    THEN StubSessions[CHOOSE token \in DOMAIN StubSessions : Presents(headers, token)]
    ELSE None

\* A document answers a check with "true", "false" or an evaluation error.
Says(routes, headers, verdict) ==
    LET req == FromHeaders(headers) IN
    DocumentSays(routes, req.host, PathOf(req),
                 OrElse(SubjectOf(headers), DefaultSubject), verdict)

Permits(routes, headers) == Says(routes, headers, "true")
=============================================================================
