---------------------------- MODULE ChecksProofs ----------------------------
(***************************************************************************)
(* What compiling, looking up and deciding compute, for every document,    *)
(* header map and engine: the table agrees with the document it came from, *)
(* and the answer to a check with what the document says of it.            *)
(***************************************************************************)
EXTENDS Checks, PositionTheorems

-----------------------------------------------------------------------------
(* The table.                                                              *)

\* The table a replica starts from reflects no route.
LEMMA EmptyReflects ==
    ASSUME NEW routes PROVE TableReflects(EmptyTable, routes, 0)
  BY DEF TableReflects, EmptyTable

\* Inserting the next route extends what the table reflects by that route.
LEMMA InsertReflects ==
    ASSUME NEW routes, NEW n \in Nat, NEW t, TableReflects(t, routes, n)
    PROVE  TableReflects(Insert(t, routes[n + 1]), routes, n + 1)
  <1> DEFINE route == routes[n + 1]
             new == Insert(t, route)
             key(i) == Lower(routes[i].host)
             entry(i) == [default |-> routes[i].defaultPolicy, extra |-> routes[i].extraPolicy]
  <1>1. 1..(n + 1) = (1..n) \cup {n + 1}
    OBVIOUS
  <1>2. DOMAIN new = DOMAIN t \cup {key(n + 1)}
    BY DEF Insert, Hostname
  <1>3. DOMAIN new = {key(i) : i \in 1..(n + 1)}
    BY <1>1, <1>2 DEF TableReflects
  <1>4. new[key(n + 1)] = entry(n + 1)
    BY DEF Insert, Hostname
  <1>5. ASSUME NEW i \in 1..(n + 1), \A j \in 1..(n + 1) : j > i => key(j) # key(i)
        PROVE  new[key(i)] = entry(i)
    <2>1. CASE i = n + 1
      BY <2>1, <1>4
    <2>2. CASE i \in 1..n
      <3>1. key(i) # key(n + 1)
        BY <2>2, <1>5
      <3>2. key(i) \in DOMAIN t /\ t[key(i)] = entry(i)
        BY <2>2, <1>5 DEF TableReflects
      <3>3. new[key(i)] = t[key(i)]
        BY <3>1, <3>2 DEF Insert, Hostname
      <3> QED
        BY <3>2, <3>3
    <2> QED
      BY <2>1, <2>2, <1>1
  <1> HIDE DEF new, key, entry
  <1>6. /\ DOMAIN new = {key(i) : i \in 1..(n + 1)}
        /\ \A i \in 1..(n + 1) :
              (\A j \in 1..(n + 1) : j > i => key(j) # key(i)) => new[key(i)] = entry(i)
    BY <1>3, <1>5
  <1> QED
    BY <1>6 DEF TableReflects, new, key, entry

\* A host is in the table exactly if a route governs it, which the entry is.
LEMMA TableGoverns ==
    ASSUME NEW routes \in Seq(Route), NEW t, TableReflects(t, routes, Len(routes)),
           NEW host, Lower(host) = host
    PROVE  /\ host \in DOMAIN t <=> \E i \in DOMAIN routes : Governs(routes, i, host)
           /\ \A i \in DOMAIN routes : Governs(routes, i, host) =>
                 t[host] = [default |-> routes[i].defaultPolicy,
                            extra |-> routes[i].extraPolicy]
  <1> DEFINE I == {i \in DOMAIN routes : Lower(routes[i].host) = host}
  <1>0. DOMAIN routes = 1..Len(routes) /\ Len(routes) \in Nat
    OBVIOUS
  <1>1. host \in DOMAIN t <=> I # {}
    BY <1>0 DEF TableReflects
  <1>2. \A i : Governs(routes, i, host) => i \in I
    BY DEF Governs
  <1>3. I # {} => \E i \in I : Governs(routes, i, host)
    <2> SUFFICES ASSUME I # {} PROVE \E i \in I : Governs(routes, i, host)
      OBVIOUS
    <2>1. PICK i \in I : \A j \in I : j <= i
      BY <1>0, GreatestPosition
    <2>2. \A j \in DOMAIN routes : j > i => Lower(routes[j].host) # Lower(host)
      BY <2>1, <1>0
    <2> QED
      BY <2>1, <2>2 DEF Governs
  <1>4. ASSUME NEW i \in DOMAIN routes, Governs(routes, i, host)
        PROVE  t[host] = [default |-> routes[i].defaultPolicy,
                          extra |-> routes[i].extraPolicy]
    BY <1>0, <1>4 DEF Governs, TableReflects
  <1> QED
    BY <1>1, <1>2, <1>3, <1>4

\* Looking a path up in an entry selects what its route selects.
LEMMA ResolveSelects ==
    ASSUME NEW t, NEW host \in DOMAIN t, NEW route \in Route,
           t[host] = [default |-> route.defaultPolicy, extra |-> route.extraPolicy],
           NEW path
    PROVE  /\ Resolve(t, host, path) \in Expr
           /\ \A expr : Selects(route, path, expr) <=> expr = Resolve(t, host, path)
  <1> DEFINE extras == route.extraPolicy
             hits == {i \in DOMAIN extras : Matches(extras[i].pathRegex, path)}
             first(i) == /\ i \in DOMAIN extras
                         /\ Matches(extras[i].pathRegex, path)
                         /\ \A j \in DOMAIN extras :
                               j < i => ~Matches(extras[j].pathRegex, path)
             k == CHOOSE i \in DOMAIN extras : first(i)
  <1>0. /\ extras \in Seq(Extra) /\ DOMAIN extras = 1..Len(extras) /\ Len(extras) \in Nat
        /\ route.defaultPolicy \in Expr
    BY DEF Route
  <1>1. Resolve(t, host, path) = IF hits = {} THEN route.defaultPolicy ELSE extras[k].policy
    BY DEF Resolve, IsFirst
  <1>2. CASE hits = {}
    BY <1>0, <1>1, <1>2 DEF Selects
  <1>3. CASE hits # {}
    <2>1. PICK i \in hits : \A j \in hits : i <= j
      BY <1>0, <1>3, LeastPosition
    <2>2. first(i)
      BY <2>1, <1>0
    <2>3. first(k)
      BY <2>2
    <2>4. \A j : first(j) => j = k
      BY <2>3, <1>0
    <2>5. extras[k].policy \in Expr
      <3>1. k \in DOMAIN extras
        BY <2>3
      <3> HIDE DEF k, extras
      <3>2. extras[k] \in Extra
        BY <3>1, <1>0
      <3> QED
        BY <3>2 DEF Extra
    <2>6. ASSUME NEW expr
          PROVE  Selects(route, path, expr) <=> \E j : first(j) /\ expr = extras[j].policy
      BY <1>3 DEF Selects
    <2>7. Resolve(t, host, path) = extras[k].policy
      BY <1>1, <1>3
    <2> HIDE DEF k, first
    <2> QED
      BY <2>3, <2>4, <2>5, <2>6, <2>7
  <1> QED
    BY <1>2, <1>3

\* What a document says of a check is well defined: it gives it one verdict, and
\* gives it one exactly if some route names the check's host, in any case.
THEOREM DocumentDecides ==
    ASSUME NEW routes \in Seq(Route), NEW host, NEW path, NEW subject
    PROVE  /\ \A v, u : /\ DocumentSays(routes, host, path, subject, v)
                        /\ DocumentSays(routes, host, path, subject, u)
                        => v = u
           /\ (\E v : DocumentSays(routes, host, path, subject, v))
                 <=> \E i \in DOMAIN routes : Lower(routes[i].host) = Lower(host)
  <1> DEFINE I == {i \in DOMAIN routes : Lower(routes[i].host) = Lower(host)}
  <1>0. DOMAIN routes = 1..Len(routes) /\ Len(routes) \in Nat
    OBVIOUS
  <1>1. \A i, j : Governs(routes, i, host) /\ Governs(routes, j, host) => i = j
    BY <1>0 DEF Governs
  <1>2. ASSUME NEW i \in DOMAIN routes
        PROVE  \E expr \in Expr : \A other : Selects(routes[i], path, other) <=> other = expr
    <2> DEFINE route == routes[i]
               t == [h \in {host} |-> [default |-> route.defaultPolicy,
                                       extra |-> route.extraPolicy]]
    <2>1. route \in Route /\ host \in DOMAIN t
          /\ t[host] = [default |-> route.defaultPolicy, extra |-> route.extraPolicy]
      OBVIOUS
    <2> HIDE DEF route, t
    <2>2. /\ Resolve(t, host, path) \in Expr
          /\ \A expr : Selects(route, path, expr) <=> expr = Resolve(t, host, path)
      BY <2>1, ResolveSelects
    <2> QED
      BY <2>2 DEF route
  <1>3. ASSUME NEW v, NEW u, DocumentSays(routes, host, path, subject, v),
               DocumentSays(routes, host, path, subject, u)
        PROVE  v = u
    BY <1>1, <1>2, <1>3 DEF DocumentSays
  <1>4. ASSUME I # {} PROVE \E v : DocumentSays(routes, host, path, subject, v)
    <2>1. PICK i \in I : \A j \in I : j <= i
      BY <1>0, <1>4, GreatestPosition
    <2>2. Governs(routes, i, host)
      BY <1>0, <2>1 DEF Governs
    <2>3. PICK expr \in Expr : Selects(routes[i], path, expr)
      BY <1>2, <2>1
    <2>4. DocumentSays(routes, host, path, subject, Evaluate(expr, subject))
      BY <2>1, <2>2, <2>3 DEF DocumentSays
    <2> QED
      BY <2>4
  <1>5. ASSUME NEW v, DocumentSays(routes, host, path, subject, v) PROVE I # {}
    BY <1>5 DEF DocumentSays, Governs
  <1> QED
    BY <1>3, <1>4, <1>5

-----------------------------------------------------------------------------
(* The decision.                                                           *)

\* A host that is in a header map, or absent, normalizes to a normal form.
LEMMA HostNormal ==
    ASSUME NEW headers, IsHeaderMap(headers)
    PROVE  Lower(FromHeaders(headers).host) = FromHeaders(headers).host
  <1>1. \A name \in {"x-forwarded-host", "host"} :
           Header(headers, name) \in RawHost \cup {None}
    <2> SUFFICES ASSUME NEW name \in {"x-forwarded-host", "host"}
                 PROVE  Header(headers, name) \in RawHost \cup {None}
      OBVIOUS
    <2>1. headers[name] \in Seq(RawHost \cup {Unreadable})
      BY DEF IsHeaderMap
    <2>2. headers[name] # <<>> => Head(headers[name]) \in RawHost \cup {Unreadable}
      BY <2>1
    <2> QED
      BY <2>2 DEF Header
  <1>2. OrElse(OrElse(Header(headers, "x-forwarded-host"), Header(headers, "host")), "")
           \in RawHost
    BY <1>1, HostAssumption DEF OrElse
  <1> QED
    BY <1>2, HostAssumption DEF FromHeaders, Hostname

\* The session the handler resolves is the one the check carries.
LEMMA SessionAgrees ==
    ASSUME NEW headers, IsHeaderMap(headers)
    PROVE  ResolveSession(FromHeaders(headers).cookie, CookieName) = SubjectOf(headers)
  <1> DEFINE values == headers["cookie"]
             c == Head(values)
             named(i) == IF c[i] = Bare THEN FALSE ELSE c[i].key = CookieName
             first(i) == i \in DOMAIN c /\ named(i) /\ \A j \in DOMAIN c : j < i => ~named(j)
  <1>0. values \in Seq(CookieValue \cup {Unreadable})
    BY DEF IsHeaderMap
  <1>1. FromHeaders(headers).cookie = Header(headers, "cookie")
    BY DEF FromHeaders
  <1>2. CASE values = <<>> \/ c = Unreadable
    <2>1. Header(headers, "cookie") = None
      BY <1>2 DEF Header
    <2>2. \A token : ~Presents(headers, token)
      BY <1>2 DEF Presents
    <2> QED
      BY <1>1, <2>1, <2>2 DEF ResolveSession, SubjectOf
  <1>3. CASE values # <<>> /\ c # Unreadable
    <2>1. c \in CookieValue /\ Header(headers, "cookie") = c /\ c # None
      BY <1>0, <1>3, HeaderAssumption DEF Header
    <2>2. c \in Seq(Pair \cup {Bare}) /\ DOMAIN c = 1..Len(c) /\ Len(c) \in Nat
      BY <2>1 DEF CookieValue
    <2>3. \A i \in DOMAIN c : named(i) => c[i] = [key |-> CookieName, value |-> c[i].value]
      BY <2>2 DEF Pair
    <2>4. \A token \in DOMAIN StubSessions :
             Presents(headers, token) <=> \E i : first(i) /\ c[i].value = token
      <3> SUFFICES ASSUME NEW token \in DOMAIN StubSessions
                   PROVE  Presents(headers, token) <=> \E i : first(i) /\ c[i].value = token
        OBVIOUS
      <3>1. [key |-> CookieName, value |-> token] # Bare
        BY HeaderAssumption, SessionAssumption DEF Pair
      <3>2. \A i \in DOMAIN c : c[i] = [key |-> CookieName, value |-> token] <=>
               named(i) /\ c[i].value = token
        <4> SUFFICES ASSUME NEW i \in DOMAIN c
                     PROVE  c[i] = [key |-> CookieName, value |-> token] <=>
                               named(i) /\ c[i].value = token
          OBVIOUS
        <4>1. named(i) /\ c[i].value = token => c[i] = [key |-> CookieName, value |-> token]
          BY <2>3
        <4>2. c[i] = [key |-> CookieName, value |-> token] => named(i) /\ c[i].value = token
          BY <3>1
        <4> QED
          BY <4>1, <4>2
      <3> QED
        BY <1>3, <3>2 DEF Presents
    <2>5. ResolveSession(c, CookieName) =
             LET v == SessionCookie(c, CookieName) IN
             IF v \in DOMAIN StubSessions THEN StubSessions[v] ELSE None
      BY <2>1 DEF ResolveSession
    <2>6. CASE \A i \in DOMAIN c : ~named(i)
      <3>1. SessionCookie(c, CookieName) = None
        BY <2>6 DEF SessionCookie
      <3>2. None \notin DOMAIN StubSessions
        BY SessionAssumption
      <3>3. \A token \in DOMAIN StubSessions : ~Presents(headers, token)
        BY <2>4, <2>6
      <3> QED
        BY <1>1, <2>1, <2>5, <3>1, <3>2, <3>3 DEF SubjectOf
    <2>7. CASE \E i \in DOMAIN c : named(i)
      <3> DEFINE k == CHOOSE i \in DOMAIN c : first(i)
      <3>1. SessionCookie(c, CookieName) = c[k].value
        BY <2>7 DEF SessionCookie, IsFirst
      <3>2. first(k)
        <4>1. {i \in DOMAIN c : named(i)} # {}
          BY <2>7
        <4>2. PICK i \in {i \in DOMAIN c : named(i)} :
                 \A j \in {i2 \in DOMAIN c : named(i2)} : i <= j
          BY <2>2, <4>1, LeastPosition
        <4>3. first(i)
          BY <4>2, <2>2
        <4> QED
          BY <4>3
      <3>3. \A i : first(i) => i = k
        BY <3>2, <2>2
      <3> HIDE DEF k, first
      <3>4. \A token \in DOMAIN StubSessions :
               Presents(headers, token) <=> token = c[k].value
        BY <2>4, <3>2, <3>3
      <3> QED
        BY <1>1, <2>1, <2>5, <3>1, <3>4 DEF SubjectOf
    <2> QED
      BY <2>6, <2>7
  <1> QED
    BY <1>2, <1>3

\* The answer to a check is 200 exactly when the document permits it: whatever
\* the header map, the document and the engines' answers.
THEOREM AnswerAgrees ==
    ASSUME NEW routes \in Seq(Route), NEW t, TableReflects(t, routes, Len(routes)),
           NEW headers, IsHeaderMap(headers)
    PROVE  AuthzResponse(t, headers).status = 200 <=> Permits(routes, headers)
  <1> DEFINE req == FromHeaders(headers)
             subject == SubjectOf(headers)
             asked == OrElse(subject, DefaultSubject)
             policy == Resolve(t, req.host, PathOf(req))
             allowed == policy # None /\ Evaluate(policy, asked) = "true"
  <1>1. AuthzResponse(t, headers).status = 200 <=> Decide(t, req, subject).kind = "Allow"
    BY SessionAgrees
    DEF AuthzResponse, AllowResponse, RedirectResponse, Response, Decide, Deny, Allow,
        Forbidden, Redirect
  <1>2. Decide(t, req, subject).kind = "Allow" <=> allowed
    BY DEF Decide, Deny, Allow, Forbidden, Redirect
  <1>3. allowed <=> Permits(routes, headers)
    <2>1. Permits(routes, headers) <=>
             \E i \in DOMAIN routes :
                /\ Governs(routes, i, req.host)
                /\ \E expr \in Expr : /\ Selects(routes[i], PathOf(req), expr)
                                      /\ Evaluate(expr, asked) = "true"
      BY DEF Permits, Says, DocumentSays
    <2>2. Lower(req.host) = req.host
      BY HostNormal
    <2>3. CASE req.host \notin DOMAIN t
      <3>1. policy = None
        BY <2>3 DEF Resolve
      <3>2. \A i \in DOMAIN routes : ~Governs(routes, i, req.host)
        BY <2>2, <2>3, TableGoverns
      <3> QED
        BY <2>1, <3>1, <3>2
    <2>4. CASE req.host \in DOMAIN t
      <3>1. PICK i \in DOMAIN routes : Governs(routes, i, req.host)
        BY <2>2, <2>4, TableGoverns
      <3>2. \A j \in DOMAIN routes : Governs(routes, j, req.host) =>
               /\ policy \in Expr
               /\ \A expr : Selects(routes[j], PathOf(req), expr) <=> expr = policy
        <4> SUFFICES ASSUME NEW j \in DOMAIN routes, Governs(routes, j, req.host)
                     PROVE  /\ policy \in Expr
                            /\ \A expr : Selects(routes[j], PathOf(req), expr) <=> expr = policy
          OBVIOUS
        <4>1. t[req.host] = [default |-> routes[j].defaultPolicy,
                             extra |-> routes[j].extraPolicy]
          BY <2>2, TableGoverns
        <4>2. routes[j] \in Route
          OBVIOUS
        <4> QED
          BY <2>4, <4>1, <4>2, ResolveSelects
      <3>3. policy # None
        BY <3>1, <3>2, EngineAssumption
      <3> HIDE DEF policy, asked, req
      <3> QED
        BY <2>1, <3>1, <3>2, <3>3
    <2> QED
      BY <2>3, <2>4
  <1> QED
    BY <1>1, <1>2, <1>3

\* What the answer carries fits its request, whatever the table decides: a 200
\* the identity of the request's own session, a refusal nothing but the way back to
\* its URL, and that only for those who have no session.
THEOREM AnswerFits ==
    ASSUME NEW t, NEW headers, IsHeaderMap(headers)
    PROVE  LET answer == AuthzResponse(t, headers)
               subject == SubjectOf(headers)
           IN  /\ answer.status = 200 =>
                    answer.remote = IF subject = None THEN <<>> ELSE SetHeaders(Identity(subject))
               /\ answer.status # 200 =>
                    /\ answer.remote = <<>>
                    /\ subject # None => answer.location = None
                    /\ subject = None =>
                          /\ answer.status # 403
                          /\ answer.location # None =>
                                answer.location.rd = OriginalUrl(FromHeaders(headers))
  <1> DEFINE req == FromHeaders(headers)
             subject == SubjectOf(headers)
             decision == Decide(t, req, subject)
             answer == AuthzResponse(t, headers)
  <1>1. answer = CASE decision.kind = "Allow"     -> AllowResponse(decision.subject)
                   [] decision.kind = "Forbidden" -> Response(403, <<>>, None)
                   [] decision.kind = "Redirect"  -> RedirectResponse(decision.location)
    BY SessionAgrees DEF AuthzResponse
  <1>2. \/ decision = Allow(subject)
        \/ subject # None /\ decision = Forbidden
        \/ subject = None /\ decision = Redirect(req)
    BY DEF Decide, Deny
  <1> HIDE DEF decision, answer, subject, req
  <1>3. CASE decision = Allow(subject)
    <2>1. answer = AllowResponse(subject)
      BY <1>1, <1>3 DEF Allow
    <2>2. answer.status = 200 /\ answer.remote = IF subject = None THEN <<>> ELSE SetHeaders(Identity(subject))
      BY <2>1 DEF AllowResponse, Response
    <2> QED
      BY <2>2 DEF answer, subject
  <1>4. CASE subject # None /\ decision = Forbidden
    <2>1. answer = Response(403, <<>>, None)
      BY <1>1, <1>4 DEF Forbidden
    <2> QED
      BY <1>4, <2>1 DEF Response, answer, subject
  <1>5. CASE subject = None /\ decision = Redirect(req)
    <2>1. answer = RedirectResponse(LoginUrl(OriginalUrl(req)))
      BY <1>1, <1>5 DEF Redirect
    <2>2. answer.status = 302
      BY <2>1 DEF RedirectResponse, Response
    <2>3. answer.location # None => answer.location.rd = OriginalUrl(req)
      BY <2>1 DEF RedirectResponse, Response, LoginUrl
    <2>4. answer.remote = <<>>
      BY <2>1 DEF RedirectResponse, Response
    <2> QED
      BY <1>5, <2>2, <2>3, <2>4 DEF answer, subject, req
  <1> QED
    BY <1>2, <1>3, <1>4, <1>5
=============================================================================
