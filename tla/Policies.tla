------------------------------ MODULE Policies ------------------------------
(***************************************************************************)
(* Host names, CEL policies, path regexes and the policy table: the code   *)
(* the request path and the admission webhook share (crate `api`) and the  *)
(* table the request path looks a check up in (authroute/src/policy.rs).   *)
(*                                                                         *)
(* The cel and regex engines are constants: which texts they accept and    *)
(* what they answer.  Everything AuthRoute does with those answers is      *)
(* defined here.                                                           *)
(***************************************************************************)
EXTENDS Naturals, Sequences

CONSTANTS
    None,            \* Rust's Option::None
    RawHost,         \* host names as written in a header or in YAML
    Lower(_),        \* str::make_ascii_lowercase
    Path,            \* request paths
    Regex,           \* path patterns, valid and invalid
    ValidRegex,      \* those regex::Regex::new accepts
    Matches(_, _),   \* Regex::is_match(pattern, path)
    Expr,            \* policy texts, valid and invalid
    ValidExpr,       \* those cel::Program::compile accepts
    Execute(_, _)    \* Program::execute(text, activation)

Hostname(raw) == Lower(raw)

ASSUME HostAssumption ==
    /\ "" \in RawHost
    /\ None \notin RawHost
    /\ \A h \in RawHost : Lower(Lower(h)) = Lower(h)

ASSUME EngineAssumption ==
    /\ ValidRegex \subseteq Regex
    /\ ValidExpr \subseteq Expr
    /\ None \notin Expr

-----------------------------------------------------------------------------
(* Subjects (api/src/subject.rs) and what a policy sees of one.            *)

Subject(username, groups, name, email) ==
    [username |-> username, groups |-> groups, name |-> name, email |-> email]

DefaultSubject == Subject("", <<>>, "", "")

SampleSubject ==
    Subject("sample@example.com", <<"users", "admins">>,
            "Sample User", "sample@example.com")

\* `claims` is reserved and empty; name and email are not bound.
Activation(subject) ==
    [user |-> subject.username, groups |-> subject.groups, claims |-> <<>>]

-----------------------------------------------------------------------------
(* CEL policies (api/src/validate_cel.rs).  Execute answers "true" or      *)
(* "false" for a bool, "fault" for an execution error, anything else for a *)
(* value of another type.                                                  *)

Booleans == {"true", "false"}

Evaluate(expr, subject) ==
    LET value == Execute(expr, Activation(subject)) IN
    IF value = "fault" THEN "Evaluate"
    ELSE IF value \in Booleans THEN value
    ELSE "NotBoolean"

\* Parse, then dry-run against the sample subject.
CompileCelPolicy(expr) ==
    IF expr \notin ValidExpr THEN "Parse"
    ELSE LET dryRun == Evaluate(expr, SampleSubject) IN
         IF dryRun \in Booleans THEN "ok" ELSE dryRun

CompilePathRegex(re) == IF re \in ValidRegex THEN "ok" ELSE "Regex"

-----------------------------------------------------------------------------
(* The policy document and the table compiled from it.                     *)

Extra == [pathRegex : Regex, policy : Expr]
Route == [host : RawHost, defaultPolicy : Expr, extraPolicy : Seq(Extra)]

CompiledRoute == [default : Expr, extra : Seq(Extra)]
IsTable(table) ==
    /\ DOMAIN table \subseteq {Hostname(h) : h \in RawHost}
    /\ table \in [DOMAIN table -> CompiledRoute]

EmptyTable == [host \in {} |-> None]

CompileExtra(extra) ==
    IF CompilePathRegex(extra.pathRegex) # "ok"
    THEN "Regex" ELSE CompileCelPolicy(extra.policy)

\* A position of s that P holds at and at no earlier one.
IsFirst(i, s, P(_)) ==
    i \in DOMAIN s /\ P(s[i]) /\ \A j \in DOMAIN s : j < i => ~P(s[j])

\* The extras in order, then the default: the first error is the answer.
CompileRoute(route) ==
    LET fails(extra) == CompileExtra(extra) # "ok"
        extras == route.extraPolicy
    IN  IF \E i \in DOMAIN extras : fails(extras[i])
        THEN CompileExtra(extras[CHOOSE i \in DOMAIN extras : IsFirst(i, extras, fails)])
        ELSE CompileCelPolicy(route.defaultPolicy)

\* Mutant: the key is the host as written.
InsertAsWritten(table, route) ==
    LET compiled == [default |-> route.defaultPolicy, extra |-> route.extraPolicy]
    IN  [h \in DOMAIN table \cup {route.host} |->
            IF h = route.host THEN compiled ELSE table[h]]

\* HashMap insertion while collecting: a host seen again replaces the entry.
Insert(table, route) ==
    LET host == Hostname(route.host)
        compiled == [default |-> route.defaultPolicy, extra |-> route.extraPolicy]
    IN  [h \in DOMAIN table \cup {host} |-> IF h = host THEN compiled ELSE table[h]]

\* Mutant: the last extra that matches wins.
ResolveLast(table, host, path) ==
    IF host \notin DOMAIN table THEN None
    ELSE LET extras == table[host].extra
             hits == {i \in DOMAIN extras : Matches(extras[i].pathRegex, path)}
         IN  IF hits = {} THEN table[host].default
             ELSE extras[CHOOSE i \in hits : \A j \in hits : j <= i].policy

\* The policy governing host and path, None if the host is not in the table.
Resolve(table, host, path) ==
    IF host \notin DOMAIN table THEN None
    ELSE LET extras == table[host].extra
             hit(extra) == Matches(extra.pathRegex, path)
         IN  IF \E i \in DOMAIN extras : hit(extras[i])
             THEN extras[CHOOSE i \in DOMAIN extras : IsFirst(i, extras, hit)].policy
             ELSE table[host].default

-----------------------------------------------------------------------------
(* What a document means, stated without the table: the last route of a    *)
(* host governs it, and the first extra that matches overrides its         *)
(* default.  The table and Resolve are checked against this.               *)

Governs(routes, i, host) ==
    /\ i \in DOMAIN routes
    /\ Lower(routes[i].host) = Lower(host)
    /\ \A j \in DOMAIN routes : j > i => Lower(routes[j].host) # Lower(host)

Selects(route, path, expr) ==
    \/ /\ \A k \in DOMAIN route.extraPolicy :
             ~Matches(route.extraPolicy[k].pathRegex, path)
       /\ expr = route.defaultPolicy
    \/ \E k \in DOMAIN route.extraPolicy :
          /\ Matches(route.extraPolicy[k].pathRegex, path)
          /\ \A j \in DOMAIN route.extraPolicy :
                j < k => ~Matches(route.extraPolicy[j].pathRegex, path)
          /\ expr = route.extraPolicy[k].policy

\* Some route governs the host, and the policy it selects has `verdict`.
DocumentSays(routes, host, path, subject, verdict) ==
    \E i \in DOMAIN routes :
        /\ Governs(routes, i, host)
        /\ \E expr \in Expr : /\ Selects(routes[i], path, expr)
                              /\ Evaluate(expr, subject) = verdict

\* The table holds exactly what the first n routes say.
TableReflects(table, routes, n) ==
    /\ DOMAIN table = {Lower(routes[i].host) : i \in 1..n}
    /\ \A i \in 1..n :
          (\A j \in 1..n : j > i => Lower(routes[j].host) # Lower(routes[i].host))
            => table[Lower(routes[i].host)] =
                 [default |-> routes[i].defaultPolicy, extra |-> routes[i].extraPolicy]
=============================================================================
