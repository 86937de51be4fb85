----------------------------- MODULE MCAdmission -----------------------------
(* Small instances of Admission; the engines are tabulated over the texts  *)
(* of validate.rs's tests.                                                 *)
EXTENDS Admission

MCRawHost == {""}
MCLower(h) == h

MCRegex == {"^/public", "^/api(/"}
MCValidRegex == {"^/public"}
MCMatches(re, path) == path = "/public"

Admins == "'admins' in groups"
MCExpr == {"true", Admins, "'a string'", "nope == 1", "user =="}
MCValidExpr == MCExpr \ {"user =="}
MCExecute(expr, act) ==
    CASE expr = "true"       -> "true"
      [] expr = Admins       ->
            IF \E i \in DOMAIN act.groups : act.groups[i] = "admins"
            THEN "true" ELSE "false"
      [] expr = "'a string'" -> "string"
      [] expr = "nope == 1"  -> "fault"

Policy(name, default, extras) ==
    [group |-> "gateway.networking.k8s.io", name |-> name,
     defaultPolicy |-> default, extraPolicy |-> extras]
MCExtra(re, policy) == [pathRegex |-> re, policy |-> policy]

Good == Policy("grafana", Admins, <<MCExtra("^/public", "true")>>)
OtherGroup == [Good EXCEPT !.group = "apps"]

SpecsBad == {Good} \cup
    {Policy("grafana", Admins, <<MCExtra("^/public", "true"), MCExtra("^/public", bad)>>) :
        bad \in {"'a string'", "nope == 1", "user =="}} \cup
    {Policy("grafana", "nope == 1", <<>>),
     Policy("grafana", "true", <<MCExtra("^/api(/", "true")>>)}
SpecsGroups == {Good, OtherGroup}
=============================================================================
