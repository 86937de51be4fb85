-------------------------------- MODULE MCRepl --------------------------------
(* Small instances of Repl; the policies tell users and groups apart.        *)
EXTENDS Repl

MCLower(h) == h
MCMatches(re, path) == FALSE
MCHeaderContent(value) == TRUE

IsAdmin == "'admins' in groups"
IsSample == "user == 'sample@example.com'"
\* An error for every group but the sample's first.
Second == "groups[0] == 'users' || undeclared"
MCExpr == {"true", IsAdmin, IsSample, Second, "user", "user =="}
MCValidExpr == MCExpr \ {"user =="}

Bool(b) == IF b THEN "true" ELSE "false"
MCExecute(expr, act) ==
    CASE expr = "true"   -> "true"
      [] expr = IsAdmin  -> Bool(\E i \in DOMAIN act.groups : act.groups[i] = "admins")
      [] expr = IsSample -> Bool(act.user = "sample@example.com")
      [] expr = Second   -> IF act.groups # <<>> /\ act.groups[1] = "users" THEN "true" ELSE "fault"
      [] expr = "user"   -> "string"

MCText == {"admin-token", "user-token", "authroute_session"}
=============================================================================
