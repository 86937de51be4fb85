------------------------------ MODULE MCAuthoring ------------------------------
(* Small instances of Authoring: one policy that loads and one that does    *)
(* not, at one target.                                                     *)
EXTENDS Authoring

MCLower(h) == h
MCMatches(re, path) == TRUE
MCExecute(expr, act) == expr

Policy(default) ==
    [group |-> "gateway.networking.k8s.io", name |-> "grafana",
     defaultPolicy |-> default, extraPolicy |-> <<>>]
MCSpecs == {Policy("true"), Policy("string")}
=============================================================================
