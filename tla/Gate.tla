-------------------------------- MODULE Gate --------------------------------
(***************************************************************************)
(* What Envoy and AuthRoute promise together, whatever the replicas do: a  *)
(* request goes upstream only if a policy that has been rolled out permits *)
(* it, and no request gets a second verdict.                               *)
(***************************************************************************)
EXTENDS Naturals

CONSTANTS
    Query,       \* the requests clients make
    Ask,         \* what a request can look like
    Policies,    \* number of policies that will be rolled out
    Permitted,   \* pairs <<policy, ask>>: the policy permits the ask
    Nothing      \* not asked yet

VARIABLES
    inForce,     \* the policies rolled out so far
    asked,       \* what each request asks
    verdict      \* "none", "pending", "upstream" or "refused"

vars == <<inForce, asked, verdict>>

Init ==
    /\ inForce = {1}
    /\ asked = [q \in Query |-> Nothing]
    /\ verdict = [q \in Query |-> "none"]

Publish(p) ==
    /\ inForce' = inForce \cup {p}
    /\ UNCHANGED <<asked, verdict>>

Arrive(q) ==
    /\ verdict[q] = "none"
    /\ \E ask \in Ask : asked' = [asked EXCEPT ![q] = ask]
    /\ verdict' = [verdict EXCEPT ![q] = "pending"]
    /\ UNCHANGED inForce

Pass(q) ==
    /\ verdict[q] = "pending"
    /\ \E p \in inForce : <<p, asked[q]>> \in Permitted
    /\ verdict' = [verdict EXCEPT ![q] = "upstream"]
    /\ UNCHANGED <<inForce, asked>>

Refuse(q) ==
    /\ verdict[q] = "pending"
    /\ verdict' = [verdict EXCEPT ![q] = "refused"]
    /\ UNCHANGED <<inForce, asked>>

Next ==
    \/ \E p \in 1..Policies : Publish(p)
    \/ \E q \in Query : Arrive(q) \/ Pass(q) \/ Refuse(q)

Spec == Init /\ [][Next]_vars

=============================================================================
