-------------------------------- MODULE Registry --------------------------------
(***************************************************************************)
(* What the admission webhook is there for (ADR-0006): of the AuthPolicies *)
(* the cluster keeps, those written while writes were guarded are ones the *)
(* request path can load.                                                  *)
(***************************************************************************)
CONSTANTS
    None,
    Object,
    Specs,
    Loads(_)   \* the request path can load a spec

VARIABLES
    stored,    \* the spec of each AuthPolicy, None if there is none
    guarded    \* every write under way has been under the webhook's guard

vars == <<stored, guarded>>

Init == stored = [o \in Object |-> None] /\ guarded \in BOOLEAN

Keep(o, s) ==
    /\ guarded => Loads(s)
    /\ stored' = [stored EXCEPT ![o] = s]
    /\ guarded' \in BOOLEAN

Withdraw(o) == stored' = [stored EXCEPT ![o] = None] /\ guarded' \in BOOLEAN

\* The webhook's configuration comes or goes.
Turn == guarded' \in BOOLEAN /\ UNCHANGED stored

Next ==
    \/ \E o \in Object : Withdraw(o) \/ \E s \in Specs : Keep(o, s)
    \/ Turn

Spec == Init /\ [][Next]_vars

\* Everything kept can be loaded.
AllLoad == \A o \in Object : stored[o] # None => Loads(stored[o])
=============================================================================
