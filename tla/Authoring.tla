-------------------------------- MODULE Authoring --------------------------------
(***************************************************************************)
(* Writing AuthPolicies, end to end: the pods that publish their           *)
(* certificates (WebhookServing) and the reviews they run (Admission).     *)
(* The API server reads the configuration, dials whatever pod the Service  *)
(* gives it, trusts that pod or not, and without a configuration stores    *)
(* what it is given.  A pod that ends takes its own reviews with it.       *)
(***************************************************************************)
EXTENDS Policies, Manifests

CONSTANTS
    Pod, Encoding, Published, Readable, MaxRuns, MaxCrashes, MaxEdits,
    Namespace, Name, Group, GatewayGroup, Write, Specs,
    Injected,   \* AUTHROUTE_NAMESPACE is set in the pods
    MaxFaults,  \* bound on the publications' requests that fail
    MaxErrors   \* ... and on the reviews' calls and lookups

VARIABLES
    config, revision, edits, pod, runs, puts, troubled, faults, crashes,
    routes, stored, stage, object, spec, seen, errors,
    at,         \* the pod each write is reviewed by
    lapsed      \* history: there was no configuration since it was made

cluster == <<config, revision, edits, pod, runs, puts, troubled, faults, crashes>>
reviews == <<routes, stored, stage, object, spec, seen, errors>>
vars == <<cluster, reviews, at, lapsed>>

S == INSTANCE WebhookServing WITH stage <- pod, errors <- faults, MaxErrors <- MaxFaults
A == INSTANCE Admission

ASSUME ComponentsAssumption ==
    /\ S!BoundsAssumption /\ A!SpecsAssumption
    /\ None \notin Pod
    /\ Injected \in BOOLEAN

Init ==
    /\ S!Init /\ A!Init
    /\ at = [w \in Write |-> None]
    /\ lapsed = [w \in Write |-> FALSE]

Pending(w) == stage[w] \notin {"idle"} \cup A!Done

\* A write is reviewed if the configuration is there and its rules name what
\* the write does.
Called(w) ==
    /\ config # None
    /\ Reviewed(IF stored[object[w]] = None THEN "CREATE" ELSE "UPDATE")

\* The Service picks a pod: it runs the handler, or the call fails.
Dial(w, p) ==
    /\ stage[w] = "calling" /\ Called(w) /\ pod[p] = "serving"
    /\ IF S!Trusted(p) /\ Reaches(Injected)
       THEN A!Review(w) /\ at' = [at EXCEPT ![w] = p]
       ELSE /\ A!Unanswered(w)
            /\ UNCHANGED <<routes, stored, object, spec, seen, errors, at>>
    /\ UNCHANGED cluster

\* There is no pod to dial.
DialNone(w) ==
    /\ stage[w] = "calling" /\ Called(w) /\ \A p \in Pod : pod[p] # "serving"
    /\ A!Unanswered(w)
    /\ UNCHANGED <<cluster, routes, stored, object, spec, seen, errors, at>>

\* There is nothing to call.
Pass(w) ==
    /\ stage[w] = "calling" /\ ~Called(w)
    /\ A!Becomes(w, "admit")
    /\ UNCHANGED <<cluster, routes, stored, object, spec, seen, errors, at>>

Connect(w) == (\E p \in Pod : Dial(w, p)) \/ DialNone(w) \/ Pass(w)

\* What a review, an author or a call does once it is connected, or before.
Review(w) ==
    /\ \/ A!Submit(w) \/ A!Lookup(w) \/ A!LookupFails(w) \/ A!Store(w) \/ A!Reject(w)
       \/ /\ A!CallFails(w)
          /\ stage[w] = "calling" => Called(w)
          /\ stage[w] = "admit" => at[w] # None
    /\ UNCHANGED <<cluster, at>>

Author ==
    /\ A!ChangeRoutes \/ \E key \in A!Key : A!Remove(key)
    /\ UNCHANGED <<cluster, at>>

\* Pods start, publish and serve, administrators edit.
Publish ==
    /\ \/ \E p \in Pod : S!PodStep(p)
       \/ \E put \in puts : S!Land(put)
       \/ S!Edit \/ S!Delete
    /\ UNCHANGED <<reviews, at>>

Crash(p) ==
    /\ S!Crash(p)
    /\ A!LoseReviews({w \in Write : at[w] = p})
    /\ UNCHANGED <<routes, stored, object, spec, seen, errors, at>>

Watch ==
    lapsed' = [w \in Write |-> Pending(w)' /\ (lapsed[w] \/ None \in {config, config'})]

Next ==
    /\ \/ \E w \in Write : Connect(w) \/ Review(w)
       \/ \E p \in Pod : Crash(p)
       \/ Author \/ Publish
    /\ Watch

Spec == Init /\ [][Next]_vars

\* Pods as in WebhookServing; the API server makes its calls and acts on their
\* answers; reviews go on.
Fairness ==
    /\ S!Fairness
    /\ \A w \in Write :
          /\ WF_vars(Connect(w) /\ Watch)
          /\ WF_vars(A!Lookup(w) /\ UNCHANGED <<cluster, at>> /\ Watch)
          /\ WF_vars(Review(w) /\ stage[w] \in {"admit", "deny", "lost"} /\ errors' = errors /\ Watch)

FairSpec == Spec /\ Fairness

-----------------------------------------------------------------------------
(* What makes it correct.                                                  *)

\* The type invariant.
TypeOK ==
    /\ S!TypeOK /\ A!TypeOK
    /\ at \in [Write -> Pod \cup {None}]
    /\ lapsed \in [Write -> BOOLEAN]

\* What a write that may still be stored has passed, or why it has not.
PassedOrLapsed ==
    \A w \in Write :
        /\ stage[w] \in {"looking", "admit"} => A!ValidateSpec(spec[w]) = "ok" \/ lapsed[w]
        /\ stage[w] = "admit" => A!Under(w) \in seen[w] \/ lapsed[w]
        /\ Pending(w) => routes \subseteq seen[w]
        /\ config = None /\ Pending(w) => lapsed[w]

\* Types and what the writes under way have passed: every step keeps them
\* together, a pod's end and a failed call included, and Guards below follows.
InductiveInvariant == TypeOK /\ PassedOrLapsed

\* No write under way has ever gone without a configuration.
Guarded == config # None /\ \A w \in Write : Pending(w) => ~lapsed[w]

Loads(s) == A!Loads(s)

R == INSTANCE Registry WITH Object <- A!Key, guarded <- Guarded

\* Only a write that met no configuration can leave a policy the request path
\* cannot load: crashes, restarts, untrusted certificates, failed calls and
\* failed lookups cannot (ADR-0006 §4, failurePolicy: Fail).
Guards == R!Spec

\* Whatever the other writes meet, a policy is kept only by its own write, and
\* unless that write met no configuration the request path can load it and its
\* target existed while the write was under way (ADR-0006 §1.i): a pod that
\* looked the target up may be gone by the time the API server acts on it.
KeptWasReviewed ==
    [][\A key \in A!Key : stored'[key] # stored[key] /\ stored'[key] # None =>
          \E w \in Write :
              /\ Pending(w) /\ stage'[w] = "stored"
              /\ object[w] = key /\ spec[w] = stored'[key]
              /\ ~lapsed[w] => Loads(spec[w]) /\ A!Under(w) \in seen[w]]_vars

\* A write is turned away without a review only while no pod serves, or one
\* does whose publication was disturbed, or a call fails (ADR-0008, restart
\* blips), or the API server cannot read the very certificate that is in force
\* and served (it reads PEM, and DER is published: WebhookServing); and by a
\* review that looked its target up only if the target is not there or the
\* lookup failed.
RefusedForAReason ==
    [][\A w \in Write :
          /\ stage[w] = "calling" /\ stage'[w] = "rejected" =>
                \/ \A p \in Pod : pod[p] # "serving"
                \/ \E p \in Pod : pod[p] = "serving" /\ troubled[p]
                \/ \E p \in Pod : /\ pod[p] = "serving" /\ S!InForce(p)
                                 /\ Published \notin Readable
                \/ errors' > errors
          /\ stage[w] = "looking" /\ stage'[w] = "deny" =>
                A!Under(w) \notin routes \/ errors' > errors]_vars

\* Every write is answered, whatever becomes of the pods, their certificates
\* and the configuration.
EveryWriteAnswered == \A w \in Write : stage[w] = "calling" ~> stage[w] \in A!Done
=============================================================================
