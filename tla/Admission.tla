------------------------------- MODULE Admission -------------------------------
(***************************************************************************)
(* The admission review of AuthPolicy writes (webhook/src/lib.rs           *)
(* handle_validate and review_policy, validate.rs, ADR-0006): writes,      *)
(* HTTPRoute changes and webhook crashes interleave with the awaited       *)
(* target lookup.  The API server is external; its configuration for this  *)
(* webhook is the generated one, in place and trusted (Authoring drops     *)
(* that), so creates and updates are reviewed.                             *)
(***************************************************************************)
EXTENDS Policies, Manifests

CONSTANTS
    Namespace,
    Name,          \* names of HTTPRoutes and AuthPolicies
    Group,         \* values of targetRef.group
    GatewayGroup,  \* "gateway.networking.k8s.io"
    Write,         \* writes of AuthPolicies, each made once
    Specs,         \* the specs authors write
    MaxErrors      \* bound on API errors and webhook crashes

\* An AuthPolicySpec the CRD's schema lets through; kind has one value.
AuthPolicySpec ==
    [group : Group, name : Name, defaultPolicy : Expr, extraPolicy : Seq(Extra)]

\* An HTTPRoute, or the key of an AuthPolicy.
Key == [namespace : Namespace, name : Name]

ASSUME SpecsAssumption == /\ Specs \subseteq AuthPolicySpec
                          /\ GatewayGroup \in Group
                          /\ None \notin Specs \cup Key
                          /\ MaxErrors \in Nat

-----------------------------------------------------------------------------
(* The checks.                                                             *)

\* Mutant: only the regexes of the extras are looked at.
ValidateSpecSkipping(spec) ==
    IF CompileCelPolicy(spec.defaultPolicy) # "ok"
    THEN CompileCelPolicy(spec.defaultPolicy)
    ELSE IF \E i \in DOMAIN spec.extraPolicy :
               CompilePathRegex(spec.extraPolicy[i].pathRegex) # "ok"
         THEN "Regex" ELSE "ok"

\* The default, then the extras in order: the first error is the answer.
ValidateSpec(spec) ==
    LET extras == spec.extraPolicy
        fails(extra) == CompileExtra(extra) # "ok"
    IN  IF CompileCelPolicy(spec.defaultPolicy) # "ok"
        THEN CompileCelPolicy(spec.defaultPolicy)
        ELSE IF \E i \in DOMAIN extras : fails(extras[i])
        THEN CompileExtra(extras[CHOOSE i \in DOMAIN extras : IsFirst(i, extras, fails)])
        ELSE "ok"

\* The HTTPRoute a policy is looked up under: its own namespace, whatever
\* group its targetRef names.
Target(key, spec) == [namespace |-> key.namespace, name |-> spec.name]

-----------------------------------------------------------------------------
VARIABLES
    routes,     \* HTTPRoutes that exist
    stored,     \* AuthPolicies that exist
    stage,      \* what became of each write
    object,     \* the AuthPolicy it writes
    spec,       \* the spec it gives it
    seen,       \* history: HTTPRoutes that existed since it was made
    errors

vars == <<routes, stored, stage, object, spec, seen, errors>>

Done == {"stored", "rejected"}
Stages == {"idle", "calling", "looking", "admit", "deny", "lost"} \cup Done

Init ==
    /\ routes \in SUBSET Key
    /\ stored = [key \in Key |-> None]
    /\ stage = [w \in Write |-> "idle"]
    /\ object = [w \in Write |-> None]
    /\ spec = [w \in Write |-> None]
    /\ seen = [w \in Write |-> {}]
    /\ errors = 0

Becomes(w, s) == stage' = [stage EXCEPT ![w] = s]

Under(w) == Target(object[w], spec[w])

(* Authors and HTTPRoutes.                                                 *)

\* A create or an update, which the API server has the webhook review.
Submit(w) ==
    /\ stage[w] = "idle"
    /\ Becomes(w, "calling")
    /\ \E key \in Key : object' = [object EXCEPT ![w] = key]
    /\ \E s \in Specs : spec' = [spec EXCEPT ![w] = s]
    /\ seen' = [seen EXCEPT ![w] = routes]
    /\ UNCHANGED <<routes, stored, errors>>

\* A delete, which the rules of the configuration leave out.
Remove(key) ==
    /\ stored[key] # None
    /\ stored' = [stored EXCEPT ![key] = None]
    /\ UNCHANGED <<routes, stage, object, spec, seen, errors>>

\* An HTTPRoute is created or deleted.
ChangeRoutes ==
    /\ \E key \in Key :
          routes' = IF key \in routes THEN routes \ {key} ELSE routes \cup {key}
    /\ seen' = [w \in Write |-> IF stage[w] \in {"idle"} \cup Done
                                THEN seen[w] ELSE seen[w] \cup routes']
    /\ UNCHANGED <<stored, stage, object, spec, errors>>

(* The webhook.                                                            *)

\* handle_validate, up to the await: deny, or ask for the target.  The API
\* server's AdmissionReview always carries a request, so that it is malformed
\* (answered as invalid, which denies) does not come up.
Review(w) ==
    /\ stage[w] = "calling"
    /\ Becomes(w, IF ValidateSpec(spec[w]) = "ok" THEN "looking" ELSE "deny")
    /\ UNCHANGED <<routes, stored, object, spec, seen, errors>>

\* Mutant: the target is looked up under its name alone.
LookupAnywhere(w) ==
    /\ stage[w] = "looking"
    /\ Becomes(w, IF \E key \in routes : key.name = spec[w].name THEN "admit" ELSE "deny")
    /\ UNCHANGED <<routes, stored, object, spec, seen, errors>>

\* Mutant: the review waits until the target is there.
LookupAwaited(w) ==
    /\ stage[w] = "looking" /\ Under(w) \in routes
    /\ Becomes(w, "admit")
    /\ UNCHANGED <<routes, stored, object, spec, seen, errors>>

\* get_opt answers.
Lookup(w) ==
    /\ stage[w] = "looking" /\ May("get", HttpRoutes)
    /\ Becomes(w, IF Under(w) \in routes THEN "admit" ELSE "deny")
    /\ UNCHANGED <<routes, stored, object, spec, seen, errors>>

\* Mutant: the lookup is skipped when the API server cannot answer it.
LookupFailsOpen(w) ==
    /\ stage[w] = "looking"
    /\ errors < MaxErrors
    /\ errors' = errors + 1
    /\ Becomes(w, "admit")
    /\ UNCHANGED <<routes, stored, object, spec, seen>>

\* get_opt fails: deny.
LookupFails(w) ==
    /\ stage[w] = "looking"
    /\ errors < MaxErrors
    /\ errors' = errors + 1
    /\ Becomes(w, "deny")
    /\ UNCHANGED <<routes, stored, object, spec, seen>>

\* A webhook ends: reviews it has not answered are lost, and an answer it has
\* written may be.
LoseReviews(its) ==
    \E unsent \in SUBSET {w \in its : stage[w] \in {"admit", "deny"}} :
        stage' = [w \in Write |-> IF w \in unsent \/ (w \in its /\ stage[w] = "looking")
                                  THEN "lost" ELSE stage[w]]

Crash ==
    /\ errors < MaxErrors
    /\ errors' = errors + 1
    /\ LoseReviews(Write)
    /\ UNCHANGED <<routes, stored, object, spec, seen>>

(* The API server.                                                         *)

Store(w) ==
    /\ stage[w] = "admit"
    /\ Becomes(w, "stored")
    /\ stored' = [stored EXCEPT ![object[w]] = spec[w]]
    /\ UNCHANGED <<routes, object, spec, seen, errors>>

Reject(w) ==
    /\ stage[w] = "deny"
    /\ Becomes(w, "rejected")
    /\ UNCHANGED <<routes, stored, object, spec, seen, errors>>

\* What a call without an answer comes to.
Unanswered(w) ==
    Becomes(w, IF WebhookConfiguration.failurePolicy = "Fail"
               THEN "rejected" ELSE "admit")

\* The call cannot be made, is lost, or runs into its timeout.
CallFails(w) ==
    /\ \/ stage[w] = "lost" /\ UNCHANGED errors
       \/ /\ stage[w] \in {"calling", "looking", "admit", "deny"}
          /\ errors < MaxErrors
          /\ errors' = errors + 1
    /\ Unanswered(w)
    /\ UNCHANGED <<routes, stored, object, spec, seen>>

WriteStep(w) ==
    \/ Submit(w) \/ Review(w) \/ Lookup(w) \/ LookupFails(w)
    \/ Store(w) \/ Reject(w) \/ CallFails(w)

Next ==
    \/ \E w \in Write : WriteStep(w)
    \/ \E key \in Key : Remove(key)
    \/ ChangeRoutes \/ Crash

Spec == Init /\ [][Next]_vars

\* Reviews run, the API server answers the webhook's lookup, and acts on the
\* review.  Nothing has to fail, and authors need not write.
Fairness == \A w \in Write :
    /\ WF_vars(Review(w)) /\ WF_vars(Lookup(w))
    /\ WF_vars(Store(w) \/ Reject(w) \/ (stage[w] = "lost" /\ CallFails(w)))

FairSpec == Spec /\ Fairness

-----------------------------------------------------------------------------
(* What makes it correct.                                                  *)

\* The type invariant.
TypeOK ==
    /\ routes \subseteq Key
    /\ stored \in [Key -> Specs \cup {None}]
    /\ stage \in [Write -> Stages]
    /\ object \in [Write -> Key \cup {None}]
    /\ spec \in [Write -> Specs \cup {None}]
    /\ seen \in [Write -> SUBSET Key]
    /\ errors \in 0..MaxErrors
    /\ \A w \in Write : stage[w] # "idle" => object[w] # None /\ spec[w] # None

\* A spec as the request path would load it, at some host.
AsRoute(s, host) ==
    [host |-> host, defaultPolicy |-> s.defaultPolicy, extraPolicy |-> s.extraPolicy]

\* The request path can load it, whatever the host of its target.
Loads(s) == \A host \in RawHost : CompileRoute(AsRoute(s, host)) = "ok"

\* Whatever is stored, the request path can load: admission and request time
\* never disagree on what compiles (ADR-0006 §2), though they look at the
\* parts of a policy in different orders.
StoredCompiles == \A key \in Key : stored[key] # None => Loads(stored[key])

\* A policy is stored only if its target, in its own namespace, existed at some
\* moment while the write was under way (ADR-0006 §1.i); it may be gone by
\* then (§5).
StoredHadTarget ==
    [][\A key \in Key : stored'[key] # stored[key] /\ stored'[key] # None =>
          \E w \in Write :
              /\ stage[w] \notin Done /\ stage'[w] = "stored"
              /\ object[w] = key /\ spec[w] = stored'[key]
              /\ Under(w) \in seen[w]]_vars

\* What a write that may still be stored has passed.
PassedSoFar ==
    \A w \in Write :
        /\ stage[w] \in {"looking", "admit"} => ValidateSpec(spec[w]) = "ok"
        /\ stage[w] = "admit" => Under(w) \in seen[w]
        /\ stage[w] \notin {"idle"} \cup Done => routes \subseteq seen[w]

\* Types, what pending writes have passed and what is stored: every step keeps
\* them together, and the two properties above follow.
InductiveInvariant == TypeOK /\ PassedSoFar /\ StoredCompiles

\* Every write is answered, whether or not its target ever exists.
EveryWriteAnswered ==
    \A w \in Write : stage[w] = "calling" ~> stage[w] \in Done

\* "The kind is a closed enum, so an unsupported target is unrepresentable"
\* (api/src/authpolicy.rs): whatever is stored targets a Gateway API route.
StoredTargetsGatewayApi ==
    \A key \in Key : stored[key] # None => stored[key].group = GatewayGroup
=============================================================================
