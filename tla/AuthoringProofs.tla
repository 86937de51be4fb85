---------------------------- MODULE AuthoringProofs ----------------------------
(***************************************************************************)
(* Writing AuthPolicies, for every number of pods and writes.  What is     *)
(* proved of the components is carried over: pods publish here as they do  *)
(* alone, and the reviews check what they check alone.                     *)
(***************************************************************************)
EXTENDS Authoring, TLAPS

AP == INSTANCE AdmissionProofs
SP == INSTANCE WebhookServingProofs WITH stage <- pod, errors <- faults, MaxErrors <- MaxFaults

\* Every step of the whole is one of the pods and their configuration, or
\* leaves those alone.
LEMMA StepPublishes == [Next]_vars => [S!Next]_S!vars
  <1> SUFFICES ASSUME [Next]_vars PROVE [S!Next]_S!vars
    OBVIOUS
  <1>1. ASSUME UNCHANGED cluster PROVE UNCHANGED S!vars
    BY <1>1 DEF cluster, S!vars, S!cluster, S!pods
  <1>2. ASSUME NEW w \in Write, Connect(w) \/ Review(w) PROVE UNCHANGED cluster
    BY <1>2 DEF Connect, Dial, DialNone, Pass, Review
  <1>3. ASSUME NEW p \in Pod, Crash(p) PROVE S!Next
    BY <1>3 DEF Crash, S!Next
  <1>4. CASE Author
    BY <1>1, <1>4 DEF Author
  <1>5. CASE Publish
    BY <1>5 DEF Publish, S!Next
  <1>6. CASE UNCHANGED vars
    BY <1>1, <1>6 DEF vars, cluster
  <1> QED
    BY <1>1, <1>2, <1>3, <1>4, <1>5, <1>6 DEF Next

\* Publishing goes on as WebhookServing says, whatever the authors do.
THEOREM Publishes == Spec => S!Spec
  <1>1. Init => S!Init
    BY DEF Init
  <1> QED
    BY <1>1, StepPublishes, PTL DEF Spec, S!Spec

\* WebhookServingProofs speaks of the same pods.
LEMMA SameManifests == (S!MayRead <=> SP!MayRead) /\ (S!MayReplace <=> SP!MayReplace)
  BY DEF S!MayRead, SP!MayRead, S!MayReplace, SP!MayReplace, S!May, SP!May,
       S!ClusterRole, SP!ClusterRole, S!ClusterRoleBinding, SP!ClusterRoleBinding,
       S!ServiceAccount, SP!ServiceAccount, S!Rule, SP!Rule, S!Configurations,
       SP!Configurations, S!WebhookConfiguration, SP!WebhookConfiguration, S!NAME,
       SP!NAME, S!WEBHOOK_NAME, SP!WEBHOOK_NAME, S!NAMESPACE, SP!NAMESPACE

\* Their steps ...
LEMMA SamePodStep ==
    ASSUME NEW p \in Pod
    PROVE  S!PodStep(p) \/ S!Crash(p) <=> SP!PodStep(p) \/ SP!Crash(p)
  <1> USE SameManifests DEF S!Becomes, SP!Becomes, S!cluster, SP!cluster, S!pods, SP!pods,
                        S!Certificate, SP!Certificate, S!InFlight, SP!InFlight,
                        S!Disturb, SP!Disturb, S!Fails, SP!Fails
  <1>1. S!Start(p) <=> SP!Start(p)
    BY Zenon DEF S!Start, SP!Start
  <1>2. S!Get(p) <=> SP!Get(p)
    BY Zenon DEF S!Get, SP!Get, S!Replacement, SP!Replacement
  <1>3. S!GetFails(p) <=> SP!GetFails(p)
    BY Zenon DEF S!GetFails, SP!GetFails
  <1>4. S!PutReturns(p) <=> SP!PutReturns(p)
    BY Zenon DEF S!PutReturns, SP!PutReturns
  <1>5. S!PutFails(p) <=> SP!PutFails(p)
    BY Zenon DEF S!PutFails, SP!PutFails
  <1>6. S!Serve(p) <=> SP!Serve(p)
    BY Zenon DEF S!Serve, SP!Serve
  <1>7. S!Crash(p) <=> SP!Crash(p)
    BY Zenon DEF S!Crash, SP!Crash
  <1> QED
    BY <1>1, <1>2, <1>3, <1>4, <1>5, <1>6, <1>7 DEF S!PodStep, SP!PodStep

\* ... and those of the API server and administrators.
LEMMA SameClusterStep ==
    /\ \A put \in puts : S!Land(put) <=> SP!Land(put)
    /\ S!Edit <=> SP!Edit
    /\ S!Delete <=> SP!Delete
  <1> USE SameManifests DEF S!pods, SP!pods, S!Certificate, SP!Certificate, S!InFlight,
                        SP!InFlight, S!Disturb, SP!Disturb, S!Exposed, SP!Exposed
  <1>1. ASSUME NEW put \in puts PROVE S!Land(put) <=> SP!Land(put)
    BY Zenon DEF S!Land, SP!Land, S!Current, SP!Current
  <1>2. S!Edit <=> SP!Edit
    BY DEF S!Edit, SP!Edit
  <1>3. S!Delete <=> SP!Delete
    BY DEF S!Delete, SP!Delete
  <1> QED
    BY <1>1, <1>2, <1>3

\* ... so the pods behave as those of WebhookServingProofs ...
LEMMA PodsSpec == Spec => SP!Spec
  <1>1. S!Init => SP!Init
    BY DEF S!Init, SP!Init
  <1>2. [S!Next]_S!vars => [SP!Next]_SP!vars
    BY SamePodStep, SameClusterStep DEF S!Next, SP!Next, S!vars, SP!vars, S!cluster, SP!cluster,
       S!pods, SP!pods
  <1> QED
    BY <1>1, <1>2, Publishes, PTL DEF S!Spec, SP!Spec

\* ... whose assumptions hold.
LEMMA PodsAssumption == SP!BoundsAssumption
  BY ComponentsAssumption DEF S!BoundsAssumption, SP!BoundsAssumption

\* Calls reach the handlers.
LEMMA CallsReach == Reaches(Injected)
  <1>1. OwnNamespace(Injected) = NAMESPACE
    BY DEF OwnNamespace, NAMESPACE, DEFAULT_NAMESPACE
  <1> QED
    BY <1>1 DEF Reaches, WebhookService, WebhookConfiguration, ServingDnsNames,
                DEFAULT_LISTEN_PORT, VALIDATE_PATH, NAME, WEBHOOK_NAME

\* What is proved of the pods alone holds here.
THEOREM PodsPublished == Spec => []S!ServingIsPublished
  <1>1. SP!Spec => []SP!ServingIsPublished
    BY SP!PublishedSound, PodsAssumption DEF SP!BoundsAssumption
  <1>2. SP!ServingIsPublished => S!ServingIsPublished
    BY DEF S!ServingIsPublished, SP!ServingIsPublished, S!InForce, SP!InForce,
           S!Certificate, SP!Certificate
  <1> QED
    BY <1>1, <1>2, PodsSpec, PTL

-----------------------------------------------------------------------------
(* What the reviews guarantee.                                             *)

\* AdmissionProofs speaks of the same checks: what validate_spec accepts, the
\* request path loads.
LEMMA ValidLoads ==
    ASSUME NEW s \in A!AuthPolicySpec, A!ValidateSpec(s) = "ok"
    PROVE  Loads(s)
  <1>1. s \in AP!AuthPolicySpec
    BY DEF A!AuthPolicySpec, AP!AuthPolicySpec, A!Extra, AP!Extra
  <1> USE DEF A!CompileCelPolicy, AP!CompileCelPolicy, A!CompileExtra, AP!CompileExtra,
             A!CompilePathRegex, AP!CompilePathRegex, A!Evaluate, AP!Evaluate,
             A!Booleans, AP!Booleans, A!SampleSubject, AP!SampleSubject,
             A!Activation, AP!Activation, A!Subject, AP!Subject, A!IsFirst, AP!IsFirst
  <1>2. AP!ValidateSpec(s) = "ok"
    BY Zenon DEF A!ValidateSpec, AP!ValidateSpec
  <1>3. \A host : AP!CompileRoute(AP!AsRoute(s, host)) = "ok"
    <2>1. AP!SpecsAssumption
      BY ComponentsAssumption DEF A!SpecsAssumption, AP!SpecsAssumption, A!AuthPolicySpec,
         AP!AuthPolicySpec, A!Extra, AP!Extra, A!Key, AP!Key
    <2> QED
      BY <1>1, <1>2, <2>1, AP!AdmissionAgrees, HostAssumption, EngineAssumption
         DEF AP!SpecsAssumption
  <1>4. ASSUME NEW host PROVE A!CompileRoute(A!AsRoute(s, host)) = AP!CompileRoute(AP!AsRoute(s, host))
    BY Zenon DEF A!CompileRoute, AP!CompileRoute, A!AsRoute, AP!AsRoute
  <1> QED
    BY <1>3, <1>4 DEF Loads, A!Loads

\* A call without an answer rejects the write.
LEMMA Rejects ==
    ASSUME NEW w \in Write, A!Unanswered(w)
    PROVE  stage' = [stage EXCEPT ![w] = "rejected"]
  BY DEF A!Unanswered, A!Becomes, A!WebhookConfiguration

\* Every write is called for while there is a configuration: the generated
\* rules name creates and updates.
LEMMA AlwaysCalled ==
    ASSUME NEW w \in Write, config # None
    PROVE  Called(w)
  BY DEF Called, Reviewed, WebhookConfiguration, WebhookRule, AuthPolicies

\* Types, histories and reviews: what the steps on the writes keep together.
ReviewsInOrder ==
    /\ A!TypeOK
    /\ at \in [Write -> Pod \cup {None}]
    /\ lapsed \in [Write -> BOOLEAN]
    /\ PassedOrLapsed

\* They do at the start, when nothing is under way ...
LEMMA ReviewsInit == Init => ReviewsInOrder
  BY ComponentsAssumption
     DEF Init, A!Init, A!TypeOK, A!Stages, A!Done, A!SpecsAssumption, ReviewsInOrder,
         PassedOrLapsed, Pending

\* ... the steps that leave the pods alone keep them ...
LEMMA ReviewsStep ==
    ASSUME S!TypeOK, ReviewsInOrder, UNCHANGED cluster, Watch,
           (\E w \in Write : Connect(w) \/ Review(w)) \/ Author \/ UNCHANGED <<reviews, at>>
    PROVE  ReviewsInOrder'
  <1> USE ComponentsAssumption
      DEF ReviewsInOrder, PassedOrLapsed, Pending, cluster,
          A!TypeOK, A!Stages, A!Done, A!Becomes, A!SpecsAssumption, A!Under
  <1>1. lapsed' \in [Write -> BOOLEAN]
    BY DEF Watch
  <1>2. \A w \in Write : lapsed'[w] <=> Pending(w)' /\ (lapsed[w] \/ config = None)
    BY DEF Watch
  <1>3. ASSUME NEW w \in Write, NEW p \in Pod, Dial(w, p) PROVE ReviewsInOrder'
    <2>1. CASE S!Trusted(p) /\ Reaches(Injected)
      <3>1. A!Review(w) /\ at' = [at EXCEPT ![w] = p] /\ pod[p] = "serving"
        BY <1>3, <2>1 DEF Dial
      <3>2. CASE A!ValidateSpec(spec[w]) = "ok"
        <4>1. stage' = [stage EXCEPT ![w] = "looking"]
              /\ UNCHANGED <<routes, stored, object, spec, seen, errors>>
          BY <3>1, <3>2 DEF A!Review
        <4>2. stage'[w] = "looking" /\ at'[w] = p /\ p # None
          BY <3>1, <4>1
        <4>3. \A v \in Write : v # w => stage'[v] = stage[v] /\ at'[v] = at[v]
          BY <3>1, <4>1
        <4> QED
          BY <1>1, <1>2, <1>3, <3>1, <3>2, <4>1, <4>2, <4>3 DEF Dial
      <3>3. CASE A!ValidateSpec(spec[w]) # "ok"
        <4>1. stage' = [stage EXCEPT ![w] = "deny"]
              /\ UNCHANGED <<routes, stored, object, spec, seen, errors>>
          BY <3>1, <3>3 DEF A!Review
        <4>2. stage'[w] = "deny" /\ \A v \in Write : v # w => stage'[v] = stage[v] /\ at'[v] = at[v]
          BY <3>1, <4>1
        <4>3. at' \in [Write -> Pod \cup {None}] /\ stage' \in [Write -> A!Stages]
          BY <3>1, <4>1
        <4> QED
          BY <1>1, <1>2, <1>3, <3>1, <4>1, <4>2, <4>3 DEF Dial
      <3> QED
        BY <3>2, <3>3
    <2>2. CASE ~(S!Trusted(p) /\ Reaches(Injected))
      <3>1. /\ stage[w] = "calling" /\ stage' = [stage EXCEPT ![w] = "rejected"]
            /\ UNCHANGED <<routes, stored, object, spec, seen, errors, at>>
        BY <1>3, <2>2, Rejects DEF Dial
      <3>2. stage' \in [Write -> A!Stages] /\ stage'[w] = "rejected"
            /\ \A v \in Write : v # w => stage'[v] = stage[v]
        BY <3>1
      <3>3. A!TypeOK'
        BY <3>1, <3>2
      <3>4. PassedOrLapsed'
        BY <3>1, <3>2, <1>1, <1>2
      <3> QED
        BY <3>1, <3>3, <3>4, <1>1
    <2> QED
      BY <2>1, <2>2
  <1>4. ASSUME NEW w \in Write, DialNone(w) PROVE ReviewsInOrder'
    BY <1>1, <1>2, <1>4, Rejects DEF DialNone
  <1>5. ASSUME NEW w \in Write, Pass(w) PROVE ReviewsInOrder'
    BY <1>1, <1>2, <1>5, AlwaysCalled DEF Pass
  <1>6. ASSUME NEW w \in Write, A!Submit(w), at' = at PROVE ReviewsInOrder'
    BY <1>1, <1>2, <1>6 DEF A!Submit
  <1>7. ASSUME NEW w \in Write, A!Lookup(w), at' = at PROVE ReviewsInOrder'
    BY <1>1, <1>2, <1>7 DEF A!Lookup
  <1>8. ASSUME NEW w \in Write, A!LookupFails(w), at' = at PROVE ReviewsInOrder'
    BY <1>1, <1>2, <1>8 DEF A!LookupFails
  <1>9. ASSUME NEW w \in Write, A!Store(w), at' = at PROVE ReviewsInOrder'
    BY <1>1, <1>2, <1>9 DEF A!Store
  <1>10. ASSUME NEW w \in Write, A!Reject(w), at' = at PROVE ReviewsInOrder'
    BY <1>1, <1>2, <1>10 DEF A!Reject
  <1>11. ASSUME NEW w \in Write, A!CallFails(w), at' = at PROVE ReviewsInOrder'
    BY <1>1, <1>2, <1>11, Rejects DEF A!CallFails
  <1>12. ASSUME NEW key \in A!Key, A!Remove(key), at' = at PROVE ReviewsInOrder'
    BY <1>1, <1>2, <1>12 DEF A!Remove
  <1>13. ASSUME A!ChangeRoutes, at' = at PROVE ReviewsInOrder'
    <2>1. routes' \subseteq A!Key
      BY <1>13 DEF A!ChangeRoutes
    <2> QED
      BY <1>1, <1>2, <1>13, <2>1 DEF A!ChangeRoutes
  <1>14. CASE UNCHANGED <<reviews, at>>
    BY <1>1, <1>2, <1>14 DEF reviews
  <1> QED
    BY <1>3, <1>4, <1>5, <1>6, <1>7, <1>8, <1>9, <1>10, <1>11, <1>12, <1>13, <1>14
       DEF Connect, Review, Author

\* ... so do those of the pods: while there is no configuration every write is
\* marked ...
LEMMA PublishStep ==
    ASSUME S!TypeOK, ReviewsInOrder, Publish, Watch
    PROVE  ReviewsInOrder'
  <1> USE DEF ReviewsInOrder, PassedOrLapsed, Pending,
              A!TypeOK, A!Stages, A!Done, A!Under, S!TypeOK
  <1>1. UNCHANGED <<routes, stored, stage, object, spec, seen, errors, at>>
    BY DEF Publish, reviews
  <1>2. \A w \in Write : lapsed'[w] <=> Pending(w) /\ (lapsed[w] \/ None \in {config, config'})
    BY <1>1 DEF Watch
  <1>3. lapsed' \in [Write -> BOOLEAN]
    BY DEF Watch
  <1> QED
    BY <1>1, <1>2, <1>3, ComponentsAssumption

\* ... and the end of one only loses reviews: none of them gets any further.
LEMMA CrashStep ==
    ASSUME S!TypeOK, ReviewsInOrder, NEW p \in Pod, Crash(p), Watch
    PROVE  ReviewsInOrder'
  <1>1. /\ UNCHANGED <<config, routes, stored, object, spec, seen, errors, at>>
        /\ pod' = [pod EXCEPT ![p] = "down"]
    BY DEF Crash, S!Crash, S!cluster, S!Becomes
  <1>2. PICK unsent \in SUBSET {w \in Write : at[w] = p /\ stage[w] \in {"admit", "deny"}} :
           stage' = [w \in Write |-> IF w \in unsent \/ (at[w] = p /\ stage[w] = "looking")
                                     THEN "lost" ELSE stage[w]]
    BY DEF Crash, A!LoseReviews
  <1> USE DEF ReviewsInOrder, PassedOrLapsed, Pending,
              A!TypeOK, A!Stages, A!Done, A!Under, S!TypeOK
  <1>3. \A w \in Write : lapsed'[w] <=> Pending(w)' /\ (lapsed[w] \/ config = None)
    BY <1>1 DEF Watch
  <1>4. lapsed' \in [Write -> BOOLEAN]
    BY DEF Watch
  <1>5. \A w \in Write : stage'[w] = stage[w] \/ (stage'[w] = "lost" /\ Pending(w))
    BY <1>2
  <1> QED
    BY <1>1, <1>2, <1>3, <1>4, <1>5, ComponentsAssumption

\* What Guards follows from.
THEOREM Invariance == Spec => []InductiveInvariant
  <1>1. S!TypeOK /\ ReviewsInOrder /\ [Next]_vars => ReviewsInOrder'
    <2> SUFFICES ASSUME S!TypeOK, ReviewsInOrder, [Next]_vars PROVE ReviewsInOrder'
      OBVIOUS
    <2>1. ASSUME UNCHANGED vars PROVE ReviewsInOrder'
      BY <2>1 DEF vars, cluster, reviews, ReviewsInOrder, PassedOrLapsed, Pending,
                  A!TypeOK, A!Under
    <2>2. ASSUME (\E w \in Write : Connect(w) \/ Review(w)) \/ Author PROVE UNCHANGED cluster
      BY <2>2 DEF Connect, Dial, DialNone, Pass, Review, Author
    <2> QED
      BY <2>1, <2>2, ReviewsStep, PublishStep, CrashStep DEF Next
  <1>2. Spec => []S!TypeOK
    <2>1. SP!Spec => []SP!InductiveInvariant
      BY SP!Invariance, PodsAssumption DEF SP!BoundsAssumption
    <2>2. SP!InductiveInvariant => S!TypeOK
      BY DEF SP!InductiveInvariant, SP!TypeOK, S!TypeOK, SP!Config, S!Config, SP!Bundle, S!Bundle,
             SP!Put, S!Put, SP!Stages, S!Stages
    <2> QED
      BY <2>1, <2>2, PodsSpec, PTL
  <1> QED
    BY <1>1, <1>2, ReviewsInit, PTL DEF Spec, InductiveInvariant, TypeOK, ReviewsInOrder

-----------------------------------------------------------------------------
(* What the whole promises.                                                *)

\* Policies are kept by Store and withdrawn by Remove, and by nothing else.
LEMMA StoredBy ==
    [Next]_vars => \/ \E w \in Write : A!Store(w)
                   \/ \E key \in A!Key : A!Remove(key)
                   \/ UNCHANGED stored
  <1> SUFFICES ASSUME [Next]_vars
               PROVE  \/ \E w \in Write : A!Store(w)
                      \/ \E key \in A!Key : A!Remove(key)
                      \/ UNCHANGED stored
    OBVIOUS
  <1>1. ASSUME NEW w \in Write, Connect(w) PROVE UNCHANGED stored
    BY <1>1 DEF Connect, Dial, DialNone, Pass, A!Review
  <1>2. ASSUME NEW w \in Write, Review(w), ~A!Store(w) PROVE UNCHANGED stored
    BY <1>2 DEF Review, A!Submit, A!Lookup, A!LookupFails, A!Reject, A!CallFails
  <1>3. ASSUME (\E p \in Pod : Crash(p)) \/ Publish \/ A!ChangeRoutes \/ UNCHANGED vars
        PROVE  UNCHANGED stored
    BY <1>3 DEF Crash, Publish, A!ChangeRoutes, vars, reviews
  <1> QED
    BY <1>1, <1>2, <1>3 DEF Next, Author

\* The webhook implements the registry ADR-0006 asks for: a policy kept while
\* every write was guarded is one the request path can load.
THEOREM GuardsSound == Spec => Guards
  <1>1. Init => R!Init
    BY DEF Init, A!Init, R!Init, Guarded
  <1>2. InductiveInvariant /\ [Next]_vars => [R!Next]_R!vars
    <2> SUFFICES ASSUME InductiveInvariant, [Next]_vars PROVE [R!Next]_R!vars
      OBVIOUS
    <2>1. Guarded' \in BOOLEAN
      BY DEF Guarded
    <2>2. ASSUME UNCHANGED stored PROVE R!Next
      BY <2>1, <2>2 DEF R!Next, R!Turn
    <2>3. ASSUME NEW w \in Write, A!Store(w) PROVE R!Next
      <3>1. /\ stage[w] = "admit" /\ object[w] \in A!Key /\ spec[w] \in Specs
            /\ stored' = [stored EXCEPT ![object[w]] = spec[w]]
        BY <2>3 DEF A!Store, InductiveInvariant, TypeOK, A!TypeOK
      <3>2. Guarded => A!ValidateSpec(spec[w]) = "ok"
        BY <3>1 DEF Guarded, Pending, A!Done, InductiveInvariant, PassedOrLapsed
      <3>3. Guarded => Loads(spec[w])
        BY <3>1, <3>2, ValidLoads, ComponentsAssumption DEF A!SpecsAssumption
      <3> QED
        BY <2>1, <3>1, <3>3 DEF R!Next, R!Keep
    <2>4. ASSUME NEW key \in A!Key, A!Remove(key) PROVE R!Next
      BY <2>1, <2>4 DEF A!Remove, R!Next, R!Withdraw
    <2> QED
      BY <2>2, <2>3, <2>4, StoredBy
  <1> QED
    BY <1>1, <1>2, Invariance, PTL DEF Spec, R!Spec, Guards

\* A policy is kept only by its own write, and unless that write met no
\* configuration, what it keeps has passed its own review: the request path can
\* load it and its target was there.  The crash of the pod that looked, another
\* pod's untrusted certificate or a lookup that fails cannot let a write through.
THEOREM KeptSound == Spec => KeptWasReviewed
  <1> DEFINE Kept ==
        \A key \in A!Key : stored'[key] # stored[key] /\ stored'[key] # None =>
          \E w \in Write :
              /\ Pending(w) /\ stage'[w] = "stored"
              /\ object[w] = key /\ spec[w] = stored'[key]
              /\ ~lapsed[w] => Loads(spec[w]) /\ A!Under(w) \in seen[w]
  <1>1. InductiveInvariant /\ [Next]_vars => [Kept]_vars
    <2> SUFFICES ASSUME InductiveInvariant, Next,
                        NEW key \in A!Key, stored'[key] # stored[key], stored'[key] # None
                 PROVE  \E w \in Write :
                           /\ Pending(w) /\ stage'[w] = "stored"
                           /\ object[w] = key /\ spec[w] = stored'[key]
                           /\ ~lapsed[w] => Loads(spec[w]) /\ A!Under(w) \in seen[w]
      OBVIOUS
    <2>1. A!TypeOK
      BY DEF InductiveInvariant, TypeOK
    <2>2. \/ \E w \in Write : A!Store(w)
          \/ \E k \in A!Key : A!Remove(k)
      BY StoredBy
    <2>3. ASSUME NEW k \in A!Key, A!Remove(k) PROVE FALSE
      BY <2>1, <2>3 DEF A!Remove, A!TypeOK
    <2>4. PICK w \in Write : A!Store(w)
      BY <2>2, <2>3
    <2>5. /\ stage[w] = "admit" /\ stage'[w] = "stored" /\ spec[w] \in Specs
          /\ object[w] = key /\ spec[w] = stored'[key]
      BY <2>1, <2>4 DEF A!Store, A!Becomes, A!TypeOK
    <2>6. Pending(w)
      BY <2>5 DEF Pending, A!Done
    <2>7. ~lapsed[w] => A!ValidateSpec(spec[w]) = "ok" /\ A!Under(w) \in seen[w]
      BY <2>5 DEF InductiveInvariant, PassedOrLapsed
    <2>8. ~lapsed[w] => Loads(spec[w])
      BY <2>5, <2>7, ValidLoads, ComponentsAssumption DEF A!SpecsAssumption
    <2> QED
      BY <2>5, <2>6, <2>7, <2>8
  <1> QED
    BY <1>1, Invariance, PTL DEF Spec, KeptWasReviewed

\* From any moment at which every policy there is can be loaded, as at the
\* start, it stays so while every write is guarded: no sequence of crashes,
\* restarts, rotated certificates, failed calls and concurrent writes leaves the
\* request path a policy it must skip.
THEOREM StoredLoad == Spec => [](R!AllLoad /\ []Guarded => []R!AllLoad)
  <1>1. R!AllLoad /\ Guarded /\ InductiveInvariant /\ [R!Next]_R!vars => R!AllLoad'
    <2> SUFFICES ASSUME R!AllLoad, Guarded, A!TypeOK, [R!Next]_R!vars,
                        NEW o \in A!Key, stored'[o] # None
                 PROVE  Loads(stored'[o])
      BY DEF R!AllLoad, InductiveInvariant, TypeOK
    <2>1. stored \in [A!Key -> Specs \cup {None}]
      BY DEF A!TypeOK
    <2>2. ASSUME NEW key \in A!Key, NEW s \in Specs, R!Keep(key, s) PROVE Loads(stored'[o])
      <3>1. Loads(s)
        BY <2>2 DEF R!Keep
      <3> QED
        BY <2>1, <2>2, <3>1 DEF R!Keep, R!AllLoad
    <2>3. ASSUME NEW key \in A!Key, R!Withdraw(key) PROVE Loads(stored'[o])
      BY <2>1, <2>3 DEF R!Withdraw, R!AllLoad
    <2>4. ASSUME stored' = stored PROVE Loads(stored'[o])
      BY <2>4 DEF R!AllLoad
    <2> QED
      BY <2>2, <2>3, <2>4 DEF R!Next, R!Turn, R!vars
  <1>2. Spec => [][R!Next]_R!vars
    BY GuardsSound, PTL DEF Guards, R!Spec
  <1> QED
    BY <1>1, <1>2, Invariance, PTL

\* A write is turned away unreviewed only for one of the named reasons, whatever
\* is published and whatever the API server reads: an undisturbed pod with the
\* certificate in force refuses nobody, unless that certificate cannot be read.
THEOREM RefusedSound == Spec => RefusedForAReason
  <1> DEFINE Answered ==
        \A w \in Write :
          /\ stage[w] = "calling" /\ stage'[w] = "rejected" =>
                \/ \A p \in Pod : pod[p] # "serving"
                \/ \E p \in Pod : pod[p] = "serving" /\ troubled[p]
                \/ \E p \in Pod : /\ pod[p] = "serving" /\ S!InForce(p)
                                 /\ Published \notin Readable
                \/ errors' > errors
          /\ stage[w] = "looking" /\ stage'[w] = "deny" =>
                A!Under(w) \notin routes \/ errors' > errors
  <1>1. InductiveInvariant /\ S!ServingIsPublished /\ [Next]_vars => [Answered]_vars
    <2> SUFFICES ASSUME InductiveInvariant, S!ServingIsPublished, Next, NEW v \in Write
                 PROVE  /\ stage[v] = "calling" /\ stage'[v] = "rejected" =>
                              \/ \A p \in Pod : pod[p] # "serving"
                              \/ \E p \in Pod : pod[p] = "serving" /\ troubled[p]
                              \/ \E p \in Pod : /\ pod[p] = "serving" /\ S!InForce(p)
                                               /\ Published \notin Readable
                              \/ errors' > errors
                        /\ stage[v] = "looking" /\ stage'[v] = "deny" =>
                              A!Under(v) \notin routes \/ errors' > errors
      BY DEF Answered
    <2> DEFINE Excuse(p) == /\ pod[p] = "serving"
                            /\ troubled[p] \/ (S!InForce(p) /\ Published \notin Readable)
    <2> USE DEF InductiveInvariant, TypeOK, A!TypeOK, A!Becomes
    <2>1. errors \in Nat /\ errors + 1 > errors
      BY ComponentsAssumption DEF A!SpecsAssumption
    <2>2. ASSUME NEW w \in Write, NEW p \in Pod, Dial(w, p)
          PROVE  stage'[v] = stage[v] \/ (v = w /\ stage[v] = "calling"
                                          /\ (stage'[v] = "rejected" => Excuse(p)))
      <3>1. CASE S!Trusted(p) /\ Reaches(Injected)
        BY <2>2, <3>1 DEF Dial, A!Review
      <3>2. CASE ~(S!Trusted(p) /\ Reaches(Injected))
        <4>1. Reaches(Injected)
          BY CallsReach
        <4> QED
          BY <2>2, <3>2, <4>1, Rejects DEF Dial, S!ServingIsPublished, S!Trusted
      <3> QED
        BY <3>1, <3>2
    <2>3. ASSUME NEW w \in Write, DialNone(w)
          PROVE  stage'[v] = stage[v] \/ (v = w /\ stage[v] = "calling" /\ \A p \in Pod : pod[p] # "serving")
      BY <2>3, Rejects DEF DialNone
    <2>4. ASSUME NEW w \in Write, Pass(w)
          PROVE  stage'[v] = stage[v] \/ (stage[v] = "calling" /\ stage'[v] = "admit")
      BY <2>4 DEF Pass
    <2>5. ASSUME NEW w \in Write, A!Submit(w) \/ A!Store(w) \/ A!Reject(w)
          PROVE  stage'[v] = stage[v] \/ stage[v] \in {"idle", "admit", "deny"}
      BY <2>5 DEF A!Submit, A!Store, A!Reject
    <2>6. ASSUME NEW w \in Write, A!Lookup(w)
          PROVE  stage'[v] = stage[v] \/ (v = w /\ stage[v] = "looking"
                       /\ (stage'[v] = "deny" => A!Under(v) \notin routes))
      BY <2>6 DEF A!Lookup
    <2>7. ASSUME NEW w \in Write, A!LookupFails(w) \/ A!CallFails(w)
          PROVE  stage'[v] = stage[v] \/ stage[v] = "lost" \/ errors' > errors
      BY <2>1, <2>7, Rejects DEF A!LookupFails, A!CallFails
    <2>8. ASSUME NEW p \in Pod, Crash(p)
          PROVE  stage'[v] = stage[v] \/ stage'[v] = "lost"
      BY <2>8 DEF Crash, A!LoseReviews
    <2>9. CASE Author \/ Publish
      BY <2>9 DEF Author, Publish, A!ChangeRoutes, A!Remove, reviews
    <2>10. ASSUME NEW w \in Write, Connect(w)
           PROVE  \/ stage'[v] = stage[v] \/ (stage[v] = "calling" /\ stage'[v] # "rejected")
                  \/ stage[v] = "calling" /\ ((\E p \in Pod : Excuse(p))
                                               \/ \A p \in Pod : pod[p] # "serving")
      BY <2>2, <2>3, <2>4, <2>10 DEF Connect
    <2>11. ASSUME NEW w \in Write, Review(w)
           PROVE  \/ stage'[v] = stage[v] \/ stage[v] \in {"idle", "admit", "deny", "lost"}
                  \/ errors' > errors
                  \/ stage[v] = "looking" /\ (stage'[v] = "deny" => A!Under(v) \notin routes)
      BY <2>5, <2>6, <2>7, <2>11 DEF Review
    <2> QED
      BY <2>8, <2>9, <2>10, <2>11 DEF Next
  <1>2. Spec => []S!ServingIsPublished
    BY PodsPublished
  <1> QED
    BY <1>1, <1>2, Invariance, PTL DEF Spec, RefusedForAReason
=============================================================================
