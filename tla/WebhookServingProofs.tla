------------------------- MODULE WebhookServingProofs -------------------------
(***************************************************************************)
(* The webhook's serving identity, for every number of pods, starts,       *)
(* crashes, edits and failed requests.                                     *)
(***************************************************************************)
EXTENDS WebhookServing, TLAPS

\* The two sides of the manifests fit, whether or not the webhook is told its
\* namespace: the generated rules let it look targets up and publish, its
\* configuration has the name it asks for and names every write of an
\* AuthPolicy, calls reach its handler under a name its certificate carries, and
\* calls that fail reject the write.
THEOREM ManifestsFit ==
    ASSUME NEW injected \in BOOLEAN
    PROVE  /\ MayRead /\ MayReplace /\ May("get", HttpRoutes)
           /\ Reviewed("CREATE") /\ Reviewed("UPDATE")
           /\ Reaches(injected)
           /\ WebhookConfiguration.failurePolicy = "Fail"
  <1>1. /\ ClusterRoleBinding.roleRef = ClusterRole.name
        /\ ServiceAccount \in ClusterRoleBinding.subjects
    BY DEF ClusterRoleBinding, ClusterRole, ServiceAccount
  <1>2. /\ \E r \in ClusterRole.rules : r.on = HttpRoutes /\ "get" \in r.verbs
        /\ \E r \in ClusterRole.rules : r.on = Configurations /\ "get" \in r.verbs
        /\ \E r \in ClusterRole.rules : r.on = Configurations /\ "update" \in r.verbs
    BY DEF ClusterRole, Rule, HttpRoutes, Configurations
  <1>3. WebhookConfiguration.name = NAME /\ WebhookConfiguration.failurePolicy = "Fail"
    BY DEF WebhookConfiguration, NAME, WEBHOOK_NAME
  <1>4. Reviewed("CREATE") /\ Reviewed("UPDATE")
    BY DEF Reviewed, WebhookConfiguration, WebhookRule, AuthPolicies
  <1>5. OwnNamespace(injected) = NAMESPACE
    BY DEF OwnNamespace, NAMESPACE, DEFAULT_NAMESPACE
  <1>6. Reaches(injected)
    BY <1>5 DEF Reaches, WebhookService, WebhookConfiguration, ServingDnsNames,
                DEFAULT_LISTEN_PORT, VALIDATE_PATH, NAME, WEBHOOK_NAME
  <1> QED
    BY <1>1, <1>2, <1>3, <1>4, <1>6 DEF MayRead, MayReplace, May

\* Types hold at the start.
LEMMA TypeInit == Init => TypeOK
  BY BoundsAssumption DEF Init, TypeOK, Config, Stages

\* What publish_ca_bundle sends is what it read, with its own certificate.
LEMMA ReplacementType ==
    ASSUME TypeOK, NEW p \in Pod, config # None
    PROVE  /\ Certificate(p) \in Bundle
           /\ Replacement(p) \in Put
           /\ Replacement(p).version = config.version
           /\ Replacement(p).edit = config.edit
           /\ Replacement(p).bundle = Certificate(p)
  BY BoundsAssumption DEF TypeOK, Config, Put, Bundle, Replacement, Certificate

\* Every step keeps the types.
LEMMA TypeStep == TypeOK /\ [Next]_vars => TypeOK'
  <1> SUFFICES ASSUME TypeOK, [Next]_vars PROVE TypeOK'
    OBVIOUS
  <1> USE BoundsAssumption DEF TypeOK, Stages, Becomes, Fails, Disturb, cluster, pods
  <1>1. ASSUME NEW p \in Pod, Start(p) PROVE TypeOK'
    BY <1>1 DEF Start
  <1>2. ASSUME NEW p \in Pod, Get(p) PROVE TypeOK'
    BY <1>2, ReplacementType DEF Get
  <1>3. ASSUME NEW p \in Pod, GetFails(p) PROVE TypeOK'
    BY <1>3 DEF GetFails
  <1>4. ASSUME NEW p \in Pod, PutReturns(p) PROVE TypeOK'
    BY <1>4 DEF PutReturns
  <1>5. ASSUME NEW p \in Pod, PutFails(p) PROVE TypeOK'
    BY <1>5 DEF PutFails
  <1>6. ASSUME NEW p \in Pod, Serve(p) PROVE TypeOK'
    BY <1>6 DEF Serve
  <1>7. ASSUME NEW p \in Pod, Crash(p) PROVE TypeOK'
    BY <1>7 DEF Crash
  <1>8. ASSUME NEW put \in puts, Land(put) PROVE TypeOK'
    <2>1. [put EXCEPT !.version = revision + 1] \in Config
      BY DEF Put, Config
    <2>2. CASE Current(put)
      <3>1. /\ puts' \subseteq puts /\ config' \in Config /\ revision' = revision + 1
            /\ UNCHANGED <<edits, stage, runs, errors, crashes>>
        BY <1>8, <2>1, <2>2 DEF Land
      <3>2. troubled' \in [Pod -> BOOLEAN]
        BY <1>8, <2>2 DEF Land
      <3> QED
        BY <3>1, <3>2
    <2>3. CASE ~Current(put)
      BY <1>8, <2>3 DEF Land
    <2> QED
      BY <2>2, <2>3
  <1>9. CASE Edit
    <2>1. [version |-> revision + 1, edit |-> edits + 1,
           bundle |-> IF config = None THEN None ELSE config.bundle] \in Config
      BY DEF Config
    <2> QED
      BY <1>9, <2>1 DEF Edit
  <1>10. CASE Delete
    BY <1>10 DEF Delete
  <1>11. CASE UNCHANGED vars
    BY <1>11 DEF vars
  <1> QED
    BY <1>1, <1>2, <1>3, <1>4, <1>5, <1>6, <1>7, <1>8, <1>9, <1>10, <1>11 DEF Next, PodStep

-----------------------------------------------------------------------------
(* Versions.                                                               *)

\* Steps that leave the cluster and the requests alone, or drop requests.
LEMMA ReadingsStutter ==
    ASSUME TypeOK, PutsAreReadings, UNCHANGED <<config, revision, edits>>,
           puts' \subseteq puts, \A p \in Pod : runs[p] <= runs'[p], runs' \in [Pod -> Nat]
    PROVE  PutsAreReadings'
  <1> USE BoundsAssumption DEF TypeOK, PutsAreReadings, Config, Put, Bundle
  <1>1. config # None => /\ config.version = revision /\ config.edit = edits
                         /\ config.bundle # None =>
                               config.bundle.run <= runs'[config.bundle.pod]
    OBVIOUS
  <1>2. \A put \in puts : put.bundle.run <= runs'[put.bundle.pod]
    OBVIOUS
  <1> QED
    BY <1>1, <1>2

\* A request that may still be applied goes on carrying the configuration in
\* force: whatever changes it also changes its version.
LEMMA ReadingsStep == TypeOK /\ PutsAreReadings /\ [Next]_vars => PutsAreReadings'
  <1> SUFFICES ASSUME TypeOK, PutsAreReadings, [Next]_vars PROVE PutsAreReadings'
    OBVIOUS
  <1> USE DEF cluster, pods
  <1>1. ASSUME NEW p \in Pod, Start(p) PROVE PutsAreReadings'
    <2>1. \A q \in Pod : runs[q] <= runs'[q]
      BY <1>1, BoundsAssumption DEF Start, TypeOK
    <2>2. runs' \in [Pod -> Nat]
      BY <1>1, BoundsAssumption DEF Start, TypeOK
    <2> QED
      BY <1>1, <2>1, <2>2, ReadingsStutter DEF Start
  <1>2. ASSUME NEW p \in Pod, Get(p) PROVE PutsAreReadings'
    <2>1. /\ Replacement(p) \in Put
          /\ Replacement(p).version = config.version
          /\ Replacement(p).edit = config.edit
          /\ Replacement(p).bundle = Certificate(p)
      BY <1>2, ReplacementType DEF Get
    <2>2. Certificate(p).pod = p /\ Certificate(p).run = runs[p]
      BY DEF Certificate
    <2>3. runs[p] \in Nat
      BY BoundsAssumption DEF TypeOK
    <2> QED
      BY <1>2, <2>1, <2>2, <2>3 DEF Get, PutsAreReadings, TypeOK
  <1>3. ASSUME NEW p \in Pod,
               GetFails(p) \/ PutReturns(p) \/ PutFails(p) \/ Serve(p) \/ Crash(p)
        PROVE  PutsAreReadings'
    <2>1. puts' \subseteq puts /\ runs' = runs /\ UNCHANGED <<config, revision, edits>>
      BY <1>3 DEF GetFails, PutReturns, PutFails, Serve, Crash
    <2>2. runs \in [Pod -> Nat] /\ \A q \in Pod : runs[q] <= runs[q]
      BY BoundsAssumption DEF TypeOK
    <2> QED
      BY <2>1, <2>2, ReadingsStutter
  <1>4. ASSUME NEW put \in puts, Land(put) PROVE PutsAreReadings'
    <2>1. CASE ~Current(put)
      <3>1. puts' \subseteq puts /\ runs' = runs /\ UNCHANGED <<config, revision, edits>>
        BY <1>4, <2>1 DEF Land
      <3>2. runs \in [Pod -> Nat] /\ \A q \in Pod : runs[q] <= runs[q]
        BY BoundsAssumption DEF TypeOK
      <3> QED
        BY <3>1, <3>2, ReadingsStutter
    <2>2. CASE Current(put)
      <3>1. /\ config' = [put EXCEPT !.version = revision + 1]
            /\ revision' = revision + 1 /\ edits' = edits /\ runs' = runs
            /\ puts' = puts \ {put}
        BY <1>4, <2>2 DEF Land
      <3>2. put \in Put /\ put.version = revision /\ put.edit = edits
            /\ put.bundle.run <= runs[put.bundle.pod]
        BY <2>2 DEF Current, PutsAreReadings, TypeOK
      <3>3. config'.version = revision' /\ config'.edit = edits' /\ config'.bundle = put.bundle
        BY <3>1, <3>2 DEF Put
      <3>4. \A other \in puts : other.version <= revision /\ other.version \in Nat
        BY DEF PutsAreReadings, TypeOK, Put
      <3>5. \A other \in puts' : other.version < revision'
        BY <3>1, <3>4 DEF TypeOK
      <3>6. \A other \in puts' : other.version <= revision' /\ other.version # revision'
        BY <3>1, <3>4 DEF TypeOK
      <3>7. \A other \in puts' : other.bundle.run <= runs'[other.bundle.pod]
        BY <3>1 DEF PutsAreReadings
      <3> QED
        BY <3>1, <3>2, <3>3, <3>6, <3>7 DEF PutsAreReadings
    <2> QED
      BY <2>1, <2>2
  <1>5. CASE Edit
    <2>1. /\ config' = [version |-> revision + 1, edit |-> edits + 1,
                        bundle |-> IF config = None THEN None ELSE config.bundle]
          /\ revision' = revision + 1 /\ edits' = edits + 1
          /\ puts' = puts /\ runs' = runs
      BY <1>5 DEF Edit
    <2>2. \A put \in puts : put.version <= revision' /\ put.version # revision'
      BY <2>1 DEF PutsAreReadings, TypeOK, Put
    <2>3. config'.bundle # None => config'.bundle.run <= runs[config'.bundle.pod]
      BY <2>1 DEF PutsAreReadings
    <2> QED
      BY <2>1, <2>2, <2>3 DEF PutsAreReadings
  <1>6. CASE Delete
    BY <1>6 DEF Delete, PutsAreReadings
  <1>7. CASE UNCHANGED vars
    BY <1>7 DEF vars, PutsAreReadings
  <1> QED
    BY <1>1, <1>2, <1>3, <1>4, <1>5, <1>6, <1>7 DEF Next, PodStep

-----------------------------------------------------------------------------
(* Publication.                                                            *)

\* A step of another pod that leaves the cluster alone and sends nothing.
LEMMA OnCourseStutter ==
    ASSUME NEW q \in Pod, OnCourseAt(q), puts' = puts,
           config' = config, stage'[q] = stage[q], runs'[q] = runs[q],
           troubled'[q] = troubled[q]
    PROVE  OnCourseAt(q)'
  BY DEF OnCourseAt, InFlight, Certificate

\* An undisturbed publication stays on course: what could take it off is a write
\* of somebody else or a failure, and those disturb it.
LEMMA OnCourseStep ==
    TypeOK /\ PutsAreReadings /\ OnCourse /\ [Next]_vars => OnCourse'
  <1> SUFFICES ASSUME TypeOK, PutsAreReadings, OnCourse, [Next]_vars, NEW q \in Pod
               PROVE  OnCourseAt(q)'
    BY DEF OnCourse
  <1> OnCourseAt(q)
    BY DEF OnCourse
  <1> USE DEF cluster, pods, Becomes, Disturb
  <1>1. ASSUME NEW p \in Pod, Start(p) PROVE OnCourseAt(q)'
    <2>1. CASE p = q
      <3>1. runs'[q] = runs[q] + 1 /\ stage'[q] = "minted" /\ puts' = puts
        BY <1>1, <2>1 DEF Start, TypeOK
      <3>2. \A put \in puts : put.bundle.pod = q => put.bundle.run <= runs[q]
        BY DEF PutsAreReadings
      <3>3. runs[q] \in Nat /\ \A put \in puts : put.bundle.run \in Nat
        BY BoundsAssumption DEF TypeOK, Put, Bundle
      <3>4. Certificate(q)'.pod = q /\ Certificate(q)'.run = runs[q] + 1
        BY <3>1 DEF Certificate
      <3>5. \A put \in puts : put.bundle # Certificate(q)'
        BY <3>2, <3>3, <3>4
      <3> QED
        BY <3>1, <3>5 DEF OnCourseAt, InFlight
    <2>2. CASE p # q
      BY <1>1, <2>2, OnCourseStutter DEF Start, TypeOK
    <2> QED
      BY <2>1, <2>2
  <1>2. ASSUME NEW p \in Pod, Get(p) PROVE OnCourseAt(q)'
    <2>1. /\ Replacement(p).version = config.version
          /\ Replacement(p).bundle = Certificate(p)
      BY <1>2, ReplacementType DEF Get
    <2>2. puts' = puts \cup {Replacement(p)} /\ config' = config /\ runs' = runs
          /\ config # None
      BY <1>2 DEF Get
    <2>3. CASE p = q
      <3>1. \A put \in puts : put.bundle # Certificate(q)
        BY <1>2, <2>3 DEF Get, OnCourseAt, InFlight
      <3>2. stage'[q] = "putting"
        BY <1>2, <2>3 DEF Get, TypeOK
      <3>3. Certificate(q)' = Certificate(q)
        BY <2>2 DEF Certificate
      <3> QED
        BY <2>1, <2>2, <2>3, <3>1, <3>2, <3>3 DEF OnCourseAt
    <2>4. CASE p # q
      <3>1. Certificate(p) # Certificate(q)
        BY <2>4 DEF Certificate
      <3>2. stage'[q] = stage[q] /\ troubled' = troubled
        BY <1>2, <2>4 DEF Get, TypeOK
      <3>3. Certificate(q)' = Certificate(q)
        BY <2>2 DEF Certificate
      <3> QED
        BY <2>1, <2>2, <3>1, <3>2, <3>3 DEF OnCourseAt, InFlight
    <2> QED
      BY <2>3, <2>4
  <1>3. ASSUME NEW p \in Pod, GetFails(p) PROVE OnCourseAt(q)'
    <2>1. CASE p = q
      <3>1. troubled'[q] /\ stage'[q] = "published" /\ puts' = puts /\ runs' = runs
        BY <1>3, <2>1 DEF GetFails, TypeOK
      <3> QED
        BY <3>1 DEF OnCourseAt, InFlight, Certificate
    <2>2. CASE p # q
      <3>1. troubled'[q] = troubled[q]
        BY <1>3, <2>2 DEF GetFails, TypeOK
      <3> QED
        BY <1>3, <2>2, <3>1, OnCourseStutter DEF GetFails, TypeOK
    <2> QED
      BY <2>1, <2>2
  <1>4. ASSUME NEW p \in Pod, PutReturns(p) PROVE OnCourseAt(q)'
    <2>1. CASE p = q
      BY <1>4, <2>1 DEF PutReturns, OnCourseAt, InFlight, Certificate, TypeOK
    <2>2. CASE p # q
      BY <1>4, <2>2, OnCourseStutter DEF PutReturns, TypeOK
    <2> QED
      BY <2>1, <2>2
  <1>5. ASSUME NEW p \in Pod, PutFails(p) PROVE OnCourseAt(q)'
    <2>0. puts' \subseteq puts /\ runs' = runs /\ config' = config
      BY <1>5 DEF PutFails
    <2>1. CASE p = q
      <3>1. troubled'[q] /\ stage'[q] = "published"
        BY <1>5, <2>1 DEF PutFails, TypeOK
      <3> QED
        BY <2>0, <3>1 DEF OnCourseAt, InFlight, Certificate
    <2>2. CASE p # q
      <3>1. stage'[q] = stage[q] /\ troubled'[q] = troubled[q]
        BY <1>5, <2>2 DEF PutFails, TypeOK
      <3>2. \A put \in puts : put.bundle = Certificate(q) => put \in puts'
        BY <1>5, <2>2 DEF PutFails, Certificate
      <3> QED
        BY <2>0, <3>1, <3>2 DEF OnCourseAt, InFlight, Certificate
    <2> QED
      BY <2>1, <2>2
  <1>6. ASSUME NEW p \in Pod, Serve(p) PROVE OnCourseAt(q)'
    <2>1. CASE p = q
      BY <1>6, <2>1 DEF Serve, OnCourseAt, InFlight, Certificate, TypeOK
    <2>2. CASE p # q
      BY <1>6, <2>2, OnCourseStutter DEF Serve, TypeOK
    <2> QED
      BY <2>1, <2>2
  <1>7. ASSUME NEW p \in Pod, Crash(p) PROVE OnCourseAt(q)'
    <2>1. CASE p = q
      BY <1>7, <2>1 DEF Crash, OnCourseAt, InFlight, Certificate, TypeOK
    <2>2. CASE p # q
      BY <1>7, <2>2, OnCourseStutter DEF Crash, TypeOK
    <2> QED
      BY <2>1, <2>2
  <1>8. ASSUME NEW put \in puts, Land(put) PROVE OnCourseAt(q)'
    <2>0. puts' = puts \ {put} /\ UNCHANGED <<stage, runs>> /\ Certificate(q)' = Certificate(q)
      BY <1>8 DEF Land, Certificate
    <2>1. CASE ~Current(put)
      <3>1. config' = config /\ troubled' = troubled
        BY <1>8, <2>1 DEF Land
      <3>2. config # None => config.version # put.version
        BY <2>1, ManifestsFit DEF Current
      <3> QED
        BY <2>0, <3>1, <3>2 DEF OnCourseAt, InFlight
    <2>2. CASE Current(put)
      <3>1. config' = [put EXCEPT !.version = revision + 1]
            /\ troubled' = [p \in Pod |-> troubled[p] \/ p \in
                              {r \in Exposed : put.bundle # Certificate(r)}]
        BY <1>8, <2>2 DEF Land
      <3>2. put \in Put
        BY DEF TypeOK
      <3>3. config' # None /\ config'.bundle = put.bundle
        <4>1. config' \in Config
          BY <3>1, <3>2 DEF Put, Config, TypeOK
        <4>2. config'.bundle = put.bundle
          BY <3>1, <3>2 DEF Put
        <4> QED
          BY <4>1, <4>2, BoundsAssumption DEF Config, Bundle
      <3>4. troubled'[q] = (troubled[q] \/ (q \in Exposed /\ put.bundle # Certificate(q)))
        BY <3>1
      <3>5. stage'[q] \in {"putting", "published", "serving"} => q \in Exposed
        BY <2>0 DEF Exposed
      <3> QED
        BY <2>0, <3>3, <3>4, <3>5 DEF OnCourseAt, InFlight
    <2> QED
      BY <2>1, <2>2
  <1>9. CASE Edit
    <2>1. /\ config' = [version |-> revision + 1, edit |-> edits + 1,
                        bundle |-> IF config = None THEN None ELSE config.bundle]
          /\ puts' = puts /\ UNCHANGED <<stage, runs>> /\ Certificate(q)' = Certificate(q)
      BY <1>9 DEF Edit, Certificate
    <2>2. troubled'[q] = (troubled[q] \/ InFlight(q))
      BY <1>9 DEF Edit
    <2>3. config' # None
      <3>1. config' \in Config
        BY <2>1 DEF Config, TypeOK
      <3> QED
        BY <3>1, BoundsAssumption DEF Config, Bundle
    <2> QED
      BY <2>1, <2>2, <2>3 DEF OnCourseAt, InFlight
  <1>10. CASE Delete
    <2>1. troubled'[q] = (troubled[q] \/ q \in Exposed)
      BY <1>10 DEF Delete
    <2> QED
      BY <1>10, <2>1 DEF Delete, Exposed, OnCourseAt, InFlight, Certificate
  <1>11. CASE UNCHANGED vars
    BY <1>11, OnCourseStutter DEF vars
  <1> QED
    BY <1>1, <1>2, <1>3, <1>4, <1>5, <1>6, <1>7, <1>8, <1>9, <1>10, <1>11 DEF Next, PodStep

-----------------------------------------------------------------------------
(* The theorems.                                                           *)

\* What the others follow from.
THEOREM Invariance == Spec => []InductiveInvariant
  <1>1. Init => InductiveInvariant
    <2>1. Init => PutsAreReadings
      BY BoundsAssumption DEF Init, PutsAreReadings
    <2>2. Init => OnCourse
      BY DEF Init, OnCourse, OnCourseAt, InFlight
    <2> QED
      BY <2>1, <2>2, TypeInit DEF InductiveInvariant
  <1>2. InductiveInvariant /\ [Next]_vars => InductiveInvariant'
    BY TypeStep, ReadingsStep, OnCourseStep DEF InductiveInvariant
  <1> QED
    BY <1>1, <1>2, PTL DEF Spec

\* publish_ca_bundle never undoes an administrator's edit.
THEOREM EditsKept == Spec => []EditsSurvive
  <1>1. InductiveInvariant => EditsSurvive
    BY DEF InductiveInvariant, PutsAreReadings, EditsSurvive
  <1> QED
    BY <1>1, Invariance, PTL

\* An undisturbed webhook that serves does so with the certificate in force:
\* crashes between read, replace and bind, the other pods and requests that
\* arrive late cannot have put another one there.
THEOREM PublishedSound == Spec => []ServingIsPublished
  <1>1. InductiveInvariant => ServingIsPublished
    BY DEF InductiveInvariant, OnCourse, OnCourseAt, ServingIsPublished, InForce
  <1> QED
    BY <1>1, Invariance, PTL

\* A pod's certificate is never replaced by one of its earlier runs.
THEOREM CertificatesForward == Spec => NoOlderCertificate
  <1> DEFINE NoOlder ==
        config # None /\ config' # None =>
          \/ None \in {config.bundle, config'.bundle}
          \/ config'.bundle.pod # config.bundle.pod
          \/ config'.bundle.run >= config.bundle.run
  <1>1. InductiveInvariant /\ [Next]_vars => [NoOlder]_vars
    <2> SUFFICES ASSUME InductiveInvariant, Next PROVE NoOlder
      OBVIOUS
    <2> USE DEF InductiveInvariant, cluster
    <2>1. config # None /\ config.bundle # None => config.bundle.run \in Nat
      BY DEF TypeOK, Config, Bundle
    <2>2. CASE config' = config
      BY <2>1, <2>2
    <2>3. ASSUME NEW put \in puts, Land(put), config' # config PROVE NoOlder
      <3>1. config' = [put EXCEPT !.version = revision + 1] /\ Current(put)
        BY <2>3 DEF Land
      <3>2. put \in Put /\ config'.bundle = put.bundle /\ put.bundle.run \in Nat
        BY <3>1 DEF TypeOK, Put, Bundle
      <3>3. config # None => put.version = revision
        BY <3>1 DEF Current, PutsAreReadings
      <3> QED
        BY <2>1, <3>2, <3>3 DEF PutsAreReadings
    <2>4. CASE Edit
      <3>1. config # None => config'.bundle = config.bundle
        BY <2>4 DEF Edit
      <3> QED
        BY <2>1, <3>1
    <2>5. CASE Delete
      BY <2>5 DEF Delete
    <2> QED
      BY <2>2, <2>3, <2>4, <2>5
         DEF Next, PodStep, Start, Get, GetFails, PutReturns, PutFails, Serve, Crash
  <1> QED
    BY <1>1, Invariance, PTL DEF Spec, NoOlderCertificate
=============================================================================
