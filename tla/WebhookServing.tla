---------------------------- MODULE WebhookServing ----------------------------
(***************************************************************************)
(* The serving identity of the admission webhook (webhook/src/lib.rs run   *)
(* and publish_ca_bundle, tls.rs, ADR-0008): every start mints a           *)
(* self-signed certificate, writes it once into the caBundle of the        *)
(* ValidatingWebhookConfiguration and then serves, whatever became of the  *)
(* write.  Starts, crashes, administrators and other pods interleave with  *)
(* the read and the write, and a request can outlive the process that sent *)
(* it.  The API server is external.                                        *)
(***************************************************************************)
EXTENDS Naturals, Manifests

CONSTANTS
    None,
    Pod,           \* webhook pods; an upgrade overlaps two
    Encoding,      \* encodings of a certificate
    Published,     \* the one publish_ca_bundle writes
    Readable,      \* those the API server reads
    MaxRuns,       \* bound on the starts of a pod ...
    MaxCrashes,    \* ... on crashes, so that the former never stops a pod
    MaxEdits,      \* bound on administrators' writes
    MaxErrors      \* bound on API requests that fail

ASSUME BoundsAssumption ==
    /\ None \notin [pod : Pod, run : Nat, encoding : Encoding]
    /\ None \notin [version : Nat, edit : Nat,
                    bundle : {None} \cup [pod : Pod, run : Nat, encoding : Encoding]]
    /\ Published \in Encoding
    /\ MaxCrashes \in Nat /\ MaxEdits \in Nat /\ MaxErrors \in Nat
    /\ MaxRuns \in Nat /\ MaxRuns > MaxCrashes

VARIABLES
    config,     \* the ValidatingWebhookConfiguration, None while there is none
    revision,   \* the API server's resourceVersion counter
    edits,      \* administrators' writes; config.edit is the one it reflects
    stage,      \* what each pod is doing
    runs,       \* starts of each pod; with the pod, the name of a certificate
    puts,       \* replace requests the API server has not processed
    troubled,   \* history: this run's publication was disturbed
    errors,     \* API requests that failed
    crashes

cluster == <<config, revision, edits>>
pods == <<stage, runs>>
vars == <<cluster, pods, puts, troubled, errors, crashes>>

\* The certificate of a pod's current run (tls::generate), as published.
Certificate(p) == [pod |-> p, run |-> runs[p], encoding |-> Published]

Bundle == [pod : Pod, run : Nat, encoding : Encoding]
Config == [version : Nat, edit : Nat, bundle : {None} \cup Bundle]
Put == [version : Nat, edit : Nat, bundle : Bundle]

Stages == {"down", "minted", "putting", "published", "serving"}

\* The configuration is installed, with an empty caBundle, or it is not yet.
Init ==
    /\ revision = 1
    /\ edits = 0
    /\ config \in {None, [version |-> 1, edit |-> 0, bundle |-> None]}
    /\ stage = [p \in Pod |-> "down"]
    /\ runs = [p \in Pod |-> 0]
    /\ puts = {}
    /\ troubled = [p \in Pod |-> FALSE]
    /\ errors = 0
    /\ crashes = 0

InFlight(p) == \E put \in puts : put.bundle = Certificate(p)

\* Pods whose certificate is in the configuration, or on its way there.
Exposed == {p \in Pod : stage[p] \in {"putting", "published", "serving"}}

Disturb(victims) == troubled' = [p \in Pod |-> troubled[p] \/ p \in victims]

Fails == errors < MaxErrors /\ errors' = errors + 1

Becomes(p, s) == stage' = [stage EXCEPT ![p] = s]

-----------------------------------------------------------------------------
(* A pod.                                                                  *)

Start(p) ==
    /\ stage[p] = "down" /\ runs[p] < MaxRuns
    /\ Becomes(p, "minted")
    /\ runs' = [runs EXCEPT ![p] = @ + 1]
    /\ troubled' = [troubled EXCEPT ![p] = FALSE]
    /\ UNCHANGED <<cluster, puts, errors, crashes>>

\* What replace sends: the configuration as read, its resourceVersion
\* included, with this run's certificate in every webhook.
Replacement(p) == [config EXCEPT !.bundle = Certificate(p)]

\* Mutant: a caBundle that is there already is left alone.
GetUnlessSet(p) ==
    /\ stage[p] = "minted" /\ config # None
    /\ IF config.bundle = None
       THEN puts' = puts \cup {Replacement(p)} /\ Becomes(p, "putting")
       ELSE puts' = puts /\ Becomes(p, "published")
    /\ UNCHANGED <<cluster, runs, troubled, errors, crashes>>

\* get answers, and replace is sent at once.
Get(p) ==
    /\ stage[p] = "minted" /\ config # None /\ MayRead
    /\ puts' = puts \cup {Replacement(p)}
    /\ Becomes(p, "putting")
    /\ UNCHANGED <<cluster, runs, troubled, errors, crashes>>

\* Mutant: a configuration that cannot be read is fatal.
GetFatal(p) ==
    /\ stage[p] = "minted"
    /\ \/ config = None /\ UNCHANGED errors
       \/ Fails
    /\ Becomes(p, "down")
    /\ Disturb({p})
    /\ UNCHANGED <<cluster, runs, puts, crashes>>

\* There is no configuration, or none it may read, or get fails: "serving
\* anyway".
GetFails(p) ==
    /\ stage[p] = "minted"
    /\ \/ (config # None => ~MayRead) /\ UNCHANGED errors
       \/ Fails
    /\ Becomes(p, "published")
    /\ Disturb({p})
    /\ UNCHANGED <<cluster, runs, puts, crashes>>

\* replace returns, and its result is only logged.
PutReturns(p) ==
    /\ stage[p] = "putting" /\ ~InFlight(p)
    /\ Becomes(p, "published")
    /\ UNCHANGED <<cluster, runs, puts, troubled, errors, crashes>>

\* The connection breaks; the request may or may not have arrived.
PutFails(p) ==
    /\ stage[p] = "putting"
    /\ Fails
    /\ puts' \in {puts, {put \in puts : put.bundle # Certificate(p)}}
    /\ Becomes(p, "published")
    /\ Disturb({p})
    /\ UNCHANGED <<cluster, runs, crashes>>

\* bind_rustls with the certificate of this run.
Serve(p) ==
    /\ stage[p] = "published"
    /\ Becomes(p, "serving")
    /\ UNCHANGED <<cluster, runs, puts, troubled, errors, crashes>>

\* A panic, a failed bind, a signal.  Requests already sent stay in flight.
Crash(p) ==
    /\ stage[p] # "down"
    /\ crashes < MaxCrashes
    /\ crashes' = crashes + 1
    /\ Becomes(p, "down")
    /\ UNCHANGED <<cluster, runs, puts, troubled, errors>>

-----------------------------------------------------------------------------
(* The API server and the administrators.                                  *)

\* Mutant: the object sent carries no resourceVersion.
CurrentAlways(put) == config # None /\ MayReplace

\* replace is conditional: the object sent carries the resourceVersion read.
Current(put) == config # None /\ config.version = put.version /\ MayReplace

\* A replace request is processed: applied, or NotFound, Conflict or Forbidden.
Land(put) ==
    /\ put \in puts
    /\ puts' = puts \ {put}
    /\ IF Current(put)
       THEN /\ config' = [put EXCEPT !.version = revision + 1]
            /\ revision' = revision + 1
            /\ Disturb({p \in Exposed : put.bundle # Certificate(p)})
       ELSE UNCHANGED <<config, revision, troubled>>
    /\ UNCHANGED <<edits, pods, errors, crashes>>

\* kubectl apply of the generated manifest, which says nothing of caBundle, or
\* any other edit: what others wrote stays.
Edit ==
    /\ edits < MaxEdits
    /\ edits' = edits + 1
    /\ revision' = revision + 1
    /\ config' = [version |-> revision + 1, edit |-> edits + 1,
                  bundle |-> IF config = None THEN None ELSE config.bundle]
    /\ Disturb({p \in Pod : InFlight(p)})
    /\ UNCHANGED <<pods, puts, errors, crashes>>

Delete ==
    /\ config # None
    /\ edits < MaxEdits
    /\ edits' = edits + 1
    /\ config' = None
    /\ Disturb(Exposed)
    /\ UNCHANGED <<revision, pods, puts, errors, crashes>>

PodStep(p) ==
    \/ Start(p) \/ Get(p) \/ GetFails(p) \/ PutReturns(p) \/ PutFails(p)
    \/ Serve(p)

Next ==
    \/ \E p \in Pod : PodStep(p) \/ Crash(p)
    \/ \E put \in puts : Land(put)
    \/ Edit \/ Delete

Spec == Init /\ [][Next]_vars

\* The kubelet starts pods, a pod's own code runs, and the API server
\* processes what it received.  Failures, crashes and administrators' writes
\* need not happen.
Fairness ==
    /\ \A p \in Pod :
          /\ WF_vars(Start(p))
          /\ WF_vars(Get(p) \/ GetFails(p))
          /\ WF_vars(PutReturns(p)) /\ WF_vars(Serve(p))
    /\ WF_vars(\E put \in puts : Land(put))

FairSpec == Spec /\ Fairness

-----------------------------------------------------------------------------
(* What makes it correct.                                                  *)

\* The type invariant.
TypeOK ==
    /\ config \in {None} \cup Config
    /\ revision \in Nat
    /\ edits \in 0..MaxEdits
    /\ stage \in [Pod -> Stages]
    /\ runs \in [Pod -> 0..MaxRuns]
    /\ puts \subseteq Put
    /\ troubled \in [Pod -> BOOLEAN]
    /\ errors \in 0..MaxErrors
    /\ crashes \in 0..MaxCrashes

\* Publishing never undoes an administrator's edit, however late the request
\* that carries the older configuration arrives (lib.rs:118, replace with the
\* resourceVersion that was read).
EditsSurvive == config # None => config.edit = edits

\* The certificate a pod serves is the one in force.
InForce(p) == config # None /\ config.bundle = Certificate(p)

\* The API server accepts it.
Trusted(p) == InForce(p) /\ Published \in Readable

\* A webhook that serves does so with the certificate in force, unless its own
\* publication met an absent configuration, a failed request or somebody else's
\* write (ADR-0008 §2, §4).  The generated rules have to grant what it needs for
\* that; whether the API server can read what is in force is another matter.
ServingIsPublished ==
    \A p \in Pod : stage[p] = "serving" /\ ~troubled[p] => InForce(p)

\* It can: an undisturbed webhook that serves is trusted ("so the API server
\* trusts us", lib.rs:32).
ServingIsTrusted ==
    \A p \in Pod : stage[p] = "serving" /\ ~troubled[p] => Trusted(p)

\* A request left over from an earlier run of a pod never replaces the
\* certificate of a later one.
NoOlderCertificate ==
    [][config # None /\ config' # None =>
          \/ None \in {config.bundle, config'.bundle}
          \/ config'.bundle.pod # config.bundle.pod
          \/ config'.bundle.run >= config.bundle.run]_vars

\* What every step relies on.  The configuration in force has the latest
\* version, and whoever may still replace it has read it ...
PutsAreReadings ==
    /\ config # None => /\ config.version = revision
                        /\ config.edit = edits
                        /\ config.bundle # None =>
                              config.bundle.run <= runs[config.bundle.pod]
    /\ \A put \in puts :
          /\ put.version <= revision
          /\ put.bundle.run <= runs[put.bundle.pod]
          /\ config # None /\ put.version = revision =>
                /\ put.edit = edits
                /\ config.bundle # None /\ config.bundle.pod = put.bundle.pod =>
                      config.bundle.run <= put.bundle.run

\* ... a run sends one request, and an undisturbed one is current until it has
\* put the certificate in force.
OnCourseAt(p) ==
    /\ stage[p] = "minted" => ~InFlight(p)
    /\ \A put, other \in puts :
          put.bundle = Certificate(p) /\ other.bundle = Certificate(p) => put = other
    /\ ~troubled[p] /\ stage[p] \in {"putting", "published", "serving"} =>
          /\ config # None
          /\ \/ config.bundle = Certificate(p)
             \/ /\ stage[p] = "putting"
                /\ \E put \in puts : /\ put.bundle = Certificate(p)
                                     /\ put.version = config.version

OnCourse == \A p \in Pod : OnCourseAt(p)

\* Types, readings and publications on course: every step keeps them together,
\* and the safety properties above follow.
InductiveInvariant == TypeOK /\ PutsAreReadings /\ OnCourse

\* A missing configuration and a failed publication are not fatal: once a pod
\* stops crashing it serves (ADR-0008 §3, "logged, not fatal").
ComesToServe == \A p \in Pod : <>[](stage[p] = "serving")

\* While the configuration exists, a webhook that serves comes to be trusted:
\* what ADR-0008 says of the caBundle and of restarts.
BlockedOnlyBriefly ==
    \A p \in Pod : stage[p] = "serving" ~>
        (Trusted(p) \/ stage[p] # "serving" \/ config = None)
=============================================================================
