# AuthRoute in TLA+

AuthRoute is an external authorization service for Envoy Gateway. Envoy asks
it, request by request, whether a request may pass; it answers from a table of
CEL policies and a session. A second program, the admission webhook, keeps
malformed `AuthPolicy` objects out of the cluster. This directory specifies
both, checks the specifications with TLC and proves the main safety results
with TLAPS. The source is the reference; paths below are relative to
`crates/`.

## 1. The system

| Part | State | Operations |
|---|---|---|
| `api` (hostname, subject, validate_cel, validate_regex) | none | normalize a host; compile a policy and dry-run it against a sample subject; evaluate it for a subject; compile a path regex |
| `api/authpolicy` | the `AuthPolicy` type | schema of what an author may write |
| `authroute/policy` | policy table: host to compiled route | compile a document, look a host and path up |
| `authroute/check, session, decision` | stub sessions (immutable) | headers to request, cookie to subject, subject and policy to decision, decision to response |
| `authroute/main, config` | one process: environment, table, listener, checks in flight | load or exit(1), bind, serve, drain on SIGINT |
| `webhook/lib` (run, publish_ca_bundle), `tls` | a certificate per start; the `caBundle` in the cluster | mint, get, replace once, serve |
| `webhook/lib` (handle_validate), `validate` | none of its own; HTTPRoutes in the cluster | review a write: compile every part, then look the target up |
| `xtask` | none | write the manifests |
| `controller` | none yet | builds a client and returns |
| `repl`, `playground` | the REPL's current subject | evaluate policies by hand |

How they interact. Envoy calls `authroute` over HTTP and fails closed
(ADR-0004): a 200 lets the request through, any other answer goes to the
client, and no answer is a refusal. The kubelet restarts processes. Policies
reach `authroute` only through its environment (`AUTHROUTE_POLICY`), once, at
start. The API server calls the webhook over TLS for creates and updates of
`AuthPolicy`, trusts the `caBundle` of the `ValidatingWebhookConfiguration`,
and rejects the write when the call fails (`failurePolicy: Fail`); the webhook
itself calls the API server, to look targets up and to publish its certificate.
Both programs share crate `api`, which is what ADR-0006 rests on: what one
accepts the other can load.

What is hard about it, with the place, is listed under `hazards` in
`PROJECT.json`. In short:

- documents: one bad route among good ones, two spellings of one host, several
  extras that match one path;
- evaluation: a policy validated against one subject is run for others, and
  errors then have to be refusals;
- processes: replicas of different policies answer side by side during a
  rollout, an interrupt or a crash comes while checks are in flight, an answer
  arrives after Envoy gave up, a bad policy makes a crash loop;
- publishing: read, change and replace across two awaits, with administrators,
  other pods, crashes, failed requests, and requests that outlive their
  process;
- admission: an awaited lookup while routes change, a lookup that fails, a
  webhook that ends under a review;
- both sides of the webhook together: several pods, each with a certificate of
  its own, behind one Service and one `caBundle`; a configuration that is not
  there yet, or again; names, ports and paths written down twice, in the
  generator and in the webhook;
- redirects: the URL asked for travels through a query string and has to come
  back as it was.

## 2. The modules

```
Policies ── Checks ── ExtAuthz ── MCExtAuthz, ExtAuthzProofs
                │         └─ implements Gate (abstract)
                ├── Repl ── MCRepl, ReplProofs
                └── ChecksProofs

Manifests ── WebhookServing ── MCWebhookServing, WebhookServingProofs
    ├─────── Admission (and Policies) ── MCAdmission, AdmissionProofs
    └─────── Authoring (and Policies) ── MCAuthoring, AuthoringProofs
                 ├─ INSTANCE WebhookServing, INSTANCE Admission
                 └─ implements Registry (abstract)

LoginUrls ── MCLoginUrls, LoginUrlsProofs        PositionTheorems (lemmas)
```

**Policies** is crate `api` and the table. The CEL and regex engines are
constants: which texts they accept (`ValidExpr`, `ValidRegex`) and what they
answer (`Execute`, `Matches`). Everything AuthRoute does with the answers is
defined: an execution error and a value that is not a bool are errors
(`Evaluate`), a policy compiles if it parses and the dry run yields a bool
(`CompileCelPolicy`), a route compiles extras first and default last
(`CompileRoute`), a later route with the same normalized host replaces an
earlier one (`Insert`), the first matching extra overrides the default
(`Resolve`). The last section says what a document means without a table
(`Governs`, `Selects`, `DocumentSays`); the code is checked and proved against
that.

**Checks** is one check from headers to response. It is pure because the
handler has no await point: it reads the replica's immutable state and answers.
A header value is readable or not (`to_str`), a cookie header is a sequence of
pairs, a URI is a path and a query. `Permits` and `SubjectOf` are the reference.

**ExtAuthz** is the running system: replicas (`phase`, `env`, `next`, `table`),
checks (`envoy`, `request`, `at`, `work`, `under`, `response`), rollouts
(`epoch`). Loading is a step per route (`CompileNext`, `RejectPolicy`), so that
a document that fails half way is really half way. `Bind`, `Interrupt`, `Exit`
are `main` after the table is built; `Crash` stands for panics, SIGKILL, a
failed bind and signals `main` does not handle. `Authz` is the handler. `Boot`
starts a process with the pod's old environment or the deployment's current
one. Envoy (`Arrive`, `Accept`, `Refused`, `Deliver`, `Reset`, `Timeout`) is
external. **Gate** is what all this promises, in terms of requests and
policies only: a request passes only on a policy that is or was in force, a
verdict is given once.

**LoginUrls** is what Checks leaves out of a redirect: `percent_encode` as the
loop it is, a byte a step (`Keep`, `Escape`), around it the host in lower case
(`Lowered`), `original_url` and `login_url`. A portal (external) takes the first `rd` parameter of the query
(`Query`, `ValueOfRd`) and form-decodes it (`Decoded`).

**Repl** is the playground: the subject, the commands that set or reset it, and
the policies typed in between. A line is a policy or a command; a command is
told by whether a blank follows the colon, its word, and what comes after the
next blank, split at commas. What counts as setting a field and what only as a
word alone follows `main`'s two nested matches (`Sets`, `Do`). Its answer is
compared with what `Decide` gives for a document with nothing but that policy.

**Manifests** is the webhook's half of `xtask`'s output (its account, role,
binding, Service and configuration) and the constants and defaults the webhook
goes by. All of it is in the generator's one `NAMESPACE`, and so are the pods;
they may be told (`Injected`, `AUTHROUTE_NAMESPACE`) or assume it.
`MayRead`, `MayReplace`, `Reviewed` and `Reaches` say what the API server makes
of both sides: RBAC; whether the rules, by group, version, resource, scope and
operation, ask for a review of an AuthPolicy as its CRD declares it; the path
from the configuration through the Service to the handler; the name the
certificate has to carry. WebhookServing and Authoring take these as guards, so
a manifest that does not fit shows as pods that never publish, calls that never
arrive or writes nobody reviews.

**WebhookServing** is `run` and `publish_ca_bundle`. A certificate is named by
pod and start. `Get` reads the configuration and sends the replacement in one
step, since no await lies between; the replacement then sits in `puts` until
the API server processes it (`Land`), whatever has become of its sender.
`GetFails`, `PutReturns` and `PutFails` all lead on to `Serve`, as in the code.
`Current` is the conditional replace that follows from sending the object with
the `resourceVersion` it was read with. Administrators install, edit and delete
the configuration; `kubectl apply` of the generated manifest does not mention
`caBundle` and so leaves it. `troubled` is a history variable: this run's
publication met an absent configuration, a failed request or somebody else's
write.

**Admission** is `handle_validate`. A write is submitted, reviewed up to the
await (`Review`), its target looked up (`Lookup`, `LookupFails`), and stored or
rejected by the API server. HTTPRoutes change between any two steps, the webhook
may end under a review, a call may fail. `seen` is a history variable: the
routes that existed at some moment of the write. It assumes the configuration
in place and trusted; how it comes to be is WebhookServing's subject.

**Authoring** composes the two by INSTANCE, over one set of variables. The
steps of the pods, the configuration and the reviews are those of the
components; what the composition adds is the API server's call. With a
configuration whose rules ask for it (`Called`) it dials a pod the Service picks
(`Dial`): a trusted one that can be reached runs the review, any other, or none
(`DialNone`), leaves the call unanswered and the write rejected; without a
configuration the write is stored unreviewed (`Pass`). A review runs at a pod
(`at`) and is lost with it (`Crash`; `main` has no graceful shutdown). `lapsed`
is a history variable: the writes that met a moment without a configuration.
**Registry** is what ADR-0006 asks of all this: while no write under way has
lapsed, a policy is kept only if the request path can load it.

MC modules give the constants small values. The `*Proofs` modules hold the
theorems.

## 3. The runs

Deadlock checking is off everywhere, because the bounded systems really stop:
every check has its verdict, every write its answer, stops and edits are used
up.

| Run | Question | Properties |
|---|---|---|
| `ext_authz` | Are answers those of the whole document and of the caller's own session, for every kind of header map, environment and replica? | `TypeOK`, `AnswerIsPolicy`, `IdentityIsOwn`, `NoLoginLoop`, `ServesWholePolicy`, `UpstreamJustified`, `InductiveInvariant`, `KeepsPromise` |
| `ext_authz_live` | What do interrupts, crashes, timeouts and late answers do to checks; do checks settle, drains end, replicas come back? | `AcceptedHasReplica`, `EveryCheckSettles`, `DrainEnds`, `Available` |
| `login_urls` | Does a user come back to the URL asked for? | `InductiveInvariant`, `ReturnsWhereAsked` |
| `repl` | Does the playground say what the service would decide? | `InductiveInvariant`, `ForecastsService` |
| `webhook` | Does publishing lose edits, bring back old certificates, leave an undisturbed webhook serving one that is not in force, or keep a pod from serving? | `EditsSurvive`, `NoOlderCertificate`, `ServingIsPublished`, `InductiveInvariant`, `ComesToServe` |
| `admission` | What may be stored, and is every write answered? | `StoredCompiles`, `StoredHadTarget`, `InductiveInvariant`, `EveryWriteAnswered` |
| `authoring` | What may pods, their configuration and their reviews together let into the cluster, and keep out; is every write answered, whatever becomes of the pods? | `InductiveInvariant`, `Guards`, `KeptWasReviewed`, `RefusedForAReason`, `EveryWriteAnswered` |

Five more runs find a violation each, of something a comment or document of
the repository says:

- `dry_run_gap`: a policy that compiled may still fail to evaluate. The dry run
  sees the sample subject only; `user != '' || undeclared` short-circuits there
  and is an error for an anonymous subject (ADR-0006: "guaranteed to evaluate at
  request time"). The request is refused, so this is a surprise to an author
  and not a way in.
- `bad_target`: the ext_authz contract (`docs/research/ext-authz-contract.md`,
  section 3) has a 400 for a missing or insecure target. The code has no 400: a
  check over `http`, or of no host, is decided as any other, by the default-deny
  of ADR-0002 D5b, and its client redirected or told 403.
- `webhook_blocked`: the `caBundle` is written once per start. A failed get or
  replace, a conflict, or a configuration installed later leaves the webhook
  serving untrusted until somebody restarts it, where ADR-0008 says writes are
  blocked "briefly" and "the running webhook fills it in".
- `webhook_encoding`: the bundle is published as DER, and Kubernetes documents
  `caBundle` as PEM. With `Readable = {"PEM"}` even an undisturbed webhook is
  never trusted. Run `webhook` has the same API server and shows what holds all
  the same, that the certificate in force is the right one. Runs `authoring` and
  `webhook_blocked` have one that reads what is published: with the other no
  review ever takes place, and every pod is blocked from the start.
- `admission_group`: `targetRef.group` is a free string no code reads, so a
  policy for another API group is stored because a Gateway API route of that
  name exists, where `authpolicy.rs` says an unsupported target is
  unrepresentable.

ADR-0007 ("Known deviation") names the cause of the first: the engine has no
static type checker, and the dry run stands in for it.

The contract asks for more than the code does in other places too, none of which
a model is needed to see: 401 instead of a redirect for XHR and for clients that
do not accept `text/html` (ADR-0004 has the redirect for browsers), 303 for
methods such as POST, and an `rm` parameter with the method. The code answers
every anonymous refusal with 302 and reads the method for its log only. What is
checked of refusals, `NoLoginLoop`, is where the contract, the ADRs and the code
agree: who has a session is not sent to log in, who has none is not told 403,
and a redirect leads back to what was asked.

**Bounds.** `ext_authz` has two replicas, enough for two policies to answer side
by side and for one to drain while the other starts, and six environments in a
row, one of each kind: unset, extras whose order matters, malformed, one bad
route after a good one, one host in two spellings of which the stricter faults
for an anonymous subject, empty. The nine header maps have one of each way to
carry host, session and path: unreadable values, fallbacks, duplicated and bare
cookie pairs, unknown and repeated tokens, no headers. A check does not read
another check's state, so one is enough there; `ext_authz_live` has two at one
replica, for a drain that has to wait for one of them while the other is
refused, and a good environment followed by a bad one. Two pods, two crashes,
two edits and one failed request are enough for a request to outlive its
process, its successor to publish, and an edit to fall between read and
replace. Two writes in two namespaces with one route name are enough for a
target to exist in the wrong namespace and to vanish under a review.
`authoring` has two pods and one write of a policy that loads or one that does
not, and one administrators' write; a second AuthPolicy write does not interact
with the first except through what is stored, which `admission` has. URLs in
`login_urls` have every byte a readable header can hold, and every run of up
to three of those that mean something to a URL or look like an escape.
`MaxStops`, `MaxRuns`, `MaxCrashes`, `MaxEdits`, `MaxFaults` (of publications)
and `MaxErrors` (of reviews) bound what is otherwise unbounded;
`MaxRuns > MaxCrashes` makes sure the bound on starts never keeps a pod down.
The safety theorems below have none of these bounds.

**Fairness.** Weak fairness, only of what keeps going by itself: the kubelet
starts containers; a process that runs takes its next step (tokio has no step
here that waits on another check); Envoy dials, reads an answer and notices a
broken connection; the API server processes what it has received. No fairness
on crashes, interrupts, timeouts, errors, edits or deployments: nothing that is
shown depends on their happening, and in particular checks settle without
Envoy's timeout and writes are answered without the API server's. Authoring
takes the fairness of its components over: that of the pods as it is, that of
reviews for the API server's call, the lookup, and acting on an answer or its
loss.

Each property of a passing run has a mutant in `PROJECT.json`: a definition
changed the way a plausible bug would change it, on which the run fails. The
mutants stand beside the definitions they change, marked as such.

## 4. The proofs

They hold for any number of replicas, checks, pods, writes, policies, stops and
crashes, and for any CEL and regex engine. The assumptions are the named ASSUMEs:
lowercasing is idempotent (`HostAssumption`), what an engine accepts is a text
(`EngineAssumption`), header maps and rollouts have their shape
(`HeaderAssumption`, `SessionAssumption`, `RequestsAssumption`,
`RolloutAssumption`, `SpecsAssumption`, `TextAssumption`, `PieceAssumption`,
`SubjectAssumption`), bounds
are numbers (`BoundsAssumption`, `ComponentsAssumption`). TLC evaluates them in every run.

*The pure part* (ChecksProofs). `InsertReflects`: inserting route n+1 takes a
table that reflects n routes to one that reflects n+1. `TableGoverns`: in such a
table, a host's entry is that of the last route with that host. `ResolveSelects`:
the lookup gives the policy the first matching extra selects. `SessionAgrees`:
the session is that of the first pair with the cookie's name. `AnswerAgrees`
puts them together: the answer is 200 exactly if the document permits the check.
`AnswerFits` says what else it carries, whatever was decided: the identity of
the request's session, or, without one, a way to the portal and back. `DocumentDecides` is about
the reference itself, which is stated as a relation: a document gives a check at
most one verdict, and gives it one exactly if a route names its host. So
"permits" never stands beside "is false" or "faults", and a check no verdict is
given to is one for an unknown host.

*The running system* (ExtAuthzProofs). The invariant is
`TypeOK /\ LoadedSoFar /\ ChecksInOrder /\ AcceptedHasReplica /\ AnswerIsPolicy /\
UpstreamJustified /\ AnswersFit`. `ServesWholePolicy` is not inductive: it says nothing of a
replica that is still loading. `LoadedSoFar` adds that the table reflects
exactly the routes already compiled; `InsertReflects` carries it over
`CompileNext`, and `Bind` turns it into the property. `AcceptedHasReplica` is what
makes the handler's step well typed and what keeps `Exit` from leaving a check
behind. `AnswerIsPolicy` follows at `Authz` from `AnswerAgrees`, and
`UpstreamJustified` at `Deliver` from `AnswerIsPolicy` and from epochs that only
grow. `AnswersFit` adds that Envoy acted on the answer as it stands, since a
check that has a verdict is never worked on again; with `AnswerFits` at `Authz`
it gives `IdentitySound` and `RefusalSound`. `Implements` shows that initial states and steps map to those of Gate.

*Publishing* (WebhookServingProofs). `PutsAreReadings`: a request that may still
be applied carries the version in force, so it read the edit and the
certificate in force; from this `EditsKept` and `CertificatesForward`.
`OnCourse`: a run sends one request, and while nothing disturbs it either that
request is current or its certificate is in force; from this `PublishedSound`.
Nothing is assumed of what the API server can read.

*Admission* (AdmissionProofs). `AdmissionAgrees`: the webhook tries the default
first and the request path last, and both stop at the first error, but they
accept the same policies. `PassedSoFar` (a write past the await has been
validated, one that is admitted has seen its target) then gives
`StoredIsLoadable` and `TargetExisted`.

*Manifests* (WebhookServingProofs). `ManifestsFit`: the role allows what the
webhook asks for, the rules ask for a review of creates and updates of
AuthPolicy, and calls reach the handler under a name its certificate carries,
whether or not the pod is told its namespace.

*Authoring* (AuthoringProofs) is proved from its components. Every step is a
step of the pods or leaves them alone (`Publishes`), so what
WebhookServingProofs proves of pods holds here (`PodsPublished`). For the reviews
the invariant is `TypeOK /\ PassedOrLapsed`: a write that may be stored has
passed validation and seen its target, or has lapsed. Two things depend on more than one component: a pod that serves
goes on serving through every step but its own end (`PublishStep`), and a write
can only get past a missing configuration by being marked (`AlwaysCalled`: the
generated rules name every operation a write can be). `GuardsSound`, the
refinement of Registry, follows with `AdmissionAgrees`; Registry speaks of all
writes at once, `KeptSound` of each: one write that met no configuration does
not weaken what holds for the others, and their targets were there too.
`StoredLoad` draws Registry's conclusion for what is stored: from any moment at
which all of it can be loaded, it stays so while every write is guarded.
`RefusedSound` follows from `PodsPublished` and `CallsReach`: the pod that is
dialled was disturbed, or its certificate is in force, and then only its
encoding can be in the way. With DER published and PEM read it is, always; the
theorem says that then nothing else is.

*Login URLs* (LoginUrlsProofs). `Invariance`: what is written encodes what has
been read, byte for byte. `EncodingsApart`: two URLs with one encoding are the
same. At the first byte at which they would differ both encodings have
come equally far, and no byte is written as the beginning of what another one
is (`PercentByteApart`); nor can one URL go on where the other ends. Together:
for URLs of any length the portal is told exactly one.

That the portal finds it is `ReturnSound`, in three parts. `Decoded` is a
function that recurs along the text, which TLAPS takes for "some function that
satisfies the equation"; `DecodedUnfolds` shows that there is one: of the
positions from which such a function exists the first (`LeastPosition`) can only
be 1, since decoding at a position depends on later ones alone.
`DecoderInverts` then goes along `cut` in the same way, which stands in for an
induction over the text: where byte k begins, decoding yields byte k and goes on
where byte k+1 begins (`DecodesByte`), so the first byte from which on all is
decoded as it was is the first. `QueryOfLoginUrl` and `ReturnAddressOf` find the parameter: the portal's
URL has no "?" or "#" (`TextAssumption`), what is written has neither "#" nor
"&" (`NoneWritten`), so the query is "rd=" and the encoding, to its end.
`LocationVisible` is what Checks relies on when it lets the portal's URL alone
decide whether a redirect gets its Location header.

*Playground* (ReplProofs). `Invariance`: commands and policies never come in one
step, and a command takes the answer away, so the answer shown is for the
subject as it is. `ForecastSound` compiles the one-route document of the typed
policy (`DocumentCompiles`), finds the policy in its table (`DocumentResolves`)
and compares the decision. It needs that Rust's `None` is no subject
(`SubjectAssumption`).

Only model-checked: all liveness, which is out of this prover's reach.

## 5. What is not modelled

- The engines themselves, the wording of messages and logs, the request method
  (it is only logged).
- The controller (it does nothing yet; that a route has one policy, ADR-0002,
  is for it to see to), Redis sessions and the OIDC portal
  (decided in ADRs, not implemented).
- `xtask`, beyond the webhook's manifests: the controller's RBAC and the CRD
  schema, which nothing in the code reads yet, and the writing of the files,
  one after another by a developer's tool that ends at the first error and is
  run again.
- The Deployment, which is not generated: it is taken to put the pods into
  `NAMESPACE`, under the label the Service selects and the account it binds. That
  a chart may template another namespace into the manifests is left out with it.
- The status types of the CRD, which nothing fills in yet.
- Reviews the generated rules never ask for: deletes, and writes without an
  object; and the answer to a malformed `AdmissionReview`, which an API server
  does not send.
- A non-Unicode `AUTHROUTE_POLICY`, which the code treats as unset.
- The delay with which the API server sees changes of its own webhook
  configuration.

## 6. Plan

Done: all modules of section 2 with the proofs of section 4; every safety
invariant and every action property a passing run checks is a theorem. Left to
do:

1. Fewer assumptions on what is constant: `HostAssumption` (lowercasing is
   idempotent) from ASCII lowercasing byte by byte, as LoginUrls does for
   percent-encoding.
2. The proofs of AuthoringProofs repeat, by name, that instances of one module
   speak of the same things (`SamePodStep`, `SameManifests`); with the
   components' modules parameterised alike they could go.
3. The controller, once it reconciles: its table against what Registry keeps.
