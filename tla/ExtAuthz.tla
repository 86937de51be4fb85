------------------------------ MODULE ExtAuthz ------------------------------
(***************************************************************************)
(* Envoy's ext_authz hook and the AuthRoute replicas behind it             *)
(* (authroute/src/main.rs): replicas start, compile their AUTHROUTE_POLICY,*)
(* serve, drain and die while checks are in flight and the policy is       *)
(* rolled out again.  Envoy and the kubelet are external; Envoy fails      *)
(* closed (ADR-0004).                                                      *)
(***************************************************************************)
EXTENDS Checks

CONSTANTS
    Replica,    \* AuthRoute processes
    Query,      \* requests Envoy holds, each checked once
    Requests,   \* the header maps a check can carry
    Rollout,    \* the successive AUTHROUTE_POLICY values of the deployment
    MaxStops    \* bound on crashes, interrupts and failed binds

\* A value of AUTHROUTE_POLICY; routes is empty unless it is a document.
PolicyEnv == [value : {"unset", "empty", "malformed", "document"}, routes : Seq(Route)]

ASSUME RolloutAssumption ==
    /\ Rollout \in Seq(PolicyEnv) /\ Rollout # <<>>
    /\ \A e \in DOMAIN Rollout :
          Rollout[e].value # "document" => Rollout[e].routes = <<>>
    /\ MaxStops \in Nat

ASSUME RequestsAssumption == \A headers \in Requests : IsHeaderMap(headers)

VARIABLES
    epoch,      \* the deployment's policy is Rollout[epoch]
    phase,      \* what each replica is doing
    env,        \* the environment each replica was started with
    next,       \* the route each replica compiles next
    table,      \* AppState::table of each replica, or the part compiled so far
    envoy,      \* Envoy's side of each check
    request,    \* the headers each check carries
    at,         \* the replica that accepted it
    work,       \* the replica's side of it
    under,      \* the environment it was decided under
    response,   \* the answer
    stops       \* stops so far

replicas == <<phase, env, next, table>>
checks == <<envoy, request, at, work, under, response>>
vars == <<epoch, replicas, checks, stops>>

Phases == {"down", "loading", "serving", "draining"}
Settled == {"upstream", "relayed", "failed"}

Routes(e) == Rollout[e].routes

NoResponse == Response(0, <<>>, None)

Init ==
    /\ epoch = 1
    /\ phase = [r \in Replica |-> "down"]
    /\ env = [r \in Replica |-> 1]
    /\ next = [r \in Replica |-> 1]
    /\ table = [r \in Replica |-> EmptyTable]
    /\ envoy = [q \in Query |-> "idle"]
    /\ request = [q \in Query |-> None]
    /\ at = [q \in Query |-> None]
    /\ work = [q \in Query |-> "none"]
    /\ under = [q \in Query |-> 0]
    /\ response = [q \in Query |-> NoResponse]
    /\ stops = 0

-----------------------------------------------------------------------------
(* The life of a replica.                                                  *)

\* The deployment gets the next AUTHROUTE_POLICY.
Redeploy ==
    /\ epoch < Len(Rollout)
    /\ epoch' = epoch + 1
    /\ UNCHANGED <<replicas, checks, stops>>

\* A container restarts in its pod, or a pod of the current template starts.
Boot(r) ==
    /\ phase[r] = "down"
    /\ \E e \in {env[r], epoch} : env' = [env EXCEPT ![r] = e]
    /\ phase' = [phase EXCEPT ![r] = "loading"]
    /\ UNCHANGED <<epoch, next, table, checks, stops>>

\* Memory is gone; the environment stays with the pod.
Down(r) ==
    /\ phase' = [phase EXCEPT ![r] = "down"]
    /\ next' = [next EXCEPT ![r] = 1]
    /\ table' = [table EXCEPT ![r] = EmptyTable]
    /\ UNCHANGED env

\* Mutant: a route that does not compile is skipped.
CompileNextSkipping(r) ==
    /\ phase[r] = "loading"
    /\ next[r] <= Len(Routes(env[r]))
    /\ table' = IF CompileRoute(Routes(env[r])[next[r]]) = "ok"
                THEN [table EXCEPT ![r] = Insert(@, Routes(env[r])[next[r]])] ELSE table
    /\ next' = [next EXCEPT ![r] = @ + 1]
    /\ UNCHANGED <<epoch, phase, env, checks, stops>>

\* Mutant: the last route is never reached.
CompileNextOffByOne(r) ==
    /\ phase[r] = "loading"
    /\ next[r] < Len(Routes(env[r]))
    /\ CompileRoute(Routes(env[r])[next[r]]) = "ok"
    /\ table' = [table EXCEPT ![r] = Insert(@, Routes(env[r])[next[r]])]
    /\ next' = [next EXCEPT ![r] = @ + 1]
    /\ UNCHANGED <<epoch, phase, env, checks, stops>>

\* One route compiled and inserted.
CompileNext(r) ==
    /\ phase[r] = "loading"
    /\ next[r] <= Len(Routes(env[r]))
    /\ CompileRoute(Routes(env[r])[next[r]]) = "ok"
    /\ table' = [table EXCEPT ![r] = Insert(@, Routes(env[r])[next[r]])]
    /\ next' = [next EXCEPT ![r] = @ + 1]
    /\ UNCHANGED <<epoch, phase, env, checks, stops>>

\* The YAML does not parse, or a route does not compile: exit(1).
RejectPolicy(r) ==
    /\ phase[r] = "loading"
    /\ \/ Rollout[env[r]].value = "malformed"
       \/ /\ next[r] <= Len(Routes(env[r]))
          /\ CompileRoute(Routes(env[r])[next[r]]) # "ok"
    /\ Down(r)
    /\ UNCHANGED <<epoch, checks, stops>>

\* Every route compiled, or AUTHROUTE_POLICY unset or empty: bind and serve.
Bind(r) ==
    /\ phase[r] = "loading"
    /\ Rollout[env[r]].value # "malformed"
    /\ next[r] > Len(Routes(env[r]))
    /\ phase' = [phase EXCEPT ![r] = "serving"]
    /\ UNCHANGED <<epoch, env, next, table, checks, stops>>

\* SIGINT: stop accepting, finish what was accepted.
Interrupt(r) ==
    /\ phase[r] = "serving"
    /\ stops < MaxStops
    /\ phase' = [phase EXCEPT ![r] = "draining"]
    /\ stops' = stops + 1
    /\ UNCHANGED <<epoch, env, next, table, checks>>

\* Mutant: the listener closes and the process ends.
ExitAtOnce(r) ==
    /\ phase[r] = "draining"
    /\ Down(r)
    /\ UNCHANGED <<epoch, checks, stops>>

\* Mutant: a connection whose answer was written still counts as open.
ExitWhenForgotten(r) ==
    /\ phase[r] = "draining"
    /\ \A q \in Query : ~(work[q] \in {"accepted", "answered"} /\ at[q] = r)
    /\ Down(r)
    /\ UNCHANGED <<epoch, checks, stops>>

\* Graceful shutdown ends when no accepted check is left.
Exit(r) ==
    /\ phase[r] = "draining"
    /\ \A q \in Query : ~(work[q] = "accepted" /\ at[q] = r)
    /\ Down(r)
    /\ UNCHANGED <<epoch, checks, stops>>

\* A panic (a failed bind included), SIGKILL or an unhandled signal.  Accepted
\* checks are lost; an answer already written may or may not get out.
Crash(r) ==
    /\ phase[r] # "down"
    /\ stops < MaxStops
    /\ \E unsent \in SUBSET {q \in Query : at[q] = r /\ work[q] = "answered"} :
          work' = [q \in Query |->
              IF q \in unsent \/ (at[q] = r /\ work[q] = "accepted")
              THEN "lost" ELSE work[q]]
    /\ Down(r)
    /\ stops' = stops + 1
    /\ UNCHANGED <<epoch, envoy, request, at, under, response>>

-----------------------------------------------------------------------------
(* The life of a check.                                                    *)

Arrive(q) ==
    /\ envoy[q] = "idle"
    /\ envoy' = [envoy EXCEPT ![q] = "calling"]
    /\ \E headers \in Requests : request' = [request EXCEPT ![q] = headers]
    /\ UNCHANGED <<epoch, replicas, at, work, under, response, stops>>

\* Envoy's connection is accepted by a replica that serves ...
Accept(q, r) ==
    /\ envoy[q] = "calling" /\ work[q] = "none"
    /\ phase[r] = "serving"
    /\ work' = [work EXCEPT ![q] = "accepted"]
    /\ at' = [at EXCEPT ![q] = r]
    /\ UNCHANGED <<epoch, replicas, envoy, request, under, response, stops>>

\* ... or refused by one that does not: the request fails closed.
Refused(q, r) ==
    /\ envoy[q] = "calling" /\ work[q] = "none"
    /\ phase[r] # "serving"
    /\ envoy' = [envoy EXCEPT ![q] = "failed"]
    /\ UNCHANGED <<epoch, replicas, request, at, work, under, response, stops>>

\* Mutant: a draining replica stops working.
AuthzServingOnly(q) ==
    /\ work[q] = "accepted" /\ phase[at[q]] = "serving"
    /\ work' = [work EXCEPT ![q] = "answered"]
    /\ under' = [under EXCEPT ![q] = env[at[q]]]
    /\ response' = [response EXCEPT ![q] = AuthzResponse(table[at[q]], request[q])]
    /\ UNCHANGED <<epoch, replicas, envoy, request, at, stops>>

\* The handler, in one step: it reads only the replica's own state.
Authz(q) ==
    /\ work[q] = "accepted"
    /\ work' = [work EXCEPT ![q] = "answered"]
    /\ under' = [under EXCEPT ![q] = env[at[q]]]
    /\ response' = [response EXCEPT ![q] = AuthzResponse(table[at[q]], request[q])]
    /\ UNCHANGED <<epoch, replicas, envoy, request, at, stops>>

\* 200 lets the request through; any other answer goes to the client.
Deliver(q) ==
    /\ envoy[q] = "calling" /\ work[q] = "answered"
    /\ envoy' = [envoy EXCEPT ![q] =
           IF response[q].status = 200 THEN "upstream" ELSE "relayed"]
    /\ UNCHANGED <<epoch, replicas, request, at, work, under, response, stops>>

\* The connection breaks, or Envoy's timeout runs out: fail closed.
Reset(q) ==
    /\ envoy[q] = "calling" /\ work[q] = "lost"
    /\ envoy' = [envoy EXCEPT ![q] = "failed"]
    /\ UNCHANGED <<epoch, replicas, request, at, work, under, response, stops>>

Timeout(q) ==
    /\ envoy[q] = "calling"
    /\ envoy' = [envoy EXCEPT ![q] = "failed"]
    /\ UNCHANGED <<epoch, replicas, request, at, work, under, response, stops>>

Dispatch(q) == \E r \in Replica : Accept(q, r) \/ Refused(q, r)

ReplicaStep(r) ==
    \/ Boot(r) \/ CompileNext(r) \/ RejectPolicy(r) \/ Bind(r)
    \/ Interrupt(r) \/ Exit(r) \/ Crash(r)

CheckStep(q) ==
    \/ Arrive(q) \/ Dispatch(q) \/ Authz(q) \/ Deliver(q) \/ Reset(q) \/ Timeout(q)

Next ==
    \/ Redeploy
    \/ \E r \in Replica : ReplicaStep(r)
    \/ \E q \in Query : CheckStep(q)

Spec == Init /\ [][Next]_vars

\* The kubelet restarts containers and the process runs; Envoy dials, reads
\* answers and notices broken connections.  Nothing has to stop or time out.
Fairness ==
    /\ \A r \in Replica : /\ WF_vars(Boot(r))
                         /\ WF_vars(CompileNext(r) \/ RejectPolicy(r) \/ Bind(r))
                         /\ WF_vars(Exit(r))
    /\ \A q \in Query : /\ WF_vars(Authz(q))
                       /\ WF_vars(Dispatch(q) \/ Deliver(q) \/ Reset(q))

FairSpec == Spec /\ Fairness

-----------------------------------------------------------------------------
(* Safety.                                                                 *)

\* The type invariant.
TypeOK ==
    /\ epoch \in 1..Len(Rollout)
    /\ phase \in [Replica -> Phases]
    /\ env \in [Replica -> 1..epoch]
    /\ next \in [Replica -> Nat \ {0}]
    /\ DOMAIN table = Replica /\ \A r \in Replica : IsTable(table[r])
    /\ envoy \in [Query -> {"idle", "calling"} \cup Settled]
    /\ request \in [Query -> Requests \cup {None}]
    /\ at \in [Query -> Replica \cup {None}]
    /\ work \in [Query -> {"none", "accepted", "answered", "lost"}]
    /\ under \in [Query -> 0..epoch]
    /\ DOMAIN response = Query
    /\ stops \in 0..MaxStops

\* A replica that serves, or still drains, holds every route of its own
\* environment's document, the last of a host winning; it got there only
\* because every one of them compiled (main.rs, "fail closed loudly").
ServesWholePolicy ==
    \A r \in Replica : phase[r] \in {"serving", "draining"} =>
        /\ Rollout[env[r]].value # "malformed"
        /\ \A i \in DOMAIN Routes(env[r]) : CompileRoute(Routes(env[r])[i]) = "ok"
        /\ TableReflects(table[r], Routes(env[r]), Len(Routes(env[r])))

\* An answer is 200 exactly when the document its replica was started with
\* permits the request: an unknown host, a policy that is false and one that
\* fails to evaluate are all refusals, and nothing else is.
AnswerIsPolicy ==
    \A q \in Query : work[q] = "answered" =>
        (response[q].status = 200 <=> Permits(Routes(under[q]), request[q]))

\* A request that went upstream was permitted by a policy that had been
\* rolled out, whichever replica answered and whatever happened since.
UpstreamJustified ==
    \A q \in Query : envoy[q] = "upstream" =>
        \E e \in 1..epoch : Permits(Routes(e), request[q])

\* The identity headers of an answer are those of the session, if any.
OwnIdentity(headers, answer) ==
    LET subject == SubjectOf(headers) IN
    IF subject = None THEN answer.remote = <<>>
    ELSE /\ DOMAIN answer.remote =
              {h \in DOMAIN Identity(subject) : HeaderContent(Identity(subject)[h])}
         /\ \A h \in DOMAIN answer.remote : answer.remote[h] = Identity(subject)[h]

\* A session is never sent to the portal, nobody else is told to be forbidden,
\* and whoever is sent there returns to the URL asked for.
FittingRefusal(headers, answer) ==
    IF SubjectOf(headers) # None
    THEN answer.location = None
    ELSE /\ answer.status # 403
         /\ answer.location # None =>
              answer.location.rd = OriginalUrl(FromHeaders(headers))

\* Identity headers are those of the session the request itself carries, and
\* an anonymous request gets none (ADR-0003).
IdentityIsOwn ==
    \A q \in Query : envoy[q] = "upstream" => OwnIdentity(request[q], response[q])

\* Logging in helps whoever is sent to do it: a session that is refused is not
\* sent round by the portal for ever, an anonymous user is not locked out of it,
\* and a login leads to the very request that was refused (ADR-0004).
NoLoginLoop ==
    \A q \in Query : envoy[q] = "relayed" => FittingRefusal(request[q], response[q])

\* An accepted check has a replica working on it: a graceful shutdown never
\* ends under it, and a crash marks it lost.
AcceptedHasReplica ==
    \A q \in Query : work[q] = "accepted" =>
        at[q] \in Replica /\ phase[at[q]] \in {"serving", "draining"}

\* A policy that compiled evaluates to a bool for whoever asks
\* (validate_cel.rs:26, ADR-0006 "guaranteed to evaluate at request time").
CompiledPolicyEvaluates ==
    \A q \in Query : work[q] = "answered" =>
        /\ ~Says(Routes(under[q]), request[q], "Evaluate")
        /\ ~Says(Routes(under[q]), request[q], "NotBoolean")

\* A target that is insecure or missing.
BadTarget(headers) ==
    LET req == FromHeaders(headers) IN req.proto # "https" \/ req.host = Hostname("")

\* A bad target is answered as one
\* (research/ext-authz-contract.md:66, "Bad request (missing/insecure target)").
BadTargetRejected ==
    \A q \in Query :
        work[q] = "answered" /\ BadTarget(request[q]) => response[q].status = 400

\* What every step relies on.  A replica's table reflects exactly the routes it
\* has been through, all of which compiled, and it serves after the last.
LoadedAt(r) ==
    LET routes == Routes(env[r]) IN
    /\ next[r] \in 1..(Len(routes) + 1)
    /\ \A i \in 1..(next[r] - 1) : CompileRoute(routes[i]) = "ok"
    /\ TableReflects(table[r], routes, next[r] - 1)
    /\ phase[r] = "down" => next[r] = 1 /\ table[r] = EmptyTable
    /\ phase[r] \in {"serving", "draining"} =>
          next[r] = Len(routes) + 1 /\ Rollout[env[r]].value # "malformed"

LoadedSoFar == \A r \in Replica : LoadedAt(r)

\* A replica works only on what Envoy sent, and answers under an environment.
ChecksInOrder ==
    \A q \in Query :
        /\ envoy[q] = "idle" => work[q] = "none"
        /\ envoy[q] # "idle" => request[q] \in Requests
        /\ work[q] = "answered" => under[q] # 0

\* An answer fits its request, and Envoy acted on it as it stands.
AnswersFit ==
    \A q \in Query :
        /\ work[q] = "answered" \/ envoy[q] \in {"upstream", "relayed"} =>
              IF response[q].status = 200
              THEN OwnIdentity(request[q], response[q])
              ELSE FittingRefusal(request[q], response[q])
        /\ envoy[q] \in {"upstream", "relayed"} =>
              /\ work[q] \in {"answered", "lost"}
              /\ envoy[q] = "upstream" <=> response[q].status = 200

\* Types, loading, order and the safety properties together: every step keeps
\* them, none of the latter alone.
InductiveInvariant ==
    /\ TypeOK /\ LoadedSoFar /\ ChecksInOrder
    /\ AcceptedHasReplica /\ AnswerIsPolicy /\ UpstreamJustified /\ AnswersFit

(* Liveness.                                                               *)

\* Every request gets a verdict, without relying on Envoy's timeout.
EveryCheckSettles ==
    \A q \in Query : envoy[q] = "calling" ~> envoy[q] \in Settled

\* A graceful shutdown ends.
DrainEnds == \A r \in Replica : phase[r] = "draining" ~> phase[r] = "down"

Compiles(e) ==
    /\ Rollout[e].value # "malformed"
    /\ \A i \in DOMAIN Routes(e) : CompileRoute(Routes(e)[i]) = "ok"

\* When the stops are over, a replica serves, unless the policy it was started
\* with does not compile.
Available ==
    \A r \in Replica : <>[](phase[r] = "serving" \/ ~Compiles(env[r]))

-----------------------------------------------------------------------------
(* What it all implements.                                                 *)

Verdict(q) ==
    CASE envoy[q] = "idle" -> "none"
      [] envoy[q] = "calling" -> "pending"
      [] envoy[q] = "upstream" -> "upstream"
      [] envoy[q] \in {"relayed", "failed"} -> "refused"

Promise == INSTANCE Gate WITH
    Ask <- Requests,
    Policies <- Len(Rollout),
    Permitted <- {pair \in (1..Len(Rollout)) \X Requests :
                     Permits(Routes(pair[1]), pair[2])},
    Nothing <- None,
    inForce <- 1..epoch,
    asked <- request,
    verdict <- [q \in Query |-> Verdict(q)]

\* The replicas, the rollouts and Envoy together keep Gate's promise: a
\* request goes upstream only on a policy that has been rolled out, and its
\* verdict is given once.
KeepsPromise == Promise!Spec
=============================================================================
