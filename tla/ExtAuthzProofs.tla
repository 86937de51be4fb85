--------------------------- MODULE ExtAuthzProofs ---------------------------
(***************************************************************************)
(* Proofs about ExtAuthz, for every set of replicas, requests, rollouts    *)
(* and engine answers.  InductiveInvariant is shown inductive conjunct by  *)
(* conjunct; the theorems at the end are its consequences.                 *)
(***************************************************************************)
EXTENDS ExtAuthz, ChecksProofs

-----------------------------------------------------------------------------
(* Types of what is stored.                                                *)

\* A rollout's routes are routes.
LEMMA RoutesType ==
    ASSUME NEW e \in 1..Len(Rollout)
    PROVE  Routes(e) \in Seq(Route)
  <1>1. Rollout[e] \in PolicyEnv
    BY RolloutAssumption
  <1> QED
    BY <1>1 DEF Routes, PolicyEnv

\* A replica's environment is one of the rollouts.
LEMMA EnvType ==
    ASSUME TypeOK, NEW r \in Replica
    PROVE  /\ env[r] \in 1..Len(Rollout)
           /\ Routes(env[r]) \in Seq(Route)
           /\ Len(Routes(env[r])) \in Nat
           /\ DOMAIN Routes(env[r]) = 1..Len(Routes(env[r]))
  <1>1. env[r] \in 1..Len(Rollout)
    BY RolloutAssumption DEF TypeOK
  <1>2. Routes(env[r]) \in Seq(Route)
    BY <1>1, RoutesType
  <1> QED
    BY <1>1, <1>2

\* Inserting a route keeps a table a table.
LEMMA InsertType ==
    ASSUME NEW t, IsTable(t), NEW route \in Route
    PROVE  IsTable(Insert(t, route))
  <1> DEFINE h == Hostname(route.host)
             c == [default |-> route.defaultPolicy, extra |-> route.extraPolicy]
  <1>1. c \in CompiledRoute
    BY DEF CompiledRoute, Route
  <1>2. DOMAIN Insert(t, route) = DOMAIN t \cup {h}
    BY DEF Insert
  <1>3. DOMAIN Insert(t, route) \subseteq {Hostname(x) : x \in RawHost}
    BY <1>2 DEF IsTable, Route
  <1>4. Insert(t, route) \in [DOMAIN t \cup {h} -> CompiledRoute]
    BY <1>1 DEF Insert, IsTable
  <1> QED
    BY <1>2, <1>3, <1>4 DEF IsTable

\* The empty table is a table.
LEMMA EmptyTableType == IsTable(EmptyTable)
  <1>1. DOMAIN EmptyTable = {}
    BY DEF EmptyTable
  <1>2. EmptyTable = [h \in {} |-> EmptyTable[h]]
    BY DEF EmptyTable
  <1>3. EmptyTable \in [{} -> CompiledRoute]
    BY <1>2
  <1> QED
    BY <1>1, <1>3 DEF IsTable

-----------------------------------------------------------------------------
(* Each conjunct is kept by every step.                                    *)

\* Types, given that an accepted check is at a replica.
LEMMA TypeStep ==
    ASSUME TypeOK, AcceptedHasReplica, [Next]_vars
    PROVE  TypeOK'
  <1> USE RolloutAssumption DEF TypeOK, replicas, checks
  <1>1. CASE Redeploy
    BY <1>1 DEF Redeploy
  <1>2. ASSUME NEW r \in Replica, Boot(r) PROVE TypeOK'
    BY <1>2 DEF Boot, Phases
  <1>3. ASSUME NEW r \in Replica, CompileNext(r) PROVE TypeOK'
    <2>1. Routes(env[r])[next[r]] \in Route
      BY <1>3, EnvType DEF CompileNext
    <2>2. IsTable(Insert(table[r], Routes(env[r])[next[r]]))
      BY <2>1, InsertType
    <2>3. DOMAIN table' = Replica /\ \A s \in Replica : IsTable(table[s])'
      BY <1>3, <2>2 DEF CompileNext
    <2> QED
      BY <1>3, <2>3 DEF CompileNext
  <1>4. ASSUME NEW r \in Replica, RejectPolicy(r) PROVE TypeOK'
    BY <1>4, EmptyTableType DEF RejectPolicy, Down, Phases
  <1>5. ASSUME NEW r \in Replica, Bind(r) PROVE TypeOK'
    BY <1>5 DEF Bind, Phases
  <1>6. ASSUME NEW r \in Replica, Interrupt(r) PROVE TypeOK'
    BY <1>6 DEF Interrupt, Phases
  <1>7. ASSUME NEW r \in Replica, Exit(r) PROVE TypeOK'
    BY <1>7, EmptyTableType DEF Exit, Down, Phases
  <1>8. ASSUME NEW r \in Replica, Crash(r) PROVE TypeOK'
    BY <1>8, EmptyTableType DEF Crash, Down, Phases
  <1>9. ASSUME NEW q \in Query, Arrive(q) PROVE TypeOK'
    BY <1>9 DEF Arrive
  <1>10. ASSUME NEW q \in Query, NEW r \in Replica, Accept(q, r) PROVE TypeOK'
    BY <1>10 DEF Accept
  <1>11. ASSUME NEW q \in Query, NEW r \in Replica, Refused(q, r) PROVE TypeOK'
    BY <1>11 DEF Refused, Settled
  <1>12. ASSUME NEW q \in Query, Authz(q) PROVE TypeOK'
    BY <1>12 DEF Authz, AcceptedHasReplica
  <1>13. ASSUME NEW q \in Query, Deliver(q) PROVE TypeOK'
    BY <1>13 DEF Deliver, Settled
  <1>14. ASSUME NEW q \in Query, Reset(q) PROVE TypeOK'
    BY <1>14 DEF Reset, Settled
  <1>15. ASSUME NEW q \in Query, Timeout(q) PROVE TypeOK'
    BY <1>15 DEF Timeout, Settled
  <1>16. CASE UNCHANGED vars
    BY <1>16 DEF vars
  <1> QED
    BY <1>1, <1>2, <1>3, <1>4, <1>5, <1>6, <1>7, <1>8, <1>9,
       <1>10, <1>11, <1>12, <1>13, <1>14, <1>15, <1>16
    DEF Next, ReplicaStep, CheckStep, Dispatch

\* An accepted check keeps its replica.
LEMMA AcceptedStep ==
    ASSUME TypeOK, AcceptedHasReplica, [Next]_vars
    PROVE  AcceptedHasReplica'
  <1> USE DEF TypeOK, AcceptedHasReplica, replicas, checks
  <1>1. CASE Redeploy
    BY <1>1 DEF Redeploy
  <1>2. ASSUME NEW r \in Replica, Boot(r) PROVE AcceptedHasReplica'
    BY <1>2 DEF Boot
  <1>3. ASSUME NEW r \in Replica, CompileNext(r) PROVE AcceptedHasReplica'
    BY <1>3 DEF CompileNext
  <1>4. ASSUME NEW r \in Replica, RejectPolicy(r) PROVE AcceptedHasReplica'
    BY <1>4 DEF RejectPolicy, Down
  <1>5. ASSUME NEW r \in Replica, Bind(r) PROVE AcceptedHasReplica'
    BY <1>5 DEF Bind
  <1>6. ASSUME NEW r \in Replica, Interrupt(r) PROVE AcceptedHasReplica'
    BY <1>6 DEF Interrupt
  <1>7. ASSUME NEW r \in Replica, Exit(r) PROVE AcceptedHasReplica'
    BY <1>7 DEF Exit, Down
  <1>8. ASSUME NEW r \in Replica, Crash(r) PROVE AcceptedHasReplica'
    BY <1>8 DEF Crash, Down
  <1>9. ASSUME NEW q \in Query, Arrive(q) PROVE AcceptedHasReplica'
    BY <1>9 DEF Arrive
  <1>10. ASSUME NEW q \in Query, NEW r \in Replica, Accept(q, r) PROVE AcceptedHasReplica'
    BY <1>10 DEF Accept
  <1>11. ASSUME NEW q \in Query, NEW r \in Replica, Refused(q, r) PROVE AcceptedHasReplica'
    BY <1>11 DEF Refused
  <1>12. ASSUME NEW q \in Query, Authz(q) PROVE AcceptedHasReplica'
    BY <1>12 DEF Authz
  <1>13. ASSUME NEW q \in Query, Deliver(q) PROVE AcceptedHasReplica'
    BY <1>13 DEF Deliver
  <1>14. ASSUME NEW q \in Query, Reset(q) PROVE AcceptedHasReplica'
    BY <1>14 DEF Reset
  <1>15. ASSUME NEW q \in Query, Timeout(q) PROVE AcceptedHasReplica'
    BY <1>15 DEF Timeout
  <1>16. CASE UNCHANGED vars
    BY <1>16 DEF vars
  <1> QED
    BY <1>1, <1>2, <1>3, <1>4, <1>5, <1>6, <1>7, <1>8, <1>9,
       <1>10, <1>11, <1>12, <1>13, <1>14, <1>15, <1>16
    DEF Next, ReplicaStep, CheckStep, Dispatch

\* Checks are worked on in order.
LEMMA OrderStep ==
    ASSUME TypeOK, AcceptedHasReplica, ChecksInOrder, [Next]_vars
    PROVE  ChecksInOrder'
  <1> USE RolloutAssumption DEF TypeOK, ChecksInOrder, AcceptedHasReplica, replicas, checks
  <1>1. CASE Redeploy
    BY <1>1 DEF Redeploy
  <1>2. ASSUME NEW r \in Replica, Boot(r) PROVE ChecksInOrder'
    BY <1>2 DEF Boot
  <1>3. ASSUME NEW r \in Replica, CompileNext(r) PROVE ChecksInOrder'
    BY <1>3 DEF CompileNext
  <1>4. ASSUME NEW r \in Replica, RejectPolicy(r) PROVE ChecksInOrder'
    BY <1>4 DEF RejectPolicy, Down
  <1>5. ASSUME NEW r \in Replica, Bind(r) PROVE ChecksInOrder'
    BY <1>5 DEF Bind
  <1>6. ASSUME NEW r \in Replica, Interrupt(r) PROVE ChecksInOrder'
    BY <1>6 DEF Interrupt
  <1>7. ASSUME NEW r \in Replica, Exit(r) PROVE ChecksInOrder'
    BY <1>7 DEF Exit, Down
  <1>8. ASSUME NEW r \in Replica, Crash(r) PROVE ChecksInOrder'
    BY <1>8 DEF Crash, Down
  <1>9. ASSUME NEW q \in Query, Arrive(q) PROVE ChecksInOrder'
    BY <1>9 DEF Arrive
  <1>10. ASSUME NEW q \in Query, NEW r \in Replica, Accept(q, r) PROVE ChecksInOrder'
    BY <1>10 DEF Accept
  <1>11. ASSUME NEW q \in Query, NEW r \in Replica, Refused(q, r) PROVE ChecksInOrder'
    BY <1>11 DEF Refused, Settled
  <1>12. ASSUME NEW q \in Query, Authz(q) PROVE ChecksInOrder'
    BY <1>12 DEF Authz
  <1>13. ASSUME NEW q \in Query, Deliver(q) PROVE ChecksInOrder'
    BY <1>13 DEF Deliver, Settled
  <1>14. ASSUME NEW q \in Query, Reset(q) PROVE ChecksInOrder'
    BY <1>14 DEF Reset, Settled
  <1>15. ASSUME NEW q \in Query, Timeout(q) PROVE ChecksInOrder'
    BY <1>15 DEF Timeout, Settled
  <1>16. CASE UNCHANGED vars
    BY <1>16 DEF vars
  <1> QED
    BY <1>1, <1>2, <1>3, <1>4, <1>5, <1>6, <1>7, <1>8, <1>9,
       <1>10, <1>11, <1>12, <1>13, <1>14, <1>15, <1>16
    DEF Next, ReplicaStep, CheckStep, Dispatch

\* A replica a step does not touch stays loaded as it was.
LEMMA LoadedFrame ==
    ASSUME NEW s, LoadedAt(s),
           phase'[s] = phase[s], env'[s] = env[s], next'[s] = next[s], table'[s] = table[s]
    PROVE  LoadedAt(s)'
  BY DEF LoadedAt, Routes

\* A replica that is down is loaded up to nothing.
LEMMA LoadedDown ==
    ASSUME TypeOK, NEW r \in Replica, LoadedAt(r), Down(r)
    PROVE  LoadedAt(r)'
  <1>1. next'[r] = 1 /\ table'[r] = EmptyTable /\ env'[r] = env[r] /\ phase'[r] = "down"
    BY DEF Down, TypeOK
  <1>2. 1 \in 1..(Len(Routes(env[r])) + 1)
    BY EnvType
  <1> QED
    BY <1>1, <1>2, EmptyReflects DEF LoadedAt, Routes

\* A table reflects the routes compiled so far, and serves them all.
LEMMA LoadedStep ==
    ASSUME TypeOK, LoadedSoFar, [Next]_vars, TypeOK'
    PROVE  LoadedSoFar'
  <1> SUFFICES ASSUME NEW s \in Replica PROVE LoadedAt(s)'
    BY DEF LoadedSoFar
  <1> USE DEF replicas, checks
  <1>0. LoadedAt(s)
    BY DEF LoadedSoFar
  <1>1. CASE UNCHANGED replicas
    BY <1>0, <1>1, LoadedFrame
  <1>2. ASSUME NEW r \in Replica, s # r, ReplicaStep(r) PROVE LoadedAt(s)'
    <2>1. phase'[s] = phase[s] /\ env'[s] = env[s] /\ next'[s] = next[s] /\ table'[s] = table[s]
      BY <1>2 DEF ReplicaStep, Boot, CompileNext, RejectPolicy, Bind, Interrupt, Exit, Crash,
                  Down, TypeOK
    <2> QED
      BY <1>0, <2>1, LoadedFrame
  <1>3. CASE Boot(s)
    <2>1. phase'[s] = "loading" /\ next'[s] = 1 /\ table'[s] = EmptyTable
      BY <1>0, <1>3 DEF Boot, LoadedAt, TypeOK
    <2>2. Len(Routes(env[s]))' \in Nat
      BY EnvType, RolloutAssumption, RoutesType DEF TypeOK
    <2>3. next'[s] \in 1..(Len(Routes(env[s]))' + 1)
      BY <2>1, <2>2
    <2> QED
      BY <2>1, <2>3, EmptyReflects DEF LoadedAt, Routes
  <1>4. CASE CompileNext(s)
    <2> DEFINE routes == Routes(env[s])
               n == next[s] - 1
    <2>1. /\ next[s] \in Nat /\ n \in Nat /\ next[s] = n + 1 /\ next[s] <= Len(routes)
          /\ Len(routes) \in Nat
      BY <1>4, EnvType DEF CompileNext, TypeOK
    <2>2. /\ table'[s] = Insert(table[s], routes[n + 1]) /\ next'[s] = n + 2
          /\ env'[s] = env[s] /\ phase'[s] = "loading"
      BY <1>4, <2>1 DEF CompileNext, TypeOK
    <2>3. TableReflects(table[s], routes, n)
      BY <1>0 DEF LoadedAt
    <2>4. TableReflects(table'[s], routes, n + 1)
      BY <2>1, <2>2, <2>3, InsertReflects
    <2>5. \A i \in 1..(n + 1) : CompileRoute(routes[i]) = "ok"
      <3>1. \A i \in 1..n : CompileRoute(routes[i]) = "ok"
        BY <1>0 DEF LoadedAt
      <3>2. CompileRoute(routes[n + 1]) = "ok"
        BY <1>4, <2>1 DEF CompileNext
      <3> QED
        BY <2>1, <3>1, <3>2
    <2>6. (n + 2) - 1 = n + 1 /\ n + 2 \in 1..(Len(routes) + 1)
      BY <2>1
    <2>7. Routes(env[s])' = routes
      BY <2>2 DEF Routes
    <2> HIDE DEF n, routes
    <2> QED
      BY <2>2, <2>4, <2>5, <2>6, <2>7 DEF LoadedAt
  <1>5. CASE RejectPolicy(s) \/ Exit(s) \/ Crash(s)
    BY <1>0, <1>5, LoadedDown DEF RejectPolicy, Exit, Crash
  <1>6. CASE Bind(s)
    <2>1. /\ phase'[s] = "serving" /\ env'[s] = env[s] /\ next'[s] = next[s]
          /\ table'[s] = table[s]
      BY <1>6 DEF Bind, TypeOK
    <2>2. next[s] = Len(Routes(env[s])) + 1
      BY <1>0, <1>6, EnvType DEF Bind, LoadedAt
    <2>3. Rollout[env[s]].value # "malformed"
      BY <1>6 DEF Bind
    <2> QED
      BY <1>0, <2>1, <2>2, <2>3 DEF LoadedAt, Routes
  <1>7. CASE Interrupt(s)
    <2>1. /\ phase[s] = "serving" /\ phase'[s] = "draining" /\ env'[s] = env[s]
          /\ next'[s] = next[s] /\ table'[s] = table[s]
      BY <1>7 DEF Interrupt, TypeOK
    <2> QED
      BY <1>0, <2>1 DEF LoadedAt, Routes
  <1>8. ASSUME NEW q \in Query, CheckStep(q) PROVE UNCHANGED replicas
    BY <1>8 DEF CheckStep, Arrive, Dispatch, Accept, Refused, Authz, Deliver, Reset, Timeout
  <1>9. Redeploy => UNCHANGED replicas
    BY DEF Redeploy
  <1>10. UNCHANGED vars => UNCHANGED replicas
    BY DEF vars
  <1>11. ASSUME NEW r \in Replica, ReplicaStep(r) PROVE LoadedAt(s)'
    BY <1>2, <1>3, <1>4, <1>5, <1>6, <1>7, <1>11 DEF ReplicaStep
  <1> QED
    BY <1>1, <1>8, <1>9, <1>10, <1>11 DEF Next

\* What a serving replica holds, from how far it is loaded.
LEMMA LoadedServes ==
    ASSUME TypeOK, LoadedSoFar
    PROVE  ServesWholePolicy
  <1> SUFFICES ASSUME NEW r \in Replica, phase[r] \in {"serving", "draining"}
               PROVE  /\ Rollout[env[r]].value # "malformed"
                      /\ \A i \in DOMAIN Routes(env[r]) : CompileRoute(Routes(env[r])[i]) = "ok"
                      /\ TableReflects(table[r], Routes(env[r]), Len(Routes(env[r])))
    BY DEF ServesWholePolicy
  <1>1. LoadedAt(r)
    BY DEF LoadedSoFar
  <1>2. next[r] - 1 = Len(Routes(env[r])) /\ DOMAIN Routes(env[r]) = 1..(next[r] - 1)
    BY <1>1, EnvType DEF LoadedAt
  <1> QED
    BY <1>1, <1>2 DEF LoadedAt

\* An answer agrees with the document of the replica that gives it.
LEMMA AnswerStep ==
    ASSUME TypeOK, LoadedSoFar, ChecksInOrder, AcceptedHasReplica, AnswerIsPolicy, [Next]_vars
    PROVE  AnswerIsPolicy'
  <1> SUFFICES ASSUME NEW p \in Query, work'[p] = "answered"
               PROVE  (response[p].status = 200 <=> Permits(Routes(under[p]), request[p]))'
    BY DEF AnswerIsPolicy
  <1> USE DEF replicas, checks
  <1> DEFINE Kept == /\ work[p] = "answered" /\ response'[p] = response[p]
                     /\ under'[p] = under[p] /\ request'[p] = request[p]
  <1>1. ASSUME Kept
        PROVE  (response[p].status = 200 <=> Permits(Routes(under[p]), request[p]))'
    <2>1. response[p].status = 200 <=> Permits(Routes(under[p]), request[p])
      BY <1>1 DEF AnswerIsPolicy
    <2>2. Routes(under[p])' = Routes(under[p])
      BY <1>1 DEF Routes
    <2> QED
      BY <1>1, <2>1, <2>2
  <1>2. CASE Authz(p)
    <2> DEFINE r == at[p]
               routes == Routes(env[r])
    <2>1. r \in Replica /\ phase[r] \in {"serving", "draining"}
      BY <1>2 DEF Authz, AcceptedHasReplica
    <2>2. routes \in Seq(Route) /\ TableReflects(table[r], routes, Len(routes))
      BY <2>1, LoadedServes, EnvType DEF ServesWholePolicy
    <2>3. IsHeaderMap(request[p])
      BY <1>2, RequestsAssumption DEF Authz, ChecksInOrder
    <2>4. AuthzResponse(table[r], request[p]).status = 200 <=> Permits(routes, request[p])
      BY <2>2, <2>3, AnswerAgrees
    <2>5. /\ response'[p] = AuthzResponse(table[r], request[p])
          /\ under'[p] = env[r] /\ request'[p] = request[p]
      BY <1>2 DEF Authz, TypeOK
    <2>6. Routes(under[p])' = routes
      BY <2>5 DEF Routes
    <2> HIDE DEF routes, r
    <2> QED
      BY <2>4, <2>5, <2>6
  <1>3. ASSUME NEW q \in Query, q # p, Authz(q) PROVE Kept
    BY <1>3 DEF Authz, TypeOK
  <1>4. ASSUME NEW q \in Query, Arrive(q) PROVE Kept
    BY <1>4 DEF Arrive, TypeOK, ChecksInOrder
  <1>5. ASSUME NEW q \in Query, NEW r \in Replica, Accept(q, r) \/ Refused(q, r) PROVE Kept
    BY <1>5 DEF Accept, Refused, TypeOK
  <1>6. ASSUME NEW q \in Query, Deliver(q) \/ Reset(q) \/ Timeout(q) PROVE Kept
    BY <1>6 DEF Deliver, Reset, Timeout
  <1>7. ASSUME NEW r \in Replica, ReplicaStep(r) PROVE Kept
    BY <1>7 DEF ReplicaStep, Boot, CompileNext, RejectPolicy, Bind, Interrupt, Exit, Crash, Down
  <1>8. CASE Redeploy \/ UNCHANGED vars
    BY <1>1, <1>8 DEF Redeploy, vars
  <1> HIDE DEF Kept
  <1> QED
    BY <1>1, <1>2, <1>3, <1>4, <1>5, <1>6, <1>7, <1>8 DEF Next, CheckStep, Dispatch

\* A request that is upstream was permitted when it got there.
LEMMA UpstreamStep ==
    ASSUME TypeOK, ChecksInOrder, AnswerIsPolicy, UpstreamJustified, [Next]_vars
    PROVE  UpstreamJustified'
  <1> SUFFICES ASSUME NEW p \in Query, envoy'[p] = "upstream"
               PROVE  (\E e \in 1..epoch : Permits(Routes(e), request[p]))'
    BY DEF UpstreamJustified
  <1> USE DEF replicas, checks
  <1> DEFINE Justified == \E e \in 1..epoch : Permits(Routes(e), request[p])
  <1>1. epoch \in Nat /\ epoch' \in Nat /\ epoch <= epoch'
    BY RolloutAssumption DEF TypeOK, Next, vars, Redeploy, ReplicaStep, CheckStep, Boot, CompileNext,
       RejectPolicy, Bind, Interrupt, Exit, Crash, Arrive, Dispatch, Accept, Refused,
       Authz, Deliver, Reset, Timeout
  <1>2. Justified /\ request'[p] = request[p]
    <2>1. CASE envoy[p] = "upstream"
      <3>1. Justified
        BY <2>1 DEF UpstreamJustified
      <3>2. request'[p] = request[p]
        BY <2>1 DEF TypeOK, Next, vars, Redeploy, ReplicaStep, CheckStep, Boot, CompileNext,
           RejectPolicy, Bind, Interrupt, Exit, Crash, Arrive, Dispatch, Accept, Refused,
           Authz, Deliver, Reset, Timeout
      <3> QED
        BY <3>1, <3>2
    <2>2. CASE envoy[p] # "upstream"
      <3>1. Deliver(p) /\ response[p].status = 200
        BY <2>2 DEF TypeOK, Next, vars, Redeploy, ReplicaStep, CheckStep, Boot, CompileNext,
           RejectPolicy, Bind, Interrupt, Exit, Crash, Arrive, Dispatch, Accept, Refused,
           Authz, Deliver, Reset, Timeout
      <3>2. under[p] \in 1..epoch /\ Permits(Routes(under[p]), request[p])
        BY <1>1, <3>1 DEF Deliver, AnswerIsPolicy, ChecksInOrder, TypeOK
      <3>3. request'[p] = request[p]
        BY <3>1 DEF Deliver
      <3> QED
        BY <3>2, <3>3
    <2> QED
      BY <2>1, <2>2
  <1>3. PICK e \in 1..epoch : Permits(Routes(e), request[p])
    BY <1>2
  <1>4. e \in 1..epoch' /\ Permits(Routes(e), request'[p])
    BY <1>1, <1>2, <1>3
  <1> QED
    BY <1>4 DEF Routes

\* An answer fits its request when it is given, and stays as it was given.
LEMMA FitStep ==
    ASSUME TypeOK, ChecksInOrder, AnswersFit, [Next]_vars
    PROVE  AnswersFit'
  <1> DEFINE Fits(p) ==
               /\ work[p] = "answered" \/ envoy[p] \in {"upstream", "relayed"} =>
                     IF response[p].status = 200
                     THEN OwnIdentity(request[p], response[p])
                     ELSE FittingRefusal(request[p], response[p])
               /\ envoy[p] \in {"upstream", "relayed"} =>
                     /\ work[p] \in {"answered", "lost"}
                     /\ envoy[p] = "upstream" <=> response[p].status = 200
  <1> SUFFICES ASSUME NEW p \in Query PROVE Fits(p)'
    BY DEF AnswersFit
  <1> USE DEF replicas, checks
  <1>0. Fits(p)
    BY DEF AnswersFit
  <1>1. ASSUME /\ response'[p] = response[p] /\ request'[p] = request[p]
               /\ envoy'[p] = envoy[p] \/ envoy'[p] \notin {"upstream", "relayed"}
               /\ work'[p] = work[p] \/ (work[p] # "none" /\ work'[p] = "lost")
                  \/ (work[p] = "none" /\ work'[p] # "answered"
                        /\ envoy[p] \notin {"upstream", "relayed"})
        PROVE  Fits(p)'
    BY <1>0, <1>1 DEF OwnIdentity, FittingRefusal
  <1>2. CASE Authz(p)
    <2>1. /\ response'[p] = AuthzResponse(table[at[p]], request[p])
          /\ request'[p] = request[p] /\ envoy'[p] = envoy[p]
          /\ envoy[p] \notin {"upstream", "relayed"}
      BY <1>0, <1>2 DEF Authz, TypeOK
    <2>2. IsHeaderMap(request[p])
      BY <1>2, RequestsAssumption DEF Authz, ChecksInOrder
    <2> DEFINE answer == AuthzResponse(table[at[p]], request[p])
               subject == SubjectOf(request[p])
    <2>3. /\ answer.status = 200 =>
                answer.remote = IF subject = None THEN <<>> ELSE SetHeaders(Identity(subject))
          /\ answer.status # 200 => FittingRefusal(request[p], answer)
      BY <2>2, AnswerFits DEF FittingRefusal
    <2> HIDE DEF answer
    <2>4. answer.status = 200 => OwnIdentity(request[p], answer)
      BY <2>3 DEF OwnIdentity, SetHeaders
    <2>5. response'[p] = answer
      BY <2>1 DEF answer
    <2> QED
      BY <2>1, <2>3, <2>4, <2>5 DEF OwnIdentity, FittingRefusal
  <1>3. ASSUME NEW q \in Query, q # p, Authz(q) PROVE Fits(p)'
    BY <1>1, <1>3 DEF Authz, TypeOK
  <1>4. ASSUME NEW q \in Query, Arrive(q) PROVE Fits(p)'
    BY <1>1, <1>4 DEF Arrive, TypeOK, ChecksInOrder
  <1>5. ASSUME NEW q \in Query, NEW r \in Replica, Accept(q, r) \/ Refused(q, r) PROVE Fits(p)'
    BY <1>1, <1>5 DEF Accept, Refused, TypeOK
  <1>6. ASSUME NEW q \in Query, Deliver(q) PROVE Fits(p)'
    <2>1. CASE q = p
      <3>1. /\ response'[p] = response[p] /\ request'[p] = request[p] /\ work'[p] = "answered"
            /\ envoy'[p] = IF response[p].status = 200 THEN "upstream" ELSE "relayed"
            /\ work[p] = "answered"
        BY <1>6, <2>1 DEF Deliver, TypeOK
      <3> QED
        BY <1>0, <3>1 DEF OwnIdentity, FittingRefusal
    <2>2. CASE q # p
      BY <1>1, <1>6, <2>2 DEF Deliver, TypeOK
    <2> QED
      BY <2>1, <2>2
  <1>7. ASSUME NEW q \in Query, Reset(q) \/ Timeout(q) PROVE Fits(p)'
    BY <1>1, <1>7 DEF Reset, Timeout, TypeOK
  <1>8. ASSUME NEW r \in Replica, ReplicaStep(r) PROVE Fits(p)'
    BY <1>1, <1>8 DEF ReplicaStep, Boot, CompileNext, RejectPolicy, Bind, Interrupt, Exit, Crash, Down
  <1>9. CASE Redeploy \/ UNCHANGED vars
    BY <1>1, <1>9 DEF Redeploy, vars
  <1> HIDE DEF Fits
  <1> QED
    BY <1>2, <1>3, <1>4, <1>5, <1>6, <1>7, <1>8, <1>9 DEF Next, CheckStep, Dispatch

-----------------------------------------------------------------------------
(* The theorems.                                                           *)

\* InductiveInvariant holds initially and is kept by every step.
THEOREM Invariance == Spec => []InductiveInvariant
  <1>1. Init => InductiveInvariant
    <2> SUFFICES ASSUME Init PROVE InductiveInvariant
      OBVIOUS
    <2>1. TypeOK
      <3>1. Len(Rollout) \in Nat /\ 1 \in 1..Len(Rollout) /\ 0 \in 0..MaxStops
        BY RolloutAssumption
      <3>2. \A r \in Replica : IsTable(table[r])
        BY EmptyTableType DEF Init
      <3> QED
        BY <3>1, <3>2 DEF Init, TypeOK, Phases
    <2>2. LoadedSoFar
      <3> SUFFICES ASSUME NEW r \in Replica PROVE LoadedAt(r)
        BY DEF LoadedSoFar
      <3>1. 1 \in 1..(Len(Routes(env[r])) + 1)
        BY <2>1, EnvType
      <3> QED
        BY <3>1, EmptyReflects DEF Init, LoadedAt
    <2> QED
      BY <2>1, <2>2 DEF Init, InductiveInvariant, ChecksInOrder, AcceptedHasReplica,
         AnswerIsPolicy, UpstreamJustified, AnswersFit
  <1>2. InductiveInvariant /\ [Next]_vars => InductiveInvariant'
    BY TypeStep, LoadedStep, OrderStep, AcceptedStep, AnswerStep, UpstreamStep, FitStep
    DEF InductiveInvariant
  <1> QED
    BY <1>1, <1>2, PTL DEF Spec

\* Every variable has its type, in every reachable state.
THEOREM TypeCorrect == Spec => []TypeOK
  BY Invariance, PTL DEF InductiveInvariant

\* A serving replica holds the whole document it was started with.
THEOREM WholePolicy == Spec => []ServesWholePolicy
  <1>1. InductiveInvariant => ServesWholePolicy
    BY LoadedServes DEF InductiveInvariant
  <1> QED
    BY <1>1, Invariance, PTL

\* An accepted check never loses its replica unnoticed.
THEOREM NoCheckAbandoned == Spec => []AcceptedHasReplica
  BY Invariance, PTL DEF InductiveInvariant

\* The answer a replica gives is the one its document calls for.
THEOREM AnswersSound == Spec => []AnswerIsPolicy
  BY Invariance, PTL DEF InductiveInvariant

\* Nothing goes upstream that no policy permits.
THEOREM UpstreamSound == Spec => []UpstreamJustified
  BY Invariance, PTL DEF InductiveInvariant

\* What goes upstream carries the identity of its own session.
THEOREM IdentitySound == Spec => []IdentityIsOwn
  <1>1. InductiveInvariant => IdentityIsOwn
    BY DEF InductiveInvariant, AnswersFit, IdentityIsOwn
  <1> QED
    BY <1>1, Invariance, PTL

\* Nobody is sent to log in who has, and whoever is comes back to what was asked.
THEOREM RefusalSound == Spec => []NoLoginLoop
  <1>1. InductiveInvariant => NoLoginLoop
    BY DEF InductiveInvariant, AnswersFit, NoLoginLoop
  <1> QED
    BY <1>1, Invariance, PTL

-----------------------------------------------------------------------------
(* The refinement.                                                         *)

\* A step that leaves epoch, requests and verdicts alone is a stutter.
LEMMA GateStutter ==
    ASSUME UNCHANGED <<epoch, request, envoy>>
    PROVE  UNCHANGED Promise!vars
  BY DEF Promise!vars, Verdict

\* A step that settles check q one way settles it that way for Gate.
LEMMA GateSettles ==
    ASSUME TypeOK, NEW q \in Query, NEW v \in Settled,
           envoy[q] = "calling", envoy' = [envoy EXCEPT ![q] = v],
           UNCHANGED <<epoch, request>>,
           v = "upstream" =>
              \E e \in 1..epoch : <<e, request[q]>> \in
                 {pair \in (1..Len(Rollout)) \X Requests : Permits(Routes(pair[1]), pair[2])}
    PROVE  Promise!Pass(q) \/ Promise!Refuse(q)
  <1> DEFINE map == [p \in Query |-> Verdict(p)]
             to == IF v = "upstream" THEN "upstream" ELSE "refused"
  <1>1. map[q] = "pending"
    BY DEF Verdict
  <1>2. map' = [map EXCEPT ![q] = to]
    <2>1. Verdict(q)' = to
      BY DEF Verdict, TypeOK, Settled
    <2>2. \A p \in Query : p # q => Verdict(p)' = Verdict(p)
      BY DEF Verdict, TypeOK
    <2> HIDE DEF to
    <2> QED
      BY <2>1, <2>2
  <1> HIDE DEF map
  <1>3. CASE v = "upstream"
    <2>1. Promise!Pass(q)
      BY <1>1, <1>2, <1>3 DEF Promise!Pass, map
    <2> QED
      BY <2>1
  <1>4. CASE v # "upstream"
    <2>1. Promise!Refuse(q)
      BY <1>1, <1>2, <1>4 DEF Promise!Refuse, map
    <2> QED
      BY <2>1
  <1> QED
    BY <1>3, <1>4

\* Replicas, rollouts, Envoy and the checks implement Gate.
THEOREM Implements == Spec => KeepsPromise
  <1>1. Init => Promise!Init
    BY DEF Init, Promise!Init, Verdict
  <1>2. InductiveInvariant /\ [Next]_vars => [Promise!Next]_(Promise!vars)
    <2> SUFFICES ASSUME InductiveInvariant, [Next]_vars
                 PROVE  Promise!Next \/ UNCHANGED Promise!vars
      OBVIOUS
    <2> USE DEF replicas, checks
    <2>0. TypeOK /\ ChecksInOrder /\ AnswerIsPolicy
      BY DEF InductiveInvariant
    <2>1. CASE Redeploy
      <3>1. epoch + 1 \in 1..Len(Rollout) /\ 1..(epoch + 1) = (1..epoch) \cup {epoch + 1}
        BY <2>0, <2>1, RolloutAssumption DEF Redeploy, TypeOK
      <3>2. UNCHANGED <<request, envoy>> /\ epoch' = epoch + 1
        BY <2>1 DEF Redeploy
      <3>3. Promise!Publish(epoch + 1)
        BY <3>1, <3>2 DEF Promise!Publish, Verdict
      <3> QED
        BY <3>1, <3>3 DEF Promise!Next
    <2>2. ASSUME NEW r \in Replica, ReplicaStep(r) PROVE UNCHANGED Promise!vars
      BY <2>2, GateStutter
      DEF ReplicaStep, Boot, CompileNext, RejectPolicy, Bind, Interrupt, Exit, Crash
    <2>3. ASSUME NEW q \in Query, Arrive(q) PROVE Promise!Next
      <3> DEFINE map == [p \in Query |-> Verdict(p)]
      <3>1. envoy[q] = "idle" /\ envoy' = [envoy EXCEPT ![q] = "calling"] /\ UNCHANGED epoch
        BY <2>3 DEF Arrive
      <3>2. \E ask \in Requests : request' = [request EXCEPT ![q] = ask]
        BY <2>3 DEF Arrive
      <3>3. map[q] = "none" /\ map' = [map EXCEPT ![q] = "pending"]
        <4>1. Verdict(q) = "none" /\ Verdict(q)' = "pending"
          BY <2>0, <3>1 DEF Verdict, TypeOK
        <4>2. \A p \in Query : p # q => Verdict(p)' = Verdict(p)
          BY <2>0, <3>1 DEF Verdict, TypeOK
        <4> QED
          BY <4>1, <4>2
      <3> HIDE DEF map
      <3>4. Promise!Arrive(q)
        BY <3>1, <3>2, <3>3 DEF Promise!Arrive, map
      <3> QED
        BY <3>4 DEF Promise!Next
    <2>4. ASSUME NEW q \in Query, NEW r \in Replica, Accept(q, r) PROVE UNCHANGED Promise!vars
      BY <2>4, GateStutter DEF Accept
    <2>5. ASSUME NEW q \in Query, Authz(q) PROVE UNCHANGED Promise!vars
      BY <2>5, GateStutter DEF Authz
    <2>6. ASSUME NEW q \in Query,
                 Reset(q) \/ Timeout(q) \/ \E r \in Replica : Refused(q, r)
          PROVE  Promise!Next
      <3>1. /\ envoy[q] = "calling" /\ envoy' = [envoy EXCEPT ![q] = "failed"]
            /\ UNCHANGED <<epoch, request>>
        BY <2>6 DEF Reset, Timeout, Refused
      <3>2. Promise!Pass(q) \/ Promise!Refuse(q)
        BY <2>0, <3>1, GateSettles DEF Settled
      <3> QED
        BY <3>2 DEF Promise!Next
    <2>7. ASSUME NEW q \in Query, Deliver(q) PROVE Promise!Next
      <3> DEFINE v == IF response[q].status = 200 THEN "upstream" ELSE "relayed"
      <3>1. /\ envoy[q] = "calling" /\ envoy' = [envoy EXCEPT ![q] = v] /\ v \in Settled
            /\ UNCHANGED <<epoch, request>>
        BY <2>7 DEF Deliver, Settled
      <3>2. ASSUME v = "upstream"
            PROVE  \E e \in 1..epoch : <<e, request[q]>> \in
                      {pair \in (1..Len(Rollout)) \X Requests : Permits(Routes(pair[1]), pair[2])}
        <4>1. under[q] \in 1..epoch /\ request[q] \in Requests
          BY <2>0, <2>7, RolloutAssumption DEF Deliver, ChecksInOrder, TypeOK
        <4>2. Permits(Routes(under[q]), request[q])
          BY <2>0, <2>7, <3>2 DEF Deliver, AnswerIsPolicy
        <4>3. under[q] \in 1..Len(Rollout)
          BY <2>0, <4>1, RolloutAssumption DEF TypeOK
        <4> QED
          BY <4>1, <4>2, <4>3
      <3> HIDE DEF v
      <3>3. Promise!Pass(q) \/ Promise!Refuse(q)
        BY <2>0, <3>1, <3>2, GateSettles
      <3> QED
        BY <3>3 DEF Promise!Next
    <2>8. CASE UNCHANGED vars
      BY <2>8, GateStutter DEF vars
    <2> QED
      BY <2>1, <2>2, <2>3, <2>4, <2>5, <2>6, <2>7, <2>8 DEF Next, CheckStep, Dispatch
  <1> QED
    BY <1>1, <1>2, Invariance, PTL DEF Spec, KeepsPromise, Promise!Spec
=============================================================================
