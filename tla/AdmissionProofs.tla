--------------------------- MODULE AdmissionProofs ---------------------------
(***************************************************************************)
(* The admission review, for every set of writes, specs, namespaces and    *)
(* engines: what it stores, the request path can load, and its target was  *)
(* there.                                                                  *)
(***************************************************************************)
EXTENDS Admission, PositionTheorems

\* One place where something fails is as good as a first place.
LEMMA FirstFailure ==
    ASSUME NEW s \in Seq(Extra), \E i \in DOMAIN s : CompileExtra(s[i]) # "ok"
    PROVE  \E i \in DOMAIN s :
              /\ CompileExtra(s[i]) # "ok"
              /\ \A j \in DOMAIN s : j < i => ~(CompileExtra(s[j]) # "ok")
  <1> DEFINE I == {i \in DOMAIN s : CompileExtra(s[i]) # "ok"}
  <1>1. DOMAIN s = 1..Len(s) /\ Len(s) \in Nat
    OBVIOUS
  <1>2. PICK i \in I : \A j \in I : i <= j
    BY <1>1, LeastPosition
  <1>3. \A j \in DOMAIN s : j < i => j \notin I
    BY <1>1, <1>2
  <1> QED
    BY <1>2, <1>3

\* The first error of a policy is found whenever there is one, although the
\* webhook starts with the default and the request path ends with it:
\* validate_spec and RoutePolicy::compile accept the same policies.
THEOREM AdmissionAgrees ==
    ASSUME NEW s \in AuthPolicySpec, NEW host
    PROVE  ValidateSpec(s) = "ok" <=> CompileRoute(AsRoute(s, host)) = "ok"
  <1> DEFINE extras == s.extraPolicy
             fails(extra) == CompileExtra(extra) # "ok"
             first == CHOOSE i \in DOMAIN extras : IsFirst(i, extras, fails)
  <1>1. extras \in Seq(Extra)
    BY DEF AuthPolicySpec
  <1>2. AsRoute(s, host).extraPolicy = extras
        /\ AsRoute(s, host).defaultPolicy = s.defaultPolicy
    BY DEF AsRoute
  <1>3. CASE \E i \in DOMAIN extras : CompileExtra(extras[i]) # "ok"
    <2>1. \E i \in DOMAIN extras : IsFirst(i, extras, fails)
      BY <1>1, <1>3, FirstFailure DEF IsFirst
    <2>2. IsFirst(first, extras, fails)
      BY <2>1
    <2>3. CompileExtra(extras[first]) # "ok"
      BY <2>2 DEF IsFirst
    <2>4. CompileRoute(AsRoute(s, host)) = CompileExtra(extras[first])
      BY <1>2, <1>3 DEF CompileRoute
    <2>5. ValidateSpec(s) # "ok"
      BY <1>3, <2>3 DEF ValidateSpec
    <2> QED
      BY <2>3, <2>4, <2>5
  <1>4. CASE ~\E i \in DOMAIN extras : CompileExtra(extras[i]) # "ok"
    <2>1. CompileRoute(AsRoute(s, host)) = CompileCelPolicy(s.defaultPolicy)
      BY <1>2, <1>4 DEF CompileRoute
    <2>2. ValidateSpec(s) = "ok" <=> CompileCelPolicy(s.defaultPolicy) = "ok"
      BY <1>4 DEF ValidateSpec
    <2> QED
      BY <2>1, <2>2
  <1> QED
    BY <1>3, <1>4

-----------------------------------------------------------------------------
(* Every step keeps the invariant.                                         *)

\* A call that is not answered rejects the write (failurePolicy: Fail).
LEMMA UnansweredRejects ==
    \A w \in Write : Unanswered(w) => Becomes(w, "rejected")
  BY DEF Unanswered, WebhookConfiguration

\* Types hold at the start.
LEMMA TypeInit == Init => TypeOK
  BY SpecsAssumption DEF Init, TypeOK, Stages

\* Every step keeps the types.
LEMMA TypeStep == TypeOK /\ [Next]_vars => TypeOK'
  <1> SUFFICES ASSUME TypeOK, [Next]_vars PROVE TypeOK'
    OBVIOUS
  <1> USE SpecsAssumption DEF TypeOK, Stages, Done, Becomes
  <1>1. ASSUME NEW w \in Write, Submit(w) PROVE TypeOK'
    BY <1>1 DEF Submit
  <1>2. ASSUME NEW w \in Write, Review(w) PROVE TypeOK'
    BY <1>2 DEF Review
  <1>3. ASSUME NEW w \in Write, Lookup(w) PROVE TypeOK'
    BY <1>3 DEF Lookup
  <1>4. ASSUME NEW w \in Write, LookupFails(w) PROVE TypeOK'
    BY <1>4 DEF LookupFails
  <1>5. ASSUME NEW w \in Write, Store(w) PROVE TypeOK'
    BY <1>5 DEF Store
  <1>6. ASSUME NEW w \in Write, Reject(w) PROVE TypeOK'
    BY <1>6 DEF Reject
  <1>7. ASSUME NEW w \in Write, CallFails(w) PROVE TypeOK'
    BY <1>7, UnansweredRejects DEF CallFails
  <1>8. ASSUME NEW key \in Key, Remove(key) PROVE TypeOK'
    BY <1>8 DEF Remove
  <1>9. CASE ChangeRoutes
    <2>1. routes' \subseteq Key
      BY <1>9 DEF ChangeRoutes
    <2> QED
      BY <1>9, <2>1 DEF ChangeRoutes
  <1>10. CASE Crash
    BY <1>10 DEF Crash, LoseReviews
  <1>11. CASE UNCHANGED vars
    BY <1>11 DEF vars
  <1> QED
    BY <1>1, <1>2, <1>3, <1>4, <1>5, <1>6, <1>7, <1>8, <1>9, <1>10, <1>11 DEF Next, WriteStep

\* A write past the await stays validated, one that is admitted has seen its
\* target, and a pending one sees every route there is.
LEMMA PassedStep == TypeOK /\ PassedSoFar /\ [Next]_vars => PassedSoFar'
  <1> SUFFICES ASSUME TypeOK, PassedSoFar, [Next]_vars,
                      NEW v \in Write
               PROVE  /\ stage'[v] \in {"looking", "admit"} => ValidateSpec(spec'[v]) = "ok"
                      /\ stage'[v] = "admit" => Under(v)' \in seen'[v]
                      /\ stage'[v] \notin {"idle"} \cup Done => routes' \subseteq seen'[v]
    BY DEF PassedSoFar
  <1> DEFINE Passed == /\ stage'[v] \in {"looking", "admit"} => ValidateSpec(spec'[v]) = "ok"
                       /\ stage'[v] = "admit" => Under(v)' \in seen'[v]
                       /\ stage'[v] \notin {"idle"} \cup Done => routes' \subseteq seen'[v]
  <1> USE DEF TypeOK, PassedSoFar, Becomes, Done, Under
  <1>1. ASSUME NEW w \in Write, Submit(w) PROVE Passed
    BY <1>1 DEF Submit
  <1>2. ASSUME NEW w \in Write, Review(w) PROVE Passed
    BY <1>2 DEF Review
  <1>3. ASSUME NEW w \in Write, Lookup(w) PROVE Passed
    BY <1>3 DEF Lookup
  <1>4. ASSUME NEW w \in Write, LookupFails(w) PROVE Passed
    BY <1>4 DEF LookupFails
  <1>5. ASSUME NEW w \in Write, Store(w) PROVE Passed
    BY <1>5 DEF Store
  <1>6. ASSUME NEW w \in Write, Reject(w) PROVE Passed
    BY <1>6 DEF Reject
  <1>7. ASSUME NEW w \in Write, CallFails(w) PROVE Passed
    BY <1>7, UnansweredRejects DEF CallFails
  <1>8. ASSUME NEW key \in Key, Remove(key) PROVE Passed
    BY <1>8 DEF Remove
  <1>9. CASE ChangeRoutes
    BY <1>9 DEF ChangeRoutes
  <1>10. CASE Crash
    BY <1>10 DEF Crash, LoseReviews
  <1>11. CASE UNCHANGED vars
    BY <1>11 DEF vars
  <1> QED
    BY <1>1, <1>2, <1>3, <1>4, <1>5, <1>6, <1>7, <1>8, <1>9, <1>10, <1>11 DEF Next, WriteStep

\* Only Store stores, and what it stores has been validated.
LEMMA CompilesStep ==
    TypeOK /\ PassedSoFar /\ StoredCompiles /\ [Next]_vars => StoredCompiles'
  <1> SUFFICES ASSUME TypeOK, PassedSoFar, StoredCompiles, [Next]_vars,
                      NEW key \in Key, stored'[key] # None
               PROVE  Loads(stored'[key])
    BY DEF StoredCompiles
  <1>1. CASE stored'[key] = stored[key]
    BY <1>1 DEF StoredCompiles
  <1>2. ASSUME NEW w \in Write, Store(w), stored'[key] # stored[key]
        PROVE  Loads(stored'[key])
    <2>1. stored'[key] = spec[w] /\ spec[w] \in Specs
      BY <1>2 DEF Store, TypeOK
    <2>2. ValidateSpec(spec[w]) = "ok"
      BY <1>2 DEF Store, PassedSoFar
    <2>3. spec[w] \in AuthPolicySpec
      BY <2>1, SpecsAssumption
    <2> QED
      BY <2>1, <2>2, <2>3, AdmissionAgrees DEF Loads
  <1>3. ASSUME NEW k \in Key, Remove(k) PROVE stored'[key] = stored[key]
    BY <1>3 DEF Remove, TypeOK
  <1>4. \/ \E w \in Write : Store(w)
        \/ \E k \in Key : Remove(k)
        \/ stored' = stored
    BY DEF Next, WriteStep, Submit, Review, Lookup, LookupFails, Reject, CallFails,
           ChangeRoutes, Crash, vars
  <1> QED
    BY <1>1, <1>2, <1>3, <1>4

\* What the safety theorems follow from.
THEOREM Invariance == Spec => []InductiveInvariant
  <1>1. Init => InductiveInvariant
    BY TypeInit DEF InductiveInvariant, Init, PassedSoFar, StoredCompiles
  <1>2. InductiveInvariant /\ [Next]_vars => InductiveInvariant'
    BY TypeStep, PassedStep, CompilesStep DEF InductiveInvariant
  <1> QED
    BY <1>1, <1>2, PTL DEF Spec

\* Every variable keeps its type.
THEOREM TypeCorrect == Spec => []TypeOK
  BY Invariance, PTL DEF InductiveInvariant

\* Whatever the webhook admits, the request path can load (ADR-0006 §2).
THEOREM StoredIsLoadable == Spec => []StoredCompiles
  BY Invariance, PTL DEF InductiveInvariant

\* Whatever the webhook admits had its target while the write was under way.
THEOREM TargetExisted == Spec => StoredHadTarget
  <1> DEFINE HadTarget ==
        \A key \in Key : stored'[key] # stored[key] /\ stored'[key] # None =>
          \E w \in Write :
              /\ stage[w] \notin Done /\ stage'[w] = "stored"
              /\ object[w] = key /\ spec[w] = stored'[key]
              /\ Under(w) \in seen[w]
  <1>1. InductiveInvariant /\ [Next]_vars => [HadTarget]_vars
    <2> SUFFICES ASSUME InductiveInvariant, Next,
                        NEW key \in Key, stored'[key] # stored[key], stored'[key] # None
                 PROVE  \E w \in Write :
                           /\ stage[w] \notin Done /\ stage'[w] = "stored"
                           /\ object[w] = key /\ spec[w] = stored'[key]
                           /\ Under(w) \in seen[w]
      OBVIOUS
    <2>1. ASSUME NEW k \in Key, Remove(k) PROVE FALSE
      BY <2>1 DEF Remove, InductiveInvariant, TypeOK
    <2>2. PICK w \in Write : Store(w)
      BY <2>1 DEF Next, WriteStep, Submit, Review, Lookup, LookupFails, Reject, CallFails,
                  ChangeRoutes, Crash
    <2>3. object[w] = key /\ spec[w] = stored'[key]
      BY <2>2 DEF Store, InductiveInvariant, TypeOK
    <2>4. stage[w] \notin Done /\ stage'[w] = "stored"
      BY <2>2 DEF Store, Becomes, Done, InductiveInvariant, TypeOK
    <2>5. Under(w) \in seen[w]
      BY <2>2 DEF Store, InductiveInvariant, PassedSoFar
    <2> QED
      BY <2>3, <2>4, <2>5
  <1> QED
    BY <1>1, Invariance, PTL DEF Spec, StoredHadTarget
=============================================================================
