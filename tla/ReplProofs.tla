------------------------------ MODULE ReplProofs ------------------------------
(***************************************************************************)
(* What the playground says of a policy and a subject is what the service  *)
(* does with them, for every policy, engine and line typed in.             *)
(***************************************************************************)
EXTENDS Repl, TLAPS

\* A document without extras compiles if its policy does ...
LEMMA DocumentCompiles ==
    \A expr : CompileRoute(Document(expr)) = CompileCelPolicy(expr)
  <1>1. \A expr : DOMAIN Document(expr).extraPolicy = {} /\ Document(expr).defaultPolicy = expr
    BY DEF Document
  <1> QED
    BY <1>1 DEF CompileRoute

\* ... and that policy governs its host.
LEMMA DocumentResolves ==
    \A expr : Resolve(Insert(EmptyTable, Document(expr)), Check.host, PathOf(Check)) = expr
  <1> SUFFICES ASSUME NEW expr
               PROVE  Resolve(Insert(EmptyTable, Document(expr)), Check.host, PathOf(Check)) = expr
    OBVIOUS
  <1> DEFINE table == Insert(EmptyTable, Document(expr))
             entry == [default |-> expr, extra |-> <<>>]
  <1>1. Check.host = Hostname("") /\ Hostname(Document(expr).host) = Hostname("")
    BY DEF Check, Document
  <1>2. Hostname("") \in DOMAIN table /\ table[Hostname("")] = entry
    BY <1>1 DEF Insert, Document
  <1>3. entry.default = expr /\ DOMAIN entry.extra = {}
    OBVIOUS
  <1> HIDE DEF table, entry
  <1>4. Resolve(table, Hostname(""), PathOf(Check)) = expr
    BY <1>2, <1>3 DEF Resolve
  <1> QED
    BY <1>1, <1>4 DEF table

\* What the playground answers is what the service does with such a document.
LEMMA AnswerForecasts ==
    ASSUME NEW expr \in Expr, NEW s \in Subjects
    PROVE  /\ Answer(expr, s) = "compile error" <=> CompileRoute(Document(expr)) # "ok"
           /\ Answer(expr, s) # "compile error" =>
                 Decide(Insert(EmptyTable, Document(expr)), Check, s) =
                    IF Answer(expr, s) = "ALLOW" THEN Allow(s) ELSE Forbidden
  <1>1. Answer(expr, s) = "compile error" <=> CompileCelPolicy(expr) # "ok"
    BY DEF Answer
  <1>2. Answer(expr, s) = "ALLOW" <=>
           CompileCelPolicy(expr) = "ok" /\ Evaluate(expr, s) = "true"
    BY DEF Answer
  <1>3. expr # None /\ s # None /\ OrElse(s, DefaultSubject) = s
    BY EngineAssumption, SubjectAssumption DEF OrElse
  <1>4. Decide(Insert(EmptyTable, Document(expr)), Check, s) =
           IF Evaluate(expr, s) = "true" THEN Allow(s) ELSE Forbidden
    BY <1>3, DocumentResolves DEF Decide, Deny
  <1> QED
    BY <1>1, <1>2, <1>4, DocumentCompiles

\* What is left of the fields' types, command by command.
LEMMA SetType ==
    ASSUME TypeOK, Set
    PROVE  subject' \in Subjects
  <1>1. PICK command \in Command :
          /\ Sets(command)
          /\ subject' = CASE command.word = "user"   -> [subject EXCEPT !.username = Joined(command.rest)]
                          [] command.word = "groups" -> [subject EXCEPT !.groups = GroupsOf(command.rest)]
                          [] command.word = "email"  -> [subject EXCEPT !.email = Joined(command.rest)]
                          [] command.word = "name"   -> [subject EXCEPT !.name = Joined(command.rest)]
    BY DEF Set
  <1>2. command.rest \in Rest \ {<<>>} /\ command.word \in {"user", "groups", "email", "name"}
    BY <1>1 DEF Sets, Command, Fields
  <1>3. Joined(command.rest) \in Said /\ GroupsOf(command.rest) \in Rest \ {<<>>}
    BY <1>2 DEF Said, GroupsOf
  <1>4. subject \in Subjects
    BY DEF TypeOK
  <1> HIDE DEF Said
  <1>5. CASE command.word = "user"
    BY <1>1, <1>3, <1>4, <1>5 DEF Subjects
  <1>6. CASE command.word = "groups"
    BY <1>1, <1>3, <1>4, <1>6 DEF Subjects
  <1>7. CASE command.word = "email"
    BY <1>1, <1>3, <1>4, <1>7 DEF Subjects
  <1>8. CASE command.word = "name"
    BY <1>1, <1>3, <1>4, <1>8 DEF Subjects
  <1> QED
    BY <1>2, <1>5, <1>6, <1>7, <1>8

\* The sample subject is one of them.
LEMMA SampleType == SampleSubject \in Subjects
  BY DEF Subjects, SampleSubject, Subject

\* The subject is of the kind commands make of the sample, and the answer shown
\* is for it: every command withdraws the answer before it changes the subject.
THEOREM Invariance == Spec => []InductiveInvariant
  <1>1. Init => InductiveInvariant
    BY SampleType DEF Init, InductiveInvariant, TypeOK
  <1>2. InductiveInvariant /\ [Next]_vars => InductiveInvariant'
    <2> SUFFICES ASSUME InductiveInvariant, [Next]_vars PROVE InductiveInvariant'
      OBVIOUS
    <2>1. CASE TypePolicy
      <3>1. PICK expr \in Expr : typed' = expr /\ answer' = Answer(expr, subject)
        BY <2>1 DEF TypePolicy
      <3>2. UNCHANGED <<subject, running>>
        BY <2>1 DEF TypePolicy
      <3>3. Answer(expr, subject) \in {"compile error", "ALLOW", "DENY", "eval error"}
        BY DEF Answer
      <3> QED
        BY <3>1, <3>2, <3>3 DEF InductiveInvariant, TypeOK
    <2>2. CASE Set
      BY <2>2, SetType DEF Set, InductiveInvariant, TypeOK
    <2>3. CASE Do
      BY <2>3, SampleType DEF Do, InductiveInvariant, TypeOK
    <2>4. CASE End
      BY <2>4 DEF End, InductiveInvariant, TypeOK
    <2>5. CASE UNCHANGED vars
      BY <2>5 DEF vars, InductiveInvariant, TypeOK
    <2> QED
      BY <2>1, <2>2, <2>3, <2>4, <2>5 DEF Next
  <1> QED
    BY <1>1, <1>2, PTL DEF Spec

\* The playground's answer is the service's, whatever was typed before: a policy
\* it cannot compile is one the service does not start on, and what it allows or
\* denies the service allows or forbids.
THEOREM ForecastSound == Spec => []ForecastsService
  <1>1. InductiveInvariant => ForecastsService
    BY AnswerForecasts DEF InductiveInvariant, TypeOK, ForecastsService
  <1> QED
    BY <1>1, Invariance, PTL
=============================================================================
