--------------------------------- MODULE Repl ---------------------------------
(***************************************************************************)
(* The policy playground (authroute/src/bin/repl.rs): policies typed in    *)
(* are compiled and evaluated for a subject that commands change.  It is   *)
(* there to say what the service would decide.                             *)
(***************************************************************************)
EXTENDS Checks

CONSTANT Piece   \* what may stand between commas, trimmed; maybe empty

ASSUME PieceAssumption == "" \in Piece

\* A line, trimmed: a policy; or ":", whether blanks follow it, a word, and the
\* pieces of what follows the next blank, of which there is some or none.
Rest == {<<>>} \cup (UNION {[1..n -> Piece] : n \in 1..2} \ {<<"">>})
Fields == {"user", "groups", "email", "name"}
Words == Fields \cup {"help", "subject", "reset", "quit", "exit", "other", ""}
Command == [blank : BOOLEAN, word : Words, rest : Rest]

\* The text the pieces were parts of.
Joined(pieces) ==
    IF Len(pieces) = 1 THEN pieces[1] ELSE pieces[1] \o "," \o pieces[2]

Said == {Joined(pieces) : pieces \in Rest \ {<<>>}}

\* What commands can make of the sample subject.
Subjects ==
    [username : Said \cup {SampleSubject.username},
     groups   : (Rest \ {<<>>}) \cup {SampleSubject.groups},
     name     : Said \cup {SampleSubject.name},
     email    : Said \cup {SampleSubject.email}]

ASSUME SubjectAssumption == None \notin Subjects

VARIABLES
    subject,
    running,
    typed,    \* history: the policy typed last, None if that was a command
    answer    \* history: what was printed for it

vars == <<subject, running, typed, answer>>

Init ==
    /\ subject = SampleSubject
    /\ running = TRUE
    /\ typed = None /\ answer = None

\* Mutant: the sample subject, whatever the commands have made of it.
AnswerSample(expr, for) ==
    IF CompileCelPolicy(expr) # "ok" THEN "compile error"
    ELSE CASE Evaluate(expr, SampleSubject) = "true"  -> "ALLOW"
           [] Evaluate(expr, SampleSubject) = "false" -> "DENY"
           [] OTHER -> "eval error"

Answer(expr, for) ==
    IF CompileCelPolicy(expr) # "ok" THEN "compile error"
    ELSE CASE Evaluate(expr, for) = "true"  -> "ALLOW"
           [] Evaluate(expr, for) = "false" -> "DENY"
           [] OTHER -> "eval error"

TypePolicy ==
    /\ running
    /\ \E expr \in Expr : typed' = expr /\ answer' = Answer(expr, subject)
    /\ UNCHANGED <<subject, running>>

\* Mutant: empty pieces are dropped.
GroupsOfFull(pieces) == SelectSeq(pieces, LAMBDA g : g # "")

GroupsOf(pieces) == pieces

\* A command sets a field if it follows ":" at once and says something.
Sets(command) == /\ ~command.blank /\ command.word \in Fields /\ command.rest # <<>>

Set ==
    /\ running
    /\ \E command \in Command :
          /\ Sets(command)
          /\ subject' = CASE command.word = "user"   -> [subject EXCEPT !.username = Joined(command.rest)]
                          [] command.word = "groups" -> [subject EXCEPT !.groups = GroupsOf(command.rest)]
                          [] command.word = "email"  -> [subject EXCEPT !.email = Joined(command.rest)]
                          [] command.word = "name"   -> [subject EXCEPT !.name = Joined(command.rest)]
    /\ typed' = None /\ answer' = None
    /\ UNCHANGED running

\* A word alone, blanks before it or not; anything else is not a command, and
\* help, the subject and complaints are only printed.
Do ==
    /\ running
    /\ \E command \in Command :
          /\ ~Sets(command)
          /\ LET alone(words) == command.word \in words /\ command.rest = <<>> IN
             /\ subject' = IF alone({"reset"}) THEN SampleSubject ELSE subject
             /\ running' = ~alone({"quit", "exit"})
    /\ typed' = None /\ answer' = None

\* The input ends, or cannot be read.
End == running /\ running' = FALSE /\ UNCHANGED <<subject, typed, answer>>

Next == TypePolicy \/ Set \/ Do \/ End

Spec == Init /\ [][Next]_vars

-----------------------------------------------------------------------------
(* What makes it correct.                                                  *)

\* The type invariant.
TypeOK ==
    /\ subject \in Subjects /\ running \in BOOLEAN
    /\ typed \in Expr \cup {None}
    /\ answer \in {"compile error", "ALLOW", "DENY", "eval error", None}

\* No command falls between a policy and the answer to it: the answer shown is
\* for the subject as it is.
InductiveInvariant == TypeOK /\ (typed # None => answer = Answer(typed, subject))

\* A document with nothing but the typed policy, for some host, and a check of
\* that host.
Document(expr) == [host |-> "", defaultPolicy |-> expr, extraPolicy |-> <<>>]
Check == [proto |-> "https", host |-> Hostname(""), uri |-> [path |-> "/", query |-> ""],
          cookie |-> None]

\* The answer is the one the service gives the same subject: it does not start
\* on a policy the playground cannot compile, allows what it says is allowed
\* and forbids the rest.
ForecastsService ==
    typed # None =>
        /\ answer = "compile error" <=> CompileRoute(Document(typed)) # "ok"
        /\ answer # "compile error" =>
              Decide(Insert(EmptyTable, Document(typed)), Check, subject) =
                 IF answer = "ALLOW" THEN Allow(subject) ELSE Forbidden
=============================================================================
