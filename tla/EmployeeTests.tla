--------------------------- MODULE EmployeeTests ---------------------------
(***************************************************************************)
(* One test template, the assignment of it to one employee and the         *)
(* employee's attempts: services/employee_test.py.                         *)
(*                                                                         *)
(* A question is worth one point and is answered right or not, since       *)
(* compute_awarded gives all of its points or none.  start_attempt,        *)
(* submit_attempt and update_template decide by copies they loaded and     *)
(* commit later; the other requests are one step, because a race of theirs *)
(* ends in an error of the database and changes nothing.                   *)
(***************************************************************************)
EXTENDS Integers, FiniteSets, UnitOfWork

CONSTANTS Handlers,      \* requests that may run at one time
          Questions,     \* questions the administrator may write
          Thresholds,    \* values of pass_threshold_percent
          Tries,         \* values of max_attempts
          LastId,        \* bound on the assignments made one after another
          LastNumber,    \* bound on the attempts of one assignment
          None           \* no row, or a column that is NULL

AssignmentStatus == {"assigned", "in_progress", "passed", "failed"}

\* The rows of employee_test_assignments.
Assignments == [id : Nat, status : AssignmentStatus, used : Nat, best : (0 .. 100) \cup {None},
                passed : BOOLEAN]

\* What the code takes for granted about the constants.
TestsAssumption ==
    /\ Questions # {} /\ IsFiniteSet(Questions)
    /\ Thresholds # {} /\ Thresholds \subseteq 0 .. 100
    /\ Tries # {} /\ Tries \subseteq Nat \ {0}
    /\ LastId \in Nat /\ LastNumber \in Nat
    /\ None \notin Int /\ None \notin Assignments

VARIABLES testTemplate, \* the row of the template with its questions
          assignment,   \* the row of the assignment, or None
          attempts,     \* the attempts, by attempt_number
          lastId,       \* the assignments made so far
          notices,      \* the assignments with a notification test_assigned
          requests      \* what each handler has read

tables == <<testTemplate, assignment, attempts, lastId, notices>>
testVars == <<tables, requests>>

Rest == [op |-> "rest"]

(***************************************************************************)
(* Rows                                                                    *)
(***************************************************************************)

Assigned(id) == [id |-> id, status |-> "assigned", used |-> 0, best |-> None, passed |-> FALSE]

Attempt(threshold, questions) ==
    [open |-> TRUE, percent |-> 0, passed |-> FALSE, threshold |-> threshold, questions |-> questions]

NoAttempts == [n \in {} |-> Attempt(0, {})]

OpenAttempts == {n \in DOMAIN attempts : attempts[n].open}

Submitted == {n \in DOMAIN attempts : ~attempts[n].open}

Larger(a, b) == IF a = None \/ a < b THEN b ELSE a

\* round(score / total * 100): the nearest percent, and either one of two that are
\* equally near, since the quotient is a float.
Percents(score, total) ==
    {p \in 0 .. 100 : -total <= 200 * score - 2 * total * p /\ 200 * score - 2 * total * p <= total}

\* Mutant: a template without questions is accepted.
AnyQuestions(questions) == TRUE

ValidQuestions(questions) == questions # {}

Init ==
    /\ \E threshold \in Thresholds, tries \in Tries, q \in Questions :
        testTemplate = [deleted |-> FALSE, threshold |-> threshold, tries |-> tries, questions |-> {q}]
    /\ assignment = None
    /\ attempts = NoAttempts
    /\ lastId = 0
    /\ notices = {}
    /\ requests = [h \in Handlers |-> Rest]

\* An error, a lost connection or a killed worker.
Dies(h) ==
    /\ requests[h] # Rest
    /\ requests' = [requests EXCEPT ![h] = Rest]
    /\ UNCHANGED tables

(***************************************************************************)
(* The administrator                                                       *)
(***************************************************************************)

LoadForUpdateTemplate(h, threshold, tries, questions) ==
    /\ requests[h] = Rest
    /\ ~testTemplate.deleted
    /\ questions # None => ValidQuestions(questions)
    /\ requests' = [requests EXCEPT ![h] =
                    [op |-> "update", old |-> [testTemplate EXCEPT !.deleted = FALSE],
                     threshold |-> threshold, tries |-> tries, questions |-> questions]]
    /\ UNCHANGED tables

\* The questions that were loaded are deleted, so those that another request put
\* there in between remain beside the new ones.
UpdateTemplate(h) ==
    LET r == requests[h] IN
    /\ r.op = "update"
    /\ testTemplate' = [testTemplate EXCEPT
                    !.threshold = Written(@, r.old.threshold, r.threshold),
                    !.tries = Written(@, r.old.tries, r.tries),
                    !.questions = IF r.questions = None THEN @
                                  ELSE (@ \ r.old.questions) \cup r.questions]
    /\ requests' = [requests EXCEPT ![h] = Rest]
    /\ UNCHANGED <<assignment, attempts, lastId, notices>>

DeleteTemplate ==
    /\ ~testTemplate.deleted
    /\ testTemplate' = [testTemplate EXCEPT !.deleted = TRUE]
    /\ UNCHANGED <<assignment, attempts, lastId, notices, requests>>

RestoreTemplate ==
    /\ testTemplate.deleted
    /\ testTemplate' = [testTemplate EXCEPT !.deleted = FALSE]
    /\ UNCHANGED <<assignment, attempts, lastId, notices, requests>>

\* A new assignment with its notification; of one that exists only the date due
\* changes.
AssignTemplate ==
    /\ ~testTemplate.deleted
    /\ assignment = None /\ lastId < LastId
    /\ lastId' = lastId + 1
    /\ assignment' = Assigned(lastId')
    /\ notices' = notices \cup {lastId'}
    /\ UNCHANGED <<testTemplate, attempts, requests>>

\* The attempts go with the assignment (ON DELETE CASCADE).
DeleteAssignment ==
    /\ assignment # None
    /\ notices' = notices \ {assignment.id}
    /\ assignment' = None
    /\ attempts' = NoAttempts
    /\ UNCHANGED <<testTemplate, lastId, requests>>

\* The employee leaves the organization; the cascade knows nothing of notifications.
RemoveMember ==
    /\ assignment # None
    /\ assignment' = None
    /\ attempts' = NoAttempts
    /\ UNCHANGED <<testTemplate, lastId, notices, requests>>

(***************************************************************************)
(* The employee                                                            *)
(***************************************************************************)

LoadForStartAttempt(h) ==
    /\ requests[h] = Rest
    /\ assignment # None /\ ~testTemplate.deleted
    /\ ~assignment.passed /\ assignment.used < testTemplate.tries
    /\ OpenAttempts = {}
    /\ requests' = [requests EXCEPT ![h] =
                    [op |-> "start", id |-> assignment.id, status |-> assignment.status,
                     threshold |-> testTemplate.threshold]]
    /\ UNCHANGED tables

\* The foreign key of the attempt.
SameAssignment(r) == assignment # None /\ assignment.id = r.id

\* With the assignment locked: the next number, the questions as they are now, and
\* the threshold of the template as it was loaded.
StartAttempt(h) ==
    LET r == requests[h]
        n == Cardinality(DOMAIN attempts) + 1
    IN
    /\ r.op = "start"
    /\ SameAssignment(r) /\ n <= LastNumber
    /\ attempts' = [k \in DOMAIN attempts \cup {n} |->
                    IF k = n THEN Attempt(r.threshold, testTemplate.questions) ELSE attempts[k]]
    /\ assignment' = [assignment EXCEPT !.status = IF r.status = "assigned" THEN "in_progress" ELSE @]
    /\ requests' = [requests EXCEPT ![h] = Rest]
    /\ UNCHANGED <<testTemplate, lastId, notices>>

LoadForSubmitAttempt(h, n, right) ==
    /\ requests[h] = Rest
    /\ n \in OpenAttempts /\ right \subseteq attempts[n].questions
    /\ \E percent \in Percents(Cardinality(right), Cardinality(attempts[n].questions)) :
        requests' = [requests EXCEPT ![h] =
                     [op |-> "submit", id |-> assignment.id, number |-> n, old |-> assignment,
                      percent |-> percent, tries |-> testTemplate.tries]]
    /\ UNCHANGED tables

\* Mutant: attempts_used is incremented in the database.
UsedCounted(r) == assignment.used + 1

UsedAfter(r) == Written(assignment.used, r.old.used, r.old.used + 1)

\* Mutant: an attempt is judged by the threshold of the template.
PassesNow(r) == r.percent >= testTemplate.threshold

Passes(r) == r.percent >= attempts[r.number].threshold

\* Mutant: the whole row is written.
PassedWhole(r) == r.old.passed \/ Passes(r)

PassedAfter(r) == Written(assignment.passed, r.old.passed, r.old.passed \/ Passes(r))

StatusAfter(r) ==
    Written(assignment.status, r.old.status,
            IF r.old.passed \/ Passes(r) THEN "passed"
            ELSE IF r.old.used + 1 >= r.tries THEN "failed"
            ELSE "in_progress")

\* Columns that equal the copy are not written: the copy of the attempt was open,
\* with no percent, and of the assignment as it was loaded.
SubmitAttempt(h) ==
    LET r == requests[h] IN
    /\ r.op = "submit"
    /\ SameAssignment(r)
    /\ attempts' = [attempts EXCEPT ![r.number].open = FALSE,
                                    ![r.number].percent = Written(@, 0, r.percent),
                                    ![r.number].passed = Written(@, FALSE, Passes(r))]
    /\ assignment' = [assignment EXCEPT
                      !.used = UsedAfter(r),
                      !.best = Written(@, r.old.best, Larger(r.old.best, r.percent)),
                      !.passed = PassedAfter(r),
                      !.status = StatusAfter(r)]
    /\ requests' = [requests EXCEPT ![h] = Rest]
    /\ UNCHANGED <<testTemplate, lastId, notices>>

(***************************************************************************)
(* The specification                                                       *)
(***************************************************************************)

Administer ==
    \/ \E h \in Handlers :
        \/ \E threshold \in Thresholds, tries \in Tries :
            \E questions \in {{q} : q \in Questions} \cup {{}, None} :
                LoadForUpdateTemplate(h, threshold, tries, questions)
        \/ UpdateTemplate(h)
    \/ DeleteTemplate
    \/ RestoreTemplate
    \/ AssignTemplate
    \/ DeleteAssignment
    \/ RemoveMember

TakeTest(h) ==
    \/ LoadForStartAttempt(h)
    \/ StartAttempt(h)
    \/ \E n \in OpenAttempts : \E right \in SUBSET attempts[n].questions :
        LoadForSubmitAttempt(h, n, right)
    \/ SubmitAttempt(h)

Next == Administer \/ \E h \in Handlers : Dies(h) \/ TakeTest(h)

Spec == Init /\ [][Next]_testVars

(***************************************************************************)
(* Properties                                                              *)
(***************************************************************************)

\* Type invariant: every template and every snapshot has a question, so no score
\* is divided by zero, and every assignment was announced to the employee.
TypeOK ==
    /\ testTemplate \in [deleted : BOOLEAN, threshold : Thresholds, tries : Tries,
                     questions : (SUBSET Questions) \ {{}}]
    /\ lastId \in 0 .. LastId /\ notices \subseteq 1 .. lastId
    /\ assignment # None =>
        /\ assignment \in Assignments
        /\ assignment.id = lastId /\ assignment.used <= LastNumber
        /\ assignment.id \in notices
    /\ DOMAIN attempts = 1 .. Cardinality(DOMAIN attempts)
    /\ assignment = None => attempts = NoAttempts
    /\ \A n \in DOMAIN attempts :
        attempts[n] \in [open : BOOLEAN, percent : 0 .. 100, passed : BOOLEAN,
                         threshold : Thresholds, questions : (SUBSET Questions) \ {{}}]

\* A submission that is sent twice, or beside another one, never costs the employee
\* more attempts than were submitted (submit_attempt).
UsedIsEarned == assignment # None => assignment.used <= Cardinality(Submitted)

\* The result in the register and the attempts agree whatever is submitted at once:
\* the assignment is passed exactly when one of its own attempts is, and its status
\* says passed only then.
ResultHasAttempt ==
    assignment # None =>
        /\ assignment.passed = \E n \in Submitted : attempts[n].passed
        /\ assignment.status = "passed" => assignment.passed

\* A change of the template after the start does not change how the attempt is
\* judged (the threshold is a snapshot): what passes reaches its own threshold.
JudgedBySnapshot ==
    [][\A n \in DOMAIN attempts \cap DOMAIN attempts' :
        ~attempts[n].passed /\ attempts'[n].passed
            => attempts'[n].percent >= attempts[n].threshold]_testVars

\* The employee has one attempt open at a time: an open one is handed back instead
\* of a second one (the comment in start_attempt).
OneOpenAttempt == Cardinality(OpenAttempts) <= 1

=============================================================================
