----------------------------- MODULE TestsProofs -----------------------------
(***************************************************************************)
(* Proofs about the employee tests: the attempts used, the result and the  *)
(* judgement of each attempt stay right, for any number of requests that   *)
(* load, commit late, submit an attempt again or outlive the assignment    *)
(* they were made for.                                                     *)
(***************************************************************************)
EXTENDS EmployeeTests, FiniteSetTheorems, TLAPS

(***************************************************************************)
(* The inductive invariant                                                 *)
(***************************************************************************)

QuestionSets == (SUBSET Questions) \ {{}}

Templates == [deleted : BOOLEAN, threshold : Thresholds, tries : Tries, questions : QuestionSets]

Attempts == [open : BOOLEAN, percent : 0 .. 100, passed : BOOLEAN,
             threshold : Thresholds, questions : QuestionSets]

Updates == [op : {"update"}, old : Templates, threshold : Thresholds, tries : Tries,
            questions : QuestionSets \cup {None}]

Starts == [op : {"start"}, id : Nat, status : AssignmentStatus, threshold : Thresholds]

Submissions == [op : {"submit"}, id : Nat, number : Nat, old : Assignments, percent : 0 .. 100,
                tries : Tries]

Requests == Updates \cup Starts \cup Submissions \cup {Rest}

\* The rows; an assignment is the latest one made, and without one there are no attempts.
RowInv ==
    /\ testTemplate \in Templates
    /\ lastId \in Nat
    /\ assignment # None => assignment \in Assignments /\ assignment.id = lastId
    /\ \E n \in Nat : DOMAIN attempts = 1 .. n
    /\ attempts \in [DOMAIN attempts -> Attempts]
    /\ \A n \in DOMAIN attempts : attempts[n].open => ~attempts[n].passed
    /\ assignment = None => DOMAIN attempts = {}

\* A copy of the assignment that is still the same one: it is passed if the copy was, and
\* the copy counts no attempt but those that others have submitted.
StillTrue(r) ==
    /\ r.number \in DOMAIN attempts
    /\ r.old.passed => assignment.passed
    /\ r.old.used <= Cardinality(Submitted \ {r.number})

Fits(r) ==
    /\ r.op \in {"start", "submit"} => r.id <= lastId
    /\ r.op = "submit" /\ SameAssignment(r) => StillTrue(r)

RequestInv ==
    /\ requests \in [Handlers -> Requests]
    /\ \A h \in Handlers : Fits(requests[h])

\* What the two properties say.
ResultInv ==
    assignment # None =>
        /\ assignment.used <= Cardinality(Submitted)
        /\ (assignment.passed <=> \E n \in Submitted : attempts[n].passed)
        /\ assignment.status = "passed" => assignment.passed

IInv == RowInv /\ RequestInv /\ ResultInv

(***************************************************************************)
(* Lemmas                                                                  *)
(***************************************************************************)

LEMMA RequestKinds ==
    /\ Rest \in Requests /\ Rest.op = "rest"
    /\ \A r \in Requests :
        /\ r.op = "update" => r \in Updates
        /\ r.op = "start" => r \in Starts
        /\ r.op = "submit" => r \in Submissions
  BY DEF Requests, Updates, Starts, Submissions, Rest

LEMMA SubmittedIsFinite ==
    ASSUME RowInv
    PROVE  /\ IsFiniteSet(Submitted)
           /\ Cardinality(Submitted) \in Nat
           /\ Submitted \subseteq DOMAIN attempts
<1>1. PICK n \in Nat : DOMAIN attempts = 1 .. n
  BY DEF RowInv
<1>2. IsFiniteSet(DOMAIN attempts)
  BY <1>1, FS_Interval
<1>3. Submitted \subseteq DOMAIN attempts
  BY DEF Submitted
<1>4. IsFiniteSet(Submitted)
  BY <1>2, <1>3, FS_Subset
<1> QED BY <1>3, <1>4, FS_CardinalityType

\* An attempt counts once.
LEMMA CountAdds ==
    ASSUME NEW T, NEW n, IsFiniteSet(T)
    PROVE  Cardinality(T \ {n}) \in Nat /\ Cardinality(T \cup {n}) = Cardinality(T \ {n}) + 1
<1> DEFINE rest == T \ {n}
<1>1. IsFiniteSet(rest)
  BY FS_Subset
<1>2. n \notin rest /\ rest \cup {n} = T \cup {n}
  OBVIOUS
<1> HIDE DEF rest
<1>3. Cardinality(rest \cup {n}) = Cardinality(rest) + 1
  BY <1>1, <1>2, FS_AddElement
<1> QED BY <1>1, <1>2, <1>3, FS_CardinalityType DEF rest

\* A set of submitted attempts that grows counts no less.
LEMMA CountGrows ==
    ASSUME NEW S, NEW T, NEW n, IsFiniteSet(T), S \subseteq T
    PROVE  /\ Cardinality(S \ {n}) <= Cardinality(T \ {n})
           /\ Cardinality(S \ {n}) \in Nat /\ Cardinality(T \ {n}) \in Nat
<1> DEFINE SN == S \ {n}
           TN == T \ {n}
<1>1. SN \subseteq TN /\ TN \subseteq T
  OBVIOUS
<1>2. IsFiniteSet(TN) /\ IsFiniteSet(SN)
  BY <1>1, FS_Subset
<1> HIDE DEF SN, TN
<1>3. Cardinality(SN) <= Cardinality(TN)
  BY <1>1, <1>2, FS_Subset
<1>4. Cardinality(SN) \in Nat /\ Cardinality(TN) \in Nat
  BY <1>2, FS_CardinalityType
<1> QED BY <1>3, <1>4 DEF SN, TN

\* The requests keep fitting when one of them goes on and the tables change so that what
\* fitted before still does.
LEMMA RequestStep ==
    ASSUME RequestInv, NEW h \in Handlers, NEW r \in Requests,
           requests' = [requests EXCEPT ![h] = r], Fits(r)',
           \A q \in Requests : Fits(q) => Fits(q)'
    PROVE  RequestInv'
<1>1. requests' \in [Handlers -> Requests]
  BY DEF RequestInv
<1>2. ASSUME NEW k \in Handlers PROVE Fits(requests[k])'
  <2>1. PICK q \in Requests : requests'[k] = q /\ Fits(q)'
    <3>1. CASE k = h
      BY <3>1 DEF RequestInv
    <3>2. CASE k # h
      BY <3>2 DEF RequestInv
    <3> QED BY <3>1, <3>2
  <2> QED BY <2>1 DEF Fits, StillTrue, SameAssignment
<1> QED BY <1>1, <1>2 DEF RequestInv

\* No request goes on.
LEMMA RequestsStay ==
    ASSUME RequestInv, requests' = requests, \A q \in Requests : Fits(q) => Fits(q)'
    PROVE  RequestInv'
<1>1. ASSUME NEW k \in Handlers PROVE Fits(requests[k])'
  <2>1. PICK q \in Requests : requests'[k] = q /\ Fits(q)'
    BY DEF RequestInv
  <2> QED BY <2>1 DEF Fits, StillTrue, SameAssignment
<1> QED BY <1>1 DEF RequestInv

\* The rows of assignment and attempts stay.
LEMMA SameRows ==
    ASSUME IInv, assignment' = assignment, attempts' = attempts, lastId' = lastId,
           testTemplate' \in Templates
    PROVE  /\ RowInv' /\ ResultInv'
           /\ \A q \in Requests : Fits(q) => Fits(q)'
<1>1. Submitted' = Submitted
  BY DEF Submitted
<1>2. RowInv'
  BY DEF IInv, RowInv
<1>3. ResultInv'
  BY <1>1 DEF IInv, ResultInv
<1>4. ASSUME NEW q \in Requests, Fits(q) PROVE Fits(q)'
  BY <1>1, <1>4 DEF Fits, StillTrue, SameAssignment
<1> QED BY <1>2, <1>3, <1>4

\* A request that reads, or ends without a commit.
LEMMA OnlyRequests ==
    ASSUME IInv, UNCHANGED <<testTemplate, assignment, attempts, lastId>>,
           NEW h \in Handlers, NEW r \in Requests, requests' = [requests EXCEPT ![h] = r],
           Fits(r)
    PROVE  IInv'
<1>1. testTemplate' \in Templates
  BY DEF IInv, RowInv
<1>2. /\ RowInv' /\ ResultInv'
      /\ \A q \in Requests : Fits(q) => Fits(q)'
  BY <1>1, SameRows
<1> QED BY <1>2, RequestStep DEF IInv

\* The assignment goes, or comes with the next id and no attempts.
LEMMA NewRows ==
    ASSUME IInv, testTemplate' = testTemplate, requests' = requests,
           DOMAIN attempts' = {}, attempts' \in [{} -> Attempts],
           \/ assignment' = None /\ lastId' = lastId
           \/ /\ lastId' = lastId + 1
              /\ assignment' = Assigned(lastId')
    PROVE  IInv'
<1>1. lastId \in Nat /\ lastId' \in Nat
  BY DEF IInv, RowInv
<1>2. \/ assignment' = None
      \/ /\ assignment' \in Assignments
         /\ assignment'.id = lastId + 1 /\ lastId' = lastId + 1
         /\ assignment'.used = 0 /\ ~assignment'.passed
         /\ assignment'.status = "assigned"
  <2>1. CASE assignment' = None
    BY <2>1
  <2>2. CASE lastId' = lastId + 1 /\ assignment' = Assigned(lastId')
    BY <1>1, <2>2 DEF Assigned, Assignments, AssignmentStatus
  <2> QED BY <2>1, <2>2
<1>3. Submitted' = {}
  BY DEF Submitted
<1>4. RowInv'
  <2>1. {} = 1 .. 0 /\ 0 \in Nat
    OBVIOUS
  <2> QED BY <1>1, <1>2, <2>1 DEF IInv, RowInv
<1>5. ResultInv'
  <2>1. Cardinality(Submitted') = 0
    BY <1>3, FS_EmptySet
  <2> QED BY <1>2, <1>3, <2>1 DEF ResultInv
<1>6. ASSUME NEW q \in Requests, Fits(q) PROVE Fits(q)'
  <2>1. q.op \in {"start", "submit"} => q.id \in Nat /\ q.id <= lastId
    BY <1>6, RequestKinds DEF Fits, Starts, Submissions
  <2>2. q.op = "submit" => ~(assignment' # None /\ assignment'.id = q.id)
    BY <1>1, <1>2, <2>1
  <2> QED BY <1>1, <1>2, <2>1, <2>2 DEF Fits, SameAssignment
<1> QED BY <1>4, <1>5, <1>6, RequestsStay DEF IInv

\* What IInv says of the result, in the words of the module.
LEMMA IInvSaysResult == IInv => UsedIsEarned /\ ResultHasAttempt
<1> SUFFICES ASSUME IInv, assignment # None
             PROVE  /\ assignment.used <= Cardinality(Submitted)
                    /\ assignment.passed = \E n \in Submitted : attempts[n].passed
                    /\ assignment.status = "passed" => assignment.passed
  BY DEF UsedIsEarned, ResultHasAttempt
<1>1. assignment.passed \in BOOLEAN
  BY DEF IInv, RowInv, Assignments
<1> DEFINE some == \E n \in Submitted : attempts[n].passed
<1>2. some \in BOOLEAN /\ (assignment.passed <=> some)
  BY DEF IInv, ResultInv
<1> HIDE DEF some
<1>3. assignment.passed = some
  BY <1>1, <1>2, Zenon
<1> QED BY <1>3 DEF IInv, ResultInv, some

LEMMA InitIInv == Init => IInv
<1> SUFFICES ASSUME Init PROVE IInv
  OBVIOUS
<1>1. PICK threshold \in Thresholds, tries \in Tries, q \in Questions :
        testTemplate = [deleted |-> FALSE, threshold |-> threshold, tries |-> tries, questions |-> {q}]
  BY DEF Init
<1>2. {q} \in QuestionSets
  BY DEF QuestionSets
<1>3. testTemplate \in Templates
  BY <1>1, <1>2 DEF Templates
<1>4. DOMAIN attempts = {} /\ attempts \in [DOMAIN attempts -> Attempts]
  BY DEF Init, NoAttempts
<1>5. RowInv
  <2>1. {} = 1 .. 0 /\ 0 \in Nat
    OBVIOUS
  <2> QED BY <1>3, <1>4, <2>1 DEF Init, RowInv
<1>6. RequestInv
  BY RequestKinds DEF Init, RequestInv, Fits, Rest
<1> QED BY <1>5, <1>6 DEF Init, IInv, ResultInv

LEMMA KeepDies ==
    ASSUME IInv, NEW h \in Handlers, Dies(h)
    PROVE  IInv'
<1>1. Fits(Rest)
  BY DEF Fits, Rest
<1> QED BY <1>1, RequestKinds, OnlyRequests DEF Dies, tables

LEMMA KeepLoadForUpdate ==
    ASSUME IInv, NEW h \in Handlers, NEW threshold \in Thresholds, NEW tries \in Tries,
           NEW questions \in {{q} : q \in Questions} \cup {{}, None},
           LoadForUpdateTemplate(h, threshold, tries, questions)
    PROVE  IInv'
<1> DEFINE old == [testTemplate EXCEPT !.deleted = FALSE]
           r == [op |-> "update", old |-> old, threshold |-> threshold, tries |-> tries,
                 questions |-> questions]
<1>1. old \in Templates
  BY DEF IInv, RowInv, Templates
<1>2. questions \in QuestionSets \cup {None}
  BY DEF LoadForUpdateTemplate, ValidQuestions, QuestionSets
<1>3. r \in Requests
  BY <1>1, <1>2 DEF Requests, Updates
<1>4. Fits(r)
  BY DEF Fits
<1>5. requests' = [requests EXCEPT ![h] = r] /\ UNCHANGED <<testTemplate, assignment, attempts, lastId>>
  BY DEF LoadForUpdateTemplate, tables
<1> HIDE DEF r
<1> QED BY <1>3, <1>4, <1>5, OnlyRequests

LEMMA KeepUpdateTemplate ==
    ASSUME IInv, NEW h \in Handlers, UpdateTemplate(h)
    PROVE  IInv'
<1> DEFINE r == requests[h]
<1>1. r \in Updates
  BY RequestKinds DEF UpdateTemplate, IInv, RequestInv
<1>2. testTemplate \in Templates
  BY DEF IInv, RowInv
<1> DEFINE written == IF r.questions = None THEN testTemplate.questions
                      ELSE (testTemplate.questions \ r.old.questions) \cup r.questions
<1>3. written \in QuestionSets
  <2>1. CASE r.questions = None
    BY <1>2, <2>1 DEF Templates
  <2>2. CASE r.questions # None
    BY <1>1, <1>2, <2>2 DEF Templates, Updates, QuestionSets
  <2> QED BY <2>1, <2>2
<1> DEFINE threshold == Written(testTemplate.threshold, r.old.threshold, r.threshold)
           tries == Written(testTemplate.tries, r.old.tries, r.tries)
<1>4. threshold \in Thresholds /\ tries \in Tries
  BY <1>1, <1>2 DEF Written, Templates, Updates
<1>5. /\ testTemplate' = [testTemplate EXCEPT !.threshold = threshold, !.tries = tries,
                                              !.questions = written]
      /\ requests' = [requests EXCEPT ![h] = Rest]
      /\ UNCHANGED <<assignment, attempts, lastId>>
  BY DEF UpdateTemplate
<1> HIDE DEF r, written, threshold, tries
<1>6. testTemplate' \in Templates
  BY <1>2, <1>3, <1>4, <1>5 DEF Templates
<1>7. Fits(Rest)'
  BY DEF Fits, Rest
<1>8. /\ RowInv' /\ ResultInv'
      /\ \A q \in Requests : Fits(q) => Fits(q)'
  BY <1>5, <1>6, SameRows
<1> QED BY <1>5, <1>7, <1>8, RequestKinds, RequestStep DEF IInv

LEMMA KeepDeleteOrRestore ==
    ASSUME IInv, DeleteTemplate \/ RestoreTemplate
    PROVE  IInv'
<1>1. testTemplate' \in Templates
  BY DEF DeleteTemplate, RestoreTemplate, IInv, RowInv, Templates
<1>2. UNCHANGED <<assignment, attempts, lastId, requests>>
  BY DEF DeleteTemplate, RestoreTemplate
<1>3. /\ RowInv' /\ ResultInv'
      /\ \A q \in Requests : Fits(q) => Fits(q)'
  BY <1>1, <1>2, SameRows
<1> QED BY <1>2, <1>3, RequestsStay DEF IInv

LEMMA KeepAssignment ==
    ASSUME IInv, AssignTemplate \/ DeleteAssignment \/ RemoveMember
    PROVE  IInv'
<1>1. DOMAIN NoAttempts = {} /\ NoAttempts \in [{} -> Attempts]
  BY DEF NoAttempts
<1>2. CASE AssignTemplate
  <2>1. DOMAIN attempts = {} /\ attempts \in [{} -> Attempts]
    BY <1>2 DEF AssignTemplate, IInv, RowInv
  <2> QED BY <1>2, <2>1, NewRows DEF AssignTemplate
<1>3. CASE DeleteAssignment \/ RemoveMember
  BY <1>1, <1>3, NewRows DEF DeleteAssignment, RemoveMember
<1> QED BY <1>2, <1>3

LEMMA KeepLoadForStart ==
    ASSUME IInv, NEW h \in Handlers, LoadForStartAttempt(h)
    PROVE  IInv'
<1> DEFINE r == [op |-> "start", id |-> assignment.id, status |-> assignment.status,
                 threshold |-> testTemplate.threshold]
<1>1. assignment \in Assignments /\ assignment.id = lastId /\ testTemplate \in Templates
  BY DEF LoadForStartAttempt, IInv, RowInv
<1>2. r \in Starts
  BY <1>1 DEF Starts, Assignments, Templates
<1>3. r \in Requests /\ Fits(r)
  BY <1>1, <1>2 DEF Requests, Fits, Assignments
<1>4. requests' = [requests EXCEPT ![h] = r] /\ UNCHANGED <<testTemplate, assignment, attempts, lastId>>
  BY DEF LoadForStartAttempt, tables
<1> HIDE DEF r
<1> QED BY <1>3, <1>4, OnlyRequests

LEMMA KeepLoadForSubmit ==
    ASSUME IInv, NEW h \in Handlers, NEW n, NEW right, LoadForSubmitAttempt(h, n, right)
    PROVE  IInv'
<1>1. PICK percent \in 0 .. 100 :
        requests' = [requests EXCEPT ![h] =
                     [op |-> "submit", id |-> assignment.id, number |-> n, old |-> assignment,
                      percent |-> percent, tries |-> testTemplate.tries]]
  BY DEF LoadForSubmitAttempt, Percents
<1> DEFINE r == [op |-> "submit", id |-> assignment.id, number |-> n, old |-> assignment,
                 percent |-> percent, tries |-> testTemplate.tries]
<1>2. n \in DOMAIN attempts /\ n \notin Submitted /\ n \in Nat
  BY DEF LoadForSubmitAttempt, OpenAttempts, Submitted, IInv, RowInv
<1>3. assignment \in Assignments /\ assignment.id = lastId /\ testTemplate \in Templates
  BY <1>2 DEF IInv, RowInv
<1>4. r \in Requests
  BY <1>2, <1>3 DEF Requests, Submissions, Assignments, Templates
<1>5. Fits(r)
  <2>1. Submitted \ {n} = Submitted
    BY <1>2
  <2>2. assignment # None
    BY <1>2 DEF IInv, RowInv
  <2>3. StillTrue(r)
    BY <1>2, <2>1, <2>2 DEF StillTrue, IInv, ResultInv
  <2> QED BY <1>3, <2>3 DEF Fits, Assignments
<1>6. requests' = [requests EXCEPT ![h] = r] /\ UNCHANGED <<testTemplate, assignment, attempts, lastId>>
  BY <1>1 DEF LoadForSubmitAttempt, tables
<1> HIDE DEF r
<1> QED BY <1>4, <1>5, <1>6, OnlyRequests

\* What was submitted stays so and the assignment stays passed: the requests keep fitting.
LEMMA MoreSubmitted ==
    ASSUME IInv, lastId' = lastId, assignment # None, assignment' # None,
           assignment'.id = assignment.id, assignment.passed => assignment'.passed,
           DOMAIN attempts \subseteq DOMAIN attempts', Submitted \subseteq Submitted',
           IsFiniteSet(Submitted')
    PROVE  \A q \in Requests : Fits(q) => Fits(q)'
<1> SUFFICES ASSUME NEW q \in Requests, Fits(q) PROVE Fits(q)'
  OBVIOUS
<1>1. CASE q.op = "submit" /\ SameAssignment(q)
  <2>1. q \in Submissions /\ StillTrue(q)
    BY <1>1, RequestKinds DEF Fits
  <2> DEFINE fewer == Cardinality(Submitted \ {q.number})
             more == Cardinality(Submitted' \ {q.number})
  <2>2. fewer <= more /\ fewer \in Nat /\ more \in Nat
    BY CountGrows
  <2>3. q.old.used \in Nat /\ q.old.used <= fewer
    BY <2>1 DEF StillTrue, Submissions, Assignments
  <2> HIDE DEF fewer, more
  <2>4. q.old.used <= more
    BY <2>2, <2>3
  <2>5. StillTrue(q)'
    BY <2>1, <2>4 DEF StillTrue, more
  <2> QED BY <2>5 DEF Fits
<1>2. CASE ~(q.op = "submit" /\ SameAssignment(q))
  BY <1>2 DEF Fits, SameAssignment
<1> QED BY <1>1, <1>2

LEMMA KeepStart ==
    ASSUME IInv, None \notin Assignments, NEW h \in Handlers, StartAttempt(h)
    PROVE  IInv'
<1> DEFINE r == requests[h]
           n == Cardinality(DOMAIN attempts) + 1
           fresh == Attempt(r.threshold, testTemplate.questions)
<1>1. r \in Starts /\ assignment \in Assignments /\ assignment # None
  BY RequestKinds DEF StartAttempt, SameAssignment, IInv, RequestInv, RowInv
<1>2. PICK m \in Nat : DOMAIN attempts = 1 .. m
  BY DEF IInv, RowInv
<1>3. n = m + 1
  <2>1. Cardinality(1 .. m) = m
    BY FS_Interval
  <2> QED BY <1>2, <2>1
<1>4. fresh \in Attempts /\ fresh.open /\ ~fresh.passed
  BY <1>1 DEF Attempt, Attempts, Starts, IInv, RowInv, Templates
<1>5. attempts' = [k \in DOMAIN attempts \cup {n} |-> IF k = n THEN fresh ELSE attempts[k]]
  BY DEF StartAttempt
<1> DEFINE status == IF r.status = "assigned" THEN "in_progress" ELSE assignment.status
<1>6. /\ assignment' = [assignment EXCEPT !.status = status]
      /\ requests' = [requests EXCEPT ![h] = Rest]
      /\ testTemplate' = testTemplate /\ lastId' = lastId
  BY DEF StartAttempt
<1>7. status \in AssignmentStatus /\ (status = "passed" => assignment.status = "passed")
  BY <1>1 DEF AssignmentStatus, Assignments
<1> HIDE DEF r, n, fresh, status
<1>8. /\ DOMAIN attempts' = 1 .. m + 1 /\ m + 1 \in Nat /\ n \notin DOMAIN attempts
      /\ DOMAIN attempts' = DOMAIN attempts \cup {n}
      /\ \A k \in DOMAIN attempts : attempts'[k] = attempts[k]
      /\ attempts'[n] = fresh
  BY <1>2, <1>3, <1>5
<1>9. attempts' \in [DOMAIN attempts' -> Attempts]
  BY <1>4, <1>5, <1>8 DEF IInv, RowInv
<1>10. Submitted' = Submitted
  BY <1>4, <1>8 DEF Submitted
<1>11. /\ assignment' \in Assignments
       /\ assignment'.id = assignment.id /\ assignment'.used = assignment.used
       /\ assignment'.passed = assignment.passed /\ assignment'.status = status
  BY <1>1, <1>6, <1>7 DEF Assignments
<1>12. RowInv'
  <2>1. \A k \in DOMAIN attempts' : attempts'[k].open => ~attempts'[k].passed
    BY <1>4, <1>8 DEF IInv, RowInv
  <2>2. assignment' = None => DOMAIN attempts' = {}
    BY <1>11
  <2> QED BY <1>1, <1>6, <1>8, <1>9, <1>11, <2>1, <2>2 DEF IInv, RowInv
<1>13. ResultInv'
  <2>1. \A k \in Submitted : k \in DOMAIN attempts
    BY DEF Submitted
  <2>2. \A k \in Submitted : attempts'[k].passed <=> attempts[k].passed
    BY <1>8, <2>1
  <2>3. status = "passed" => assignment.passed
    BY <1>1, <1>7 DEF IInv, ResultInv
  <2> QED BY <1>1, <1>10, <1>11, <2>2, <2>3 DEF IInv, ResultInv
<1>14. \A q \in Requests : Fits(q) => Fits(q)'
  <2>1. IsFiniteSet(Submitted')
    BY <1>10, SubmittedIsFinite DEF IInv
  <2>2. assignment' # None
    BY <1>11
  <2> QED BY <1>1, <1>6, <1>8, <1>10, <1>11, <2>1, <2>2, MoreSubmitted
<1>15. Fits(Rest)'
  BY DEF Fits, Rest
<1> QED BY <1>6, <1>12, <1>13, <1>14, <1>15, RequestKinds, RequestStep DEF IInv

\* What the commit of a submission writes, column by column.
LEMMA Submits ==
    ASSUME IInv, None \notin Assignments, NEW h \in Handlers, SubmitAttempt(h)
    PROVE  LET r == requests[h]
               n == r.number
           IN
           /\ r \in Submissions /\ StillTrue(r)
           /\ assignment # None /\ assignment \in Assignments
           /\ requests' = [requests EXCEPT ![h] = Rest]
           /\ testTemplate' = testTemplate /\ lastId' = lastId
           /\ attempts' \in [DOMAIN attempts -> Attempts]
           /\ \A k \in DOMAIN attempts \ {n} : attempts'[k] = attempts[k]
           /\ ~attempts'[n].open /\ attempts'[n].threshold = attempts[n].threshold
           /\ (attempts'[n].passed <=> (Passes(r) \/ attempts[n].passed))
           /\ attempts'[n].percent = (IF r.percent = 0 THEN attempts[n].percent ELSE r.percent)
           /\ assignment' \in Assignments /\ assignment'.id = assignment.id
           /\ assignment'.used = r.old.used + 1
           /\ (assignment'.passed <=> (assignment.passed \/ (Passes(r) /\ ~r.old.passed)))
           /\ assignment'.status = "passed" =>
                assignment.status = "passed" \/ r.old.passed \/ Passes(r)
<1> DEFINE r == requests[h]
           n == r.number
           a == attempts[n]
           percent == Written(a.percent, 0, r.percent)
           passed == Written(a.passed, FALSE, Passes(r))
           closed == [a EXCEPT !.open = FALSE, !.percent = percent, !.passed = passed]
           best == Written(assignment.best, r.old.best, Larger(r.old.best, r.percent))
           used == UsedAfter(r)
           won == PassedAfter(r)
           status == StatusAfter(r)
<1>1. r \in Submissions /\ SameAssignment(r)
  BY RequestKinds DEF SubmitAttempt, IInv, RequestInv
<1>2. StillTrue(r) /\ n \in DOMAIN attempts
  BY <1>1, RequestKinds DEF IInv, RequestInv, Fits, StillTrue, Submissions
<1>3. assignment # None /\ assignment \in Assignments /\ a \in Attempts /\ r.old \in Assignments
  BY <1>1, <1>2 DEF SameAssignment, IInv, RowInv, Submissions
<1>4. /\ attempts' = [attempts EXCEPT ![n] = closed]
      /\ assignment' = [assignment EXCEPT !.used = used, !.best = best, !.passed = won, !.status = status]
      /\ requests' = [requests EXCEPT ![h] = Rest]
      /\ testTemplate' = testTemplate /\ lastId' = lastId
  <2>1. attempts' = [attempts EXCEPT ![n] = closed]
    BY <1>2, Zenon DEF SubmitAttempt
  <2> QED BY <2>1, Zenon DEF SubmitAttempt
<1>5. r.percent \in 0 .. 100 /\ r.old.used \in Nat /\ r.old.passed \in BOOLEAN
  BY <1>1, <1>3 DEF Submissions, Assignments
<1>6. Passes(r) \in BOOLEAN
  BY DEF Passes
<1>7. /\ percent \in 0 .. 100
      /\ percent = (IF r.percent = 0 THEN a.percent ELSE r.percent)
  BY <1>3, <1>5 DEF Written, Attempts
<1>8. passed \in BOOLEAN /\ (passed <=> (Passes(r) \/ a.passed))
  <2>1. CASE Passes(r)
    BY <2>1 DEF Written
  <2>2. CASE ~Passes(r)
    <3>1. Passes(r) = FALSE
      BY <1>6, <2>2
    <3> QED BY <1>3, <2>2, <3>1 DEF Written, Attempts
  <2> QED BY <2>1, <2>2
<1>9. used = r.old.used + 1
  BY <1>5 DEF UsedAfter, Written
<1>10. won \in BOOLEAN /\ (won <=> (assignment.passed \/ (Passes(r) /\ ~r.old.passed)))
  <2> DEFINE after == r.old.passed \/ Passes(r)
  <2>1. won = Written(assignment.passed, r.old.passed, after)
    BY DEF PassedAfter
  <2>2. CASE Passes(r) /\ ~r.old.passed
    <3>1. after = TRUE /\ r.old.passed = FALSE
      BY <1>5, <2>2
    <3> QED BY <2>1, <2>2, <3>1 DEF Written
  <2>3. CASE ~(Passes(r) /\ ~r.old.passed)
    <3>1. after = r.old.passed
      BY <1>5, <1>6, <2>3
    <3> HIDE DEF after
    <3>2. won = assignment.passed
      BY <2>1, <3>1 DEF Written
    <3> QED BY <1>3, <2>3, <3>2 DEF Assignments
  <2> QED BY <2>2, <2>3
<1>11. best \in (0 .. 100) \cup {None}
  <2>1. Larger(r.old.best, r.percent) \in (0 .. 100) \cup {None}
    BY <1>3, <1>5 DEF Larger, Assignments
  <2> QED BY <1>3, <2>1 DEF Written, Assignments
<1>12. /\ status \in AssignmentStatus
       /\ status = "passed" => assignment.status = "passed" \/ r.old.passed \/ Passes(r)
  <2> DEFINE new == IF r.old.passed \/ Passes(r) THEN "passed"
                    ELSE IF r.old.used + 1 >= r.tries THEN "failed" ELSE "in_progress"
  <2>1. /\ new \in AssignmentStatus
        /\ new = "passed" => r.old.passed \/ Passes(r)
    BY DEF AssignmentStatus
  <2>2. status = Written(assignment.status, r.old.status, new)
    BY DEF StatusAfter
  <2> HIDE DEF new, status
  <2> QED BY <1>3, <2>1, <2>2 DEF Written, Assignments
<1> HIDE DEF percent, passed, best, used, won, status
<1>13. /\ closed \in Attempts /\ ~closed.open /\ closed.threshold = a.threshold
       /\ closed.passed = passed /\ closed.percent = percent
  BY <1>3, <1>7, <1>8 DEF Attempts
<1>14. /\ assignment' \in Assignments /\ assignment'.id = assignment.id
       /\ assignment'.used = used /\ assignment'.passed = won /\ assignment'.status = status
  <2>1. used \in Nat
    BY <1>5, <1>9
  <2> DEFINE edited == [assignment EXCEPT !.used = used, !.best = best, !.passed = won, !.status = status]
  <2>2. assignment' = edited
    BY <1>4
  <2>3. /\ edited \in Assignments /\ edited.id = assignment.id
        /\ edited.used = used /\ edited.passed = won /\ edited.status = status
    BY <1>3, <1>10, <1>11, <1>12, <2>1 DEF Assignments
  <2> HIDE DEF edited
  <2> QED BY <2>2, <2>3
<1> HIDE DEF closed
<1>15. /\ attempts' \in [DOMAIN attempts -> Attempts] /\ attempts'[n] = closed
       /\ \A k \in DOMAIN attempts \ {n} : attempts'[k] = attempts[k]
  BY <1>2, <1>4, <1>13 DEF IInv, RowInv
<1> HIDE DEF r, a
<1>16. /\ (attempts'[n].passed <=> (Passes(r) \/ a.passed))
       /\ attempts'[n].percent = (IF r.percent = 0 THEN a.percent ELSE r.percent)
       /\ (assignment'.passed <=> (assignment.passed \/ (Passes(r) /\ ~r.old.passed)))
  BY <1>7, <1>8, <1>10, <1>13, <1>14, <1>15
<1> QED BY <1>1, <1>2, <1>3, <1>4, <1>9, <1>12, <1>13, <1>14, <1>15, <1>16 DEF r, a

LEMMA KeepSubmit ==
    ASSUME IInv, None \notin Assignments, NEW h \in Handlers, SubmitAttempt(h)
    PROVE  IInv'
<1> DEFINE r == requests[h]
           n == r.number
           won == Passes(r)
<1>1. /\ r \in Submissions /\ StillTrue(r)
      /\ assignment # None /\ assignment \in Assignments
      /\ requests' = [requests EXCEPT ![h] = Rest]
      /\ testTemplate' = testTemplate /\ lastId' = lastId
  BY Submits
<1>2. /\ attempts' \in [DOMAIN attempts -> Attempts]
      /\ \A k \in DOMAIN attempts \ {n} : attempts'[k] = attempts[k]
      /\ ~attempts'[n].open /\ (attempts'[n].passed <=> (won \/ attempts[n].passed))
  BY Submits
<1>3. /\ assignment' \in Assignments /\ assignment'.id = assignment.id
      /\ assignment'.used = r.old.used + 1
      /\ (assignment'.passed <=> (assignment.passed \/ (won /\ ~r.old.passed)))
      /\ (assignment'.status = "passed" =>
            assignment.status = "passed" \/ r.old.passed \/ won)
  BY Submits
<1> HIDE DEF won
<1>4. /\ n \in DOMAIN attempts /\ (r.old.passed => assignment.passed)
      /\ r.old.used <= Cardinality(Submitted \ {n}) /\ r.old.used \in Nat
  BY <1>1 DEF StillTrue, Submissions, Assignments
<1> HIDE DEF r, n
<1>5. DOMAIN attempts' = DOMAIN attempts /\ Submitted' = Submitted \cup {n}
  BY <1>2, <1>4 DEF Submitted
<1>6. IsFiniteSet(Submitted) /\ IsFiniteSet(Submitted') /\ Submitted \subseteq Submitted'
  <2>1. IsFiniteSet(Submitted)
    BY SubmittedIsFinite DEF IInv
  <2> QED BY <1>5, <2>1, FS_AddElement
<1>7. assignment'.used <= Cardinality(Submitted')
  <2> DEFINE rest == Cardinality(Submitted \ {n})
  <2>1. rest \in Nat /\ Cardinality(Submitted \cup {n}) = rest + 1
    <3>1. IsFiniteSet(Submitted)
      BY <1>6
    <3> QED BY <3>1, CountAdds
  <2>2. r.old.used <= rest
    BY <1>4
  <2> HIDE DEF rest
  <2>3. r.old.used + 1 <= rest + 1
    BY <1>4, <2>1, <2>2
  <2> QED BY <1>3, <1>5, <2>1, <2>3
<1>8. assignment'.passed <=> \E k \in Submitted' : attempts'[k].passed
  <2>1. attempts[n].passed => n \in Submitted
    BY <1>4 DEF Submitted, IInv, RowInv
  <2>2. \A k \in Submitted \ {n} : attempts'[k] = attempts[k]
    BY <1>2 DEF Submitted
  <2>3. assignment.passed <=> \E k \in Submitted : attempts[k].passed
    BY <1>1 DEF IInv, ResultInv
  <2>4. assignment'.passed <=> assignment.passed \/ won
    BY <1>3, <1>4
  <2>5. CASE won
    BY <1>2, <1>5, <2>4, <2>5
  <2>6. CASE ~won
    <3>1. \A k \in Submitted : attempts'[k].passed <=> attempts[k].passed
      BY <1>2, <2>2, <2>6
    <3>2. (\E k \in Submitted' : attempts'[k].passed) <=> \E k \in Submitted : attempts[k].passed
      BY <1>2, <1>5, <2>1, <2>6, <3>1
    <3> QED BY <2>3, <2>4, <2>6, <3>2
  <2> QED BY <2>5, <2>6
<1>9. assignment'.status = "passed" => assignment'.passed
  BY <1>1, <1>3, <1>4 DEF IInv, ResultInv
<1>10. ResultInv'
  BY <1>7, <1>8, <1>9 DEF ResultInv
<1>11. assignment' # None
  BY <1>3
<1>12. RowInv'
  <2>1. \A k \in DOMAIN attempts' : attempts'[k].open => ~attempts'[k].passed
    BY <1>2, <1>5 DEF IInv, RowInv
  <2> QED BY <1>1, <1>2, <1>3, <1>5, <1>11, <2>1 DEF IInv, RowInv
<1>13. \A q \in Requests : Fits(q) => Fits(q)'
  BY <1>1, <1>3, <1>5, <1>6, <1>11, MoreSubmitted
<1>14. Fits(Rest)'
  BY DEF Fits, Rest
<1> QED BY <1>1, <1>10, <1>12, <1>13, <1>14, RequestKinds, RequestStep DEF IInv

LEMMA NextIInv ==
    ASSUME IInv, None \notin Assignments, [Next]_testVars
    PROVE  IInv'
<1>1. CASE UNCHANGED testVars
  <2>1. /\ UNCHANGED <<assignment, attempts, lastId, requests>>
        /\ testTemplate' \in Templates
    BY <1>1 DEF testVars, tables, IInv, RowInv
  <2>2. /\ RowInv' /\ ResultInv'
        /\ \A q \in Requests : Fits(q) => Fits(q)'
    BY <2>1, SameRows
  <2> QED BY <2>1, <2>2, RequestsStay DEF IInv
<1>2. CASE Administer
  BY <1>2, KeepLoadForUpdate, KeepUpdateTemplate, KeepDeleteOrRestore, KeepAssignment DEF Administer
<1>3. ASSUME NEW h \in Handlers, Dies(h) \/ TakeTest(h) PROVE IInv'
  BY <1>3, KeepDies, KeepLoadForStart, KeepStart, KeepLoadForSubmit, KeepSubmit DEF TakeTest
<1> QED BY <1>1, <1>2, <1>3 DEF Next

\* An attempt that comes to be passed reached the threshold it was started with.
Judged ==
    \A k \in DOMAIN attempts \cap DOMAIN attempts' :
        ~attempts[k].passed /\ attempts'[k].passed
            => attempts'[k].percent >= attempts[k].threshold

LEMMA NextJudges ==
    ASSUME IInv, None \notin Assignments, Thresholds \subseteq Int, [Next]_testVars
    PROVE  Judged
<1>1. CASE attempts' = attempts
  BY <1>1 DEF Judged
<1>2. CASE DeleteAssignment \/ RemoveMember
  BY <1>2 DEF DeleteAssignment, RemoveMember, NoAttempts, Judged
<1>3. ASSUME NEW h \in Handlers, StartAttempt(h) PROVE Judged
  <2> DEFINE n == Cardinality(DOMAIN attempts) + 1
             fresh == Attempt(requests[h].threshold, testTemplate.questions)
  <2>1. attempts' = [k \in DOMAIN attempts \cup {n} |-> IF k = n THEN fresh ELSE attempts[k]]
    BY <1>3 DEF StartAttempt
  <2>2. ~fresh.passed
    BY DEF Attempt
  <2> HIDE DEF n, fresh
  <2> QED BY <2>1, <2>2 DEF Judged
<1>4. ASSUME NEW h \in Handlers, SubmitAttempt(h) PROVE Judged
  <2> DEFINE r == requests[h]
             n == r.number
  <2>1. /\ r \in Submissions /\ StillTrue(r)
        /\ \A k \in DOMAIN attempts \ {n} : attempts'[k] = attempts[k]
        /\ (attempts'[n].passed <=> (Passes(r) \/ attempts[n].passed))
        /\ attempts'[n].percent = (IF r.percent = 0 THEN attempts[n].percent ELSE r.percent)
    BY <1>4, Submits
  <2>2. n \in DOMAIN attempts /\ attempts[n] \in Attempts /\ r.percent \in 0 .. 100
    BY <2>1 DEF StillTrue, Submissions, IInv, RowInv
  <2>3. attempts[n].threshold \in Int /\ attempts[n].percent \in 0 .. 100
    BY <2>2 DEF Attempts
  <2>4. Passes(r) => attempts'[n].percent >= attempts[n].threshold
    BY <2>1, <2>2, <2>3 DEF Passes
  <2> HIDE DEF n
  <2> QED BY <2>1, <2>4 DEF Judged
<1> QED
  <2>1. attempts' = attempts \/ DeleteAssignment \/ RemoveMember
        \/ \E h \in Handlers : StartAttempt(h) \/ SubmitAttempt(h)
    BY Zenon DEF Next, Administer, TakeTest, Dies, LoadForUpdateTemplate, UpdateTemplate, DeleteTemplate,
                 RestoreTemplate, AssignTemplate, LoadForStartAttempt, LoadForSubmitAttempt, testVars, tables
  <2> QED BY <1>1, <1>2, <1>3, <1>4, <2>1

(***************************************************************************)
(* The bounds                                                              *)
(***************************************************************************)

\* The type invariant beyond RowInv: every assignment has its notification, and the
\* numbers stay within their bounds.
BoundInv ==
    /\ lastId <= LastId /\ notices \subseteq 1 .. lastId
    /\ assignment # None => assignment.id \in notices
    /\ \A n \in DOMAIN attempts : n <= LastNumber

LEMMA NextBoundInv ==
    ASSUME IInv, BoundInv, None \notin Assignments, LastId \in Nat, LastNumber \in Nat,
           [Next]_testVars
    PROVE  BoundInv'
<1>1. lastId \in Nat
  BY DEF IInv, RowInv
<1>2. CASE UNCHANGED <<assignment, attempts, lastId, notices>>
  BY <1>2 DEF BoundInv
<1>3. CASE AssignTemplate
  <2>1. /\ lastId < LastId /\ lastId' = lastId + 1 /\ notices' = notices \cup {lastId'}
        /\ assignment' = Assigned(lastId') /\ attempts' = attempts
    BY <1>3 DEF AssignTemplate
  <2>2. assignment'.id = lastId'
    BY <2>1 DEF Assigned
  <2>3. lastId' <= LastId /\ lastId' \in 1 .. lastId' /\ 1 .. lastId \subseteq 1 .. lastId'
    BY <1>1, <2>1
  <2> QED BY <2>1, <2>2, <2>3 DEF BoundInv
<1>4. CASE DeleteAssignment \/ RemoveMember
  BY <1>4 DEF DeleteAssignment, RemoveMember, NoAttempts, BoundInv
<1>5. ASSUME NEW h \in Handlers, StartAttempt(h) PROVE BoundInv'
  <2> DEFINE n == Cardinality(DOMAIN attempts) + 1
             status == IF requests[h].status = "assigned" THEN "in_progress" ELSE assignment.status
  <2>1. /\ n <= LastNumber /\ DOMAIN attempts' = DOMAIN attempts \cup {n}
        /\ assignment # None /\ assignment' = [assignment EXCEPT !.status = status]
        /\ UNCHANGED <<lastId, notices>>
    BY <1>5 DEF StartAttempt, SameAssignment
  <2>2. assignment \in Assignments
    BY <2>1 DEF IInv, RowInv
  <2> HIDE DEF n, status
  <2>3. assignment'.id = assignment.id
    BY <2>1, <2>2 DEF Assignments
  <2> QED BY <2>1, <2>3 DEF BoundInv
<1>6. ASSUME NEW h \in Handlers, SubmitAttempt(h) PROVE BoundInv'
  <2>1. /\ assignment # None /\ assignment'.id = assignment.id /\ lastId' = lastId
        /\ attempts' \in [DOMAIN attempts -> Attempts]
    BY <1>6, Submits
  <2>2. notices' = notices
    BY <1>6 DEF SubmitAttempt
  <2> QED BY <2>1, <2>2 DEF BoundInv
<1> QED
  <2>1. \/ UNCHANGED <<assignment, attempts, lastId, notices>>
        \/ AssignTemplate \/ DeleteAssignment \/ RemoveMember
        \/ \E h \in Handlers : StartAttempt(h) \/ SubmitAttempt(h)
    BY Zenon DEF Next, Administer, TakeTest, Dies, LoadForUpdateTemplate, UpdateTemplate, DeleteTemplate,
                 RestoreTemplate, LoadForStartAttempt, LoadForSubmitAttempt, testVars, tables
  <2> QED BY <1>2, <1>3, <1>4, <1>5, <1>6, <2>1

LEMMA InitBoundInv ==
    ASSUME Init, LastId \in Nat
    PROVE  BoundInv
BY DEF Init, NoAttempts, BoundInv

LEMMA BoundInvSaysTyped ==
    ASSUME IInv, BoundInv, LastNumber \in Nat
    PROVE  TypeOK
<1>1. PICK m \in Nat : DOMAIN attempts = 1 .. m
  BY DEF IInv, RowInv
<1>2. Cardinality(DOMAIN attempts) = m /\ IsFiniteSet(DOMAIN attempts)
  BY <1>1, FS_Interval
<1>3. m <= LastNumber
  BY <1>1 DEF BoundInv
<1>4. ASSUME assignment # None PROVE assignment.used <= LastNumber
  <2>1. Submitted \subseteq DOMAIN attempts /\ Cardinality(Submitted) \in Nat
    BY SubmittedIsFinite DEF IInv
  <2> DEFINE S == Submitted
             T == DOMAIN attempts
  <2>2. S \subseteq T /\ IsFiniteSet(T)
    BY <1>2, <2>1
  <2> HIDE DEF S, T
  <2>3. Cardinality(S) <= Cardinality(T)
    BY <2>2, FS_Subset
  <2>4. assignment.used \in Nat /\ assignment.used <= Cardinality(Submitted)
    BY <1>4 DEF IInv, RowInv, ResultInv, Assignments
  <2> QED BY <1>2, <1>3, <2>1, <2>3, <2>4 DEF S, T
<1>5. ASSUME assignment = None PROVE attempts = NoAttempts
  <2>1. DOMAIN attempts = {} /\ attempts \in [{} -> Attempts]
    BY <1>5 DEF IInv, RowInv
  <2> QED BY <2>1 DEF NoAttempts
<1>6. lastId \in 0 .. LastId
  BY DEF IInv, RowInv, BoundInv
<1>7. testTemplate \in Templates /\ attempts \in [DOMAIN attempts -> Attempts]
  BY DEF IInv, RowInv
<1>8. assignment # None => /\ assignment \in Assignments /\ assignment.id = lastId
                           /\ assignment.id \in notices
  BY DEF IInv, RowInv, BoundInv
<1>9. notices \subseteq 1 .. lastId
  BY DEF BoundInv
<1> QED BY <1>1, <1>2, <1>4, <1>5, <1>6, <1>7, <1>8, <1>9
           DEF TypeOK, Templates, Attempts, QuestionSets

=============================================================================
