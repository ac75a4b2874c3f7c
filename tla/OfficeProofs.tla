----------------------------- MODULE OfficeProofs -----------------------------
(***************************************************************************)
(* What is proved of a part of the office holds of the office: the part    *)
(* moves alone, or rests.                                                  *)
(***************************************************************************)
EXTENDS FilesProofs, FiniteSetTheorems, SequenceTheorems, WellFoundedInduction

ProvedTests == INSTANCE TestsProofs

(***************************************************************************)
(* Overtime requests                                                       *)
(***************************************************************************)

\* What a handler can be in the middle of.
Call ==
    [op : {"rest", "create"}]
    \cup [op : {"delete"}, row : Nat]
    \cup [op : {"review"}, row : Nat, verdict : {"approved", "rejected"}]

AskedInv ==
    /\ overtime \in Seq(Overtimes!Status \cup {"withdrawn"})
    /\ calls \in [Handlers -> Call]

\* The strengthening: OneLiveRequest without its cardinalities.
LiveInv == \A p, q \in Overtimes!Live : p = q

OneLiveInv == AskedInv /\ LiveInv

\* A set any two members of which are equal has one member at most.
LEMMA AtMostOne ==
    ASSUME NEW S, \A p, q \in S : p = q
    PROVE  Cardinality(S) <= 1
<1>1. CASE S = {}
  BY <1>1, FS_EmptySet
<1>2. CASE S # {}
  <2>1. PICK x \in S : TRUE
    BY <1>2
  <2>2. S = {x}
    BY <2>1
  <2> QED
    BY <2>2, FS_Singleton
<1> QED BY <1>1, <1>2

\* Writing the status of one request, if it is there, gives requests again.
LEMMA StatusWritten ==
    ASSUME NEW S, NEW s \in Seq(S), NEW i \in Nat, NEW e \in S
    PROVE  [s EXCEPT ![i] = e] \in Seq(S)
<1>1. CASE i \in 1 .. Len(s)
  BY <1>1, ExceptSeq
<1>2. CASE i \notin 1 .. Len(s)
  <2>1. s = [j \in DOMAIN s |-> s[j]] /\ DOMAIN s = 1 .. Len(s)
    OBVIOUS
  <2>2. [s EXCEPT ![i] = e] = s
    BY <1>2, <2>1
  <2> QED BY <2>2
<1> QED BY <1>1, <1>2

\* The requests that count against the index are those that were not rejected.
LEMMA LiveIsNotRejected ==
    ASSUME AskedInv
    PROVE  {r \in Overtimes!Rows : overtime[r] # "rejected"} = Overtimes!Live
BY DEF AskedInv, Overtimes!Live, Overtimes!Rows, Overtimes!Status

\* A step that makes no request live keeps the requests that are live alone.
LEMMA FewerLive ==
    ASSUME LiveInv, Overtimes!Live' \subseteq Overtimes!Live
    PROVE  LiveInv'
BY DEF LiveInv

LEMMA InitOneLive == Overtimes!Init => OneLiveInv
<1> SUFFICES ASSUME Overtimes!Init PROVE OneLiveInv
  OBVIOUS
<1>1. AskedInv
  BY DEF Overtimes!Init, AskedInv, Call, Overtimes!Rest
<1>2. Overtimes!Live = {}
  BY DEF Overtimes!Init, Overtimes!Live, Overtimes!Rows
<1> QED BY <1>1, <1>2 DEF OneLiveInv, LiveInv

\* What a handler that goes on, dies or comes to an end holds stays a call.
LEMMA CallsStayTyped ==
    ASSUME AskedInv, NEW h \in Handlers, NEW c \in Call, calls' = [calls EXCEPT ![h] = c]
    PROVE  calls' \in [Handlers -> Call]
BY DEF AskedInv

\* Where no request changes, the live ones are the same.
LEMMA SameRequests ==
    ASSUME LiveInv, UNCHANGED overtime
    PROVE  LiveInv'
BY DEF LiveInv, Overtimes!Live, Overtimes!Rows

\* A request is inserted only when none is live, which the index checks at the INSERT
\* and not where the handler looked.
LEMMA CreateKeepsOne ==
    ASSUME OneLiveInv, NEW h \in Handlers, Overtimes!CreateOvertimeRequest(h)
    PROVE  OneLiveInv'
<1>1. overtime' = Append(overtime, "pending") /\ Overtimes!Live = {}
  BY DEF Overtimes!CreateOvertimeRequest
<1>2. overtime' \in Seq(Overtimes!Status \cup {"withdrawn"})
  BY <1>1 DEF OneLiveInv, AskedInv, Overtimes!Status
<1>3. calls' \in [Handlers -> Call]
  BY CallsStayTyped DEF Overtimes!CreateOvertimeRequest, OneLiveInv, Call, Overtimes!Rest
<1>4. Overtimes!Live' \subseteq {Len(overtime) + 1}
  <2> SUFFICES ASSUME NEW r \in Overtimes!Live', r # Len(overtime) + 1 PROVE FALSE
    OBVIOUS
  <2>1. r \in DOMAIN overtime /\ overtime'[r] = overtime[r]
    BY <1>1 DEF Overtimes!Live, Overtimes!Rows, OneLiveInv, AskedInv
  <2>2. r \in Overtimes!Live
    BY <2>1 DEF Overtimes!Live, Overtimes!Rows
  <2> QED BY <1>1, <2>2
<1>5. LiveInv'
  BY <1>4 DEF LiveInv
<1> QED BY <1>2, <1>3, <1>5 DEF OneLiveInv, AskedInv

\* A request that is withdrawn, reviewed or not, is no longer live.
LEMMA DeleteKeepsOne ==
    ASSUME OneLiveInv, NEW h \in Handlers, Overtimes!DeleteOwnOvertimeRequest(h)
    PROVE  OneLiveInv'
<1>1. overtime' = [overtime EXCEPT ![calls[h].row] = "withdrawn"]
  BY DEF Overtimes!DeleteOwnOvertimeRequest
<1>2. overtime' \in Seq(Overtimes!Status \cup {"withdrawn"})
  <2>1. calls[h].row \in Nat
    BY DEF Overtimes!DeleteOwnOvertimeRequest, OneLiveInv, AskedInv, Call
  <2> QED BY <1>1, <2>1, StatusWritten DEF OneLiveInv, AskedInv
<1>3. calls' \in [Handlers -> Call]
  BY CallsStayTyped DEF Overtimes!DeleteOwnOvertimeRequest, OneLiveInv, Call, Overtimes!Rest
<1>4. Overtimes!Live' \subseteq Overtimes!Live
  BY <1>1 DEF Overtimes!Live, Overtimes!Rows, OneLiveInv, AskedInv
<1> QED BY <1>2, <1>3, <1>4, FewerLive DEF OneLiveInv, AskedInv

\* A review approves only the request that is live, or one beside which none is: the
\* index refuses the UPDATE that would revive a request beside another.
LEMMA ReviewKeepsOne ==
    ASSUME OneLiveInv, NEW h \in Handlers, Overtimes!ReviewOvertimeRequest(h)
    PROVE  OneLiveInv'
<1> DEFINE c == calls[h]
<1>1. c \in Call /\ c.op = "review" /\ c.row \in Overtimes!Rows
  BY DEF Overtimes!ReviewOvertimeRequest, OneLiveInv, AskedInv
<1>2. c.verdict \in {"approved", "rejected"}
  BY <1>1 DEF Call
<1>3. overtime' = [overtime EXCEPT ![c.row] = c.verdict]
  BY <1>2 DEF Overtimes!ReviewOvertimeRequest, Overtimes!Written
<1>4. overtime' \in Seq(Overtimes!Status \cup {"withdrawn"})
  <2>1. c.row \in Nat
    BY <1>1 DEF Call
  <2>2. c.verdict \in Overtimes!Status \cup {"withdrawn"}
    BY <1>2 DEF Overtimes!Status
  <2> QED BY <1>3, <2>1, <2>2, StatusWritten DEF OneLiveInv, AskedInv
<1>5. calls' \in [Handlers -> Call]
  BY CallsStayTyped DEF Overtimes!ReviewOvertimeRequest, OneLiveInv, Call, Overtimes!Rest
<1>6. CASE c.verdict = "approved"
  <2>1. Overtimes!Live \subseteq {c.row}
    BY <1>6 DEF Overtimes!ReviewOvertimeRequest
  <2>2. Overtimes!Live' \subseteq {c.row}
    BY <2>1, <1>3 DEF Overtimes!Live, Overtimes!Rows, OneLiveInv, AskedInv
  <2> QED BY <2>2, <1>4, <1>5 DEF OneLiveInv, AskedInv, LiveInv
<1>7. CASE c.verdict = "rejected"
  <2>1. Overtimes!Live' \subseteq Overtimes!Live
    BY <1>7, <1>3 DEF Overtimes!Live, Overtimes!Rows, OneLiveInv, AskedInv
  <2> QED BY <2>1, <1>4, <1>5, FewerLive DEF OneLiveInv, AskedInv
<1> QED BY <1>2, <1>6, <1>7

LEMMA NextOneLive == OneLiveInv /\ [Overtimes!Next]_Overtimes!overtimeVars => OneLiveInv'
<1> SUFFICES ASSUME OneLiveInv, [Overtimes!Next]_Overtimes!overtimeVars PROVE OneLiveInv'
  OBVIOUS
<1> USE DEF OneLiveInv
<1>1. ASSUME NEW h \in Handlers, Overtimes!Dies(h) PROVE OneLiveInv'
  <2>1. calls' \in [Handlers -> Call]
    BY <1>1, CallsStayTyped DEF Overtimes!Dies, Call, Overtimes!Rest
  <2> QED BY <1>1, <2>1, SameRequests DEF Overtimes!Dies, Overtimes!tables, AskedInv
<1>2. ASSUME NEW h \in Handlers, Overtimes!LoadForCreate(h) PROVE OneLiveInv'
  <2>1. calls' \in [Handlers -> Call]
    BY <1>2, CallsStayTyped DEF Overtimes!LoadForCreate, Call
  <2> QED BY <1>2, <2>1, SameRequests DEF Overtimes!LoadForCreate, Overtimes!tables, AskedInv
<1>3. ASSUME NEW h \in Handlers, Overtimes!CreateOvertimeRequest(h) PROVE OneLiveInv'
  BY <1>3, CreateKeepsOne
<1>4. ASSUME NEW h \in Handlers, NEW r \in Overtimes!Rows, Overtimes!LoadForDelete(h, r) PROVE OneLiveInv'
  <2>1. r \in Nat
    BY DEF Overtimes!Rows, AskedInv
  <2>2. calls' \in [Handlers -> Call]
    BY <1>4, <2>1, CallsStayTyped DEF Overtimes!LoadForDelete, Call
  <2> QED BY <1>4, <2>2, SameRequests DEF Overtimes!LoadForDelete, Overtimes!tables, AskedInv
<1>5. ASSUME NEW h \in Handlers, NEW r \in Overtimes!Rows, NEW verdict \in {"approved", "rejected"},
             Overtimes!LoadForReview(h, r, verdict)
      PROVE  OneLiveInv'
  <2>1. r \in Nat
    BY DEF Overtimes!Rows, AskedInv
  <2>2. calls' \in [Handlers -> Call]
    BY <1>5, <2>1, CallsStayTyped DEF Overtimes!LoadForReview, Call
  <2> QED BY <1>5, <2>2, SameRequests DEF Overtimes!LoadForReview, Overtimes!tables, AskedInv
<1>6. ASSUME NEW h \in Handlers, Overtimes!DeleteOwnOvertimeRequest(h) PROVE OneLiveInv'
  BY <1>6, DeleteKeepsOne
<1>7. ASSUME NEW h \in Handlers, Overtimes!ReviewOvertimeRequest(h) PROVE OneLiveInv'
  BY <1>7, ReviewKeepsOne
<1>8. CASE (\E t \in 0 .. ScheduledEnd + 1 : Overtimes!UpdateManualShift(t)) \/ Overtimes!DeleteOrRestoreShift \/ Overtimes!NextDay
  <2>1. UNCHANGED <<overtime, calls>>
    BY <1>8 DEF Overtimes!UpdateManualShift, Overtimes!DeleteOrRestoreShift, Overtimes!NextDay
  <2> QED BY <2>1, SameRequests DEF AskedInv
<1>9. CASE UNCHANGED Overtimes!overtimeVars
  BY <1>9, SameRequests DEF Overtimes!overtimeVars, Overtimes!tables, AskedInv
<1> QED BY <1>1, <1>2, <1>3, <1>4, <1>5, <1>6, <1>7, <1>8, <1>9 DEF Overtimes!Next

LEMMA SameCardinality == \A S : Overtimes!Cardinality(S) = Cardinality(S)
BY Zenon DEF Overtimes!Cardinality, Cardinality

\* The invariant bounds what is live and what is paid.
LEMMA OneLiveSays == OneLiveInv => Overtimes!OneLiveRequest
<1> SUFFICES ASSUME OneLiveInv PROVE Overtimes!OneLiveRequest
  OBVIOUS
<1>1. {r \in Overtimes!Rows : overtime[r] # "rejected"} = Overtimes!Live
  BY LiveIsNotRejected DEF OneLiveInv
<1>2. Cardinality(Overtimes!Live) <= 1
  BY AtMostOne DEF OneLiveInv, LiveInv
<1>3. \A p, q \in Overtimes!Paid : p = q
  BY DEF OneLiveInv, LiveInv, Overtimes!Paid, Overtimes!Live
<1>4. Cardinality(Overtimes!Paid) <= 1
  BY <1>3, AtMostOne
<1> QED BY <1>1, <1>2, <1>4, SameCardinality DEF Overtimes!OneLiveRequest

\* While overtime is the part that moves, its invariant holds.
OvertimeInv == part = "overtime" => OneLiveInv

LEMMA InitOvertimeInv == Init => OvertimeInv
BY InitOneLive DEF Init, OvertimeInv

LEMMA NextOvertimeInv == OvertimeInv /\ [Next]_officeVars => OvertimeInv'
<1> SUFFICES ASSUME OvertimeInv, [Next]_officeVars, part' = "overtime" PROVE OneLiveInv'
  BY DEF OvertimeInv
<1>1. CASE OvertimeMoves
  BY <1>1, NextOneLive DEF OvertimeMoves, OvertimeInv
<1>2. CASE ~OvertimeMoves
  <2>1. part = "overtime" /\ UNCHANGED overtimes
    BY <1>2 DEF Next, TestsMove, WindowMoves, WorkplaceMoves, FilesMove, KnowledgeMoves, officeVars
  <2>2. UNCHANGED Overtimes!overtimeVars
    BY <2>1 DEF overtimes, Overtimes!overtimeVars, Overtimes!tables
  <2> QED BY <2>1, <2>2, NextOneLive DEF OvertimeInv
<1> QED BY <1>1, <1>2

\* However many requests to create, withdraw and review overtime run at once, one
\* request at most of a shift is pending or approved, and payroll pays one at most
\* (services/overtime.py, uq_shift_overtime_requests_active).
THEOREM OneLive == Spec => []OneLiveRequest
<1>1. OvertimeInv => OneLiveRequest
  BY OneLiveSays DEF OvertimeInv, OneLiveRequest
<1> QED BY <1>1, InitOvertimeInv, NextOvertimeInv, PTL DEF Spec

(***************************************************************************)
(* Employee tests                                                          *)
(***************************************************************************)

\* The part moves as the module it is proved about.
LEMMA SameTestsMoves == Tests!Next => ProvedTests!Next
<1> SUFFICES ASSUME Tests!Next PROVE ProvedTests!Next
  OBVIOUS
<1> USE DEF Tests!Rest, ProvedTests!Rest, Tests!tables, ProvedTests!tables,
            Tests!Written, ProvedTests!Written, Tests!Cardinality, ProvedTests!Cardinality
<1>1. CASE Tests!DeleteTemplate \/ Tests!RestoreTemplate \/ Tests!AssignTemplate
           \/ Tests!DeleteAssignment \/ Tests!RemoveMember
  BY <1>1, Zenon
     DEF Tests!DeleteTemplate, ProvedTests!DeleteTemplate, Tests!RestoreTemplate,
         ProvedTests!RestoreTemplate, Tests!AssignTemplate, ProvedTests!AssignTemplate,
         Tests!DeleteAssignment, ProvedTests!DeleteAssignment, Tests!RemoveMember,
         ProvedTests!RemoveMember, Tests!Assigned, ProvedTests!Assigned, Tests!NoAttempts,
         ProvedTests!NoAttempts, Tests!Attempt, ProvedTests!Attempt,
         ProvedTests!Next, ProvedTests!Administer
<1>2. ASSUME NEW h \in Handlers, NEW threshold \in Thresholds, NEW tries \in Tries,
             NEW questions \in {{q} : q \in Questions} \cup {{}, None},
             Tests!LoadForUpdateTemplate(h, threshold, tries, questions)
      PROVE  ProvedTests!Next
  <2>1. ProvedTests!LoadForUpdateTemplate(h, threshold, tries, questions)
    BY <1>2, Zenon DEF Tests!LoadForUpdateTemplate, ProvedTests!LoadForUpdateTemplate,
                       Tests!ValidQuestions, ProvedTests!ValidQuestions
  <2> QED BY <2>1 DEF ProvedTests!Next, ProvedTests!Administer
<1>3. ASSUME NEW h \in Handlers, Tests!Dies(h) \/ Tests!UpdateTemplate(h)
      PROVE  ProvedTests!Next
  <2>1. ProvedTests!Dies(h) \/ ProvedTests!UpdateTemplate(h)
    BY <1>3, Zenon DEF Tests!Dies, ProvedTests!Dies, Tests!UpdateTemplate, ProvedTests!UpdateTemplate
  <2> QED BY <2>1 DEF ProvedTests!Next, ProvedTests!Administer
<1>4. ASSUME NEW h \in Handlers,
             Tests!LoadForStartAttempt(h) \/ Tests!StartAttempt(h) \/ Tests!SubmitAttempt(h)
      PROVE  ProvedTests!Next
  <2>1. CASE Tests!LoadForStartAttempt(h) \/ Tests!StartAttempt(h)
    <3>1. ProvedTests!LoadForStartAttempt(h) \/ ProvedTests!StartAttempt(h)
      BY <2>1, Zenon
         DEF Tests!LoadForStartAttempt, ProvedTests!LoadForStartAttempt, Tests!StartAttempt,
             ProvedTests!StartAttempt, Tests!SameAssignment, ProvedTests!SameAssignment,
             Tests!Attempt, ProvedTests!Attempt, Tests!OpenAttempts, ProvedTests!OpenAttempts
    <3> QED BY <3>1 DEF ProvedTests!Next, ProvedTests!TakeTest
  <2>2. CASE Tests!SubmitAttempt(h)
    <3>1. ProvedTests!SubmitAttempt(h)
      BY <2>2, Zenon
         DEF Tests!SubmitAttempt, ProvedTests!SubmitAttempt, Tests!SameAssignment,
             ProvedTests!SameAssignment, Tests!Passes, ProvedTests!Passes,
             Tests!PassedAfter, ProvedTests!PassedAfter, Tests!UsedAfter, ProvedTests!UsedAfter,
             Tests!StatusAfter, ProvedTests!StatusAfter, Tests!Larger, ProvedTests!Larger
    <3> QED BY <3>1 DEF ProvedTests!Next, ProvedTests!TakeTest
  <2> QED BY <1>4, <2>1, <2>2
<1>5. ASSUME NEW h \in Handlers, NEW n \in Tests!OpenAttempts, NEW right \in SUBSET attempts[n].questions,
             Tests!LoadForSubmitAttempt(h, n, right)
      PROVE  ProvedTests!Next
  <2>1. n \in ProvedTests!OpenAttempts
    BY DEF Tests!OpenAttempts, ProvedTests!OpenAttempts
  <2>2. ProvedTests!LoadForSubmitAttempt(h, n, right)
    BY <1>5, Zenon
       DEF Tests!LoadForSubmitAttempt, ProvedTests!LoadForSubmitAttempt,
           Tests!OpenAttempts, ProvedTests!OpenAttempts, Tests!Percents, ProvedTests!Percents
  <2> QED BY <2>1, <2>2 DEF ProvedTests!Next, ProvedTests!TakeTest
<1> QED BY <1>1, <1>2, <1>3, <1>4, <1>5 DEF Tests!Next, Tests!Administer, Tests!TakeTest

\* While tests are the part that moves, their invariant holds.
TestsInv == part = "tests" => ProvedTests!IInv

LEMMA NoneIsNoRow == None \notin ProvedTests!Assignments
BY OfficeAssumption, Zenon DEF Tests!TestsAssumption, Tests!Assignments, ProvedTests!Assignments,
   Tests!AssignmentStatus, ProvedTests!AssignmentStatus

LEMMA InitTestsInv == Init => TestsInv
<1> SUFFICES ASSUME Init PROVE ProvedTests!IInv
  BY DEF TestsInv
<1>1. ProvedTests!Init
  BY Zenon DEF Init, Tests!Init, ProvedTests!Init, Tests!Rest, ProvedTests!Rest,
               Tests!NoAttempts, ProvedTests!NoAttempts, Tests!Attempt, ProvedTests!Attempt
<1> QED BY <1>1, ProvedTests!InitIInv

\* A step of the office is one of the tests, or leaves them alone.
LEMMA TestsStep == part = "tests" /\ [Next]_officeVars => [ProvedTests!Next]_ProvedTests!testVars
<1>1. CASE TestsMove
  BY <1>1, SameTestsMoves DEF TestsMove
<1>2. CASE ~TestsMove
  BY <1>2 DEF Next, OvertimeMoves, WindowMoves, WorkplaceMoves, FilesMove, KnowledgeMoves, officeVars,
              testing, ProvedTests!testVars, ProvedTests!tables
<1> QED BY <1>1, <1>2

LEMMA NextTestsInv == TestsInv /\ [Next]_officeVars => TestsInv'
<1> SUFFICES ASSUME TestsInv, [Next]_officeVars, part' = "tests" PROVE ProvedTests!IInv'
  BY DEF TestsInv
<1>1. part = "tests"
  BY DEF Next, TestsMove, OvertimeMoves, WindowMoves, WorkplaceMoves, FilesMove, KnowledgeMoves, officeVars
<1> QED BY <1>1, TestsStep, NoneIsNoRow, ProvedTests!NextIInv DEF TestsInv

LEMMA TestsInvSaysResult == TestsInv => UsedIsEarned /\ ResultHasAttempt
<1>1. ProvedTests!IInv => Tests!UsedIsEarned /\ Tests!ResultHasAttempt
  BY ProvedTests!IInvSaysResult, Zenon
     DEF ProvedTests!UsedIsEarned, Tests!UsedIsEarned, ProvedTests!ResultHasAttempt,
         Tests!ResultHasAttempt, ProvedTests!Submitted, Tests!Submitted,
         ProvedTests!Cardinality, Tests!Cardinality
<1> QED BY <1>1 DEF TestsInv, UsedIsEarned, ResultHasAttempt

\* However often an attempt is submitted, and by how many requests at once, no more
\* attempts are used than were submitted (services/employee_test.py, submit_attempt).
THEOREM NoAttemptLost == Spec => []UsedIsEarned
BY InitTestsInv, NextTestsInv, TestsInvSaysResult, PTL DEF Spec

\* The result of an assignment and its attempts agree: it is passed exactly when one
\* of them is, and says so only then (services/employee_test.py, submit_attempt).
THEOREM ResultIsEarned == Spec => []ResultHasAttempt
BY InitTestsInv, NextTestsInv, TestsInvSaysResult, PTL DEF Spec

\* Whatever the administrator changes while an attempt is open: the attempt that comes
\* to be passed reached the threshold it was started with (start_attempt).
THEOREM JudgedByItsSnapshot == Spec => JudgedBySnapshot
<1> DEFINE Judges == \A n \in DOMAIN attempts \cap DOMAIN attempts' :
                        ~attempts[n].passed /\ attempts'[n].passed
                            => attempts'[n].percent >= attempts[n].threshold
<1>1. Thresholds \subseteq Int
  BY OfficeAssumption DEF Tests!TestsAssumption
<1>2. TestsInv /\ [Next]_officeVars => [Judges]_Tests!testVars
  <2> SUFFICES ASSUME TestsInv, [Next]_officeVars, Tests!testVars' # Tests!testVars PROVE Judges
    OBVIOUS
  <2>1. part = "tests"
    BY DEF Next, TestsMove, OvertimeMoves, WindowMoves, WorkplaceMoves, FilesMove, KnowledgeMoves,
           officeVars, testing, Tests!testVars, Tests!tables
  <2>2. ProvedTests!IInv /\ [ProvedTests!Next]_ProvedTests!testVars
    BY <2>1, TestsStep DEF TestsInv
  <2>3. ProvedTests!Judged
    BY <1>1, <2>2, NoneIsNoRow, ProvedTests!NextJudges
  <2> QED BY <2>3 DEF ProvedTests!Judged
<1> QED BY <1>2, InitTestsInv, NextTestsInv, PTL DEF Spec, JudgedBySnapshot, Tests!JudgedBySnapshot

(***************************************************************************)
(* The window of a schedule                                                *)
(***************************************************************************)

\* Some element has the largest key.
HasLargest(S, key) == \E w \in S : \A v \in S : key[v] <= key[w]

LEMMA LargestOfMore ==
    ASSUME NEW S, NEW x, NEW key, \A v \in S \cup {x} : key[v] \in Int,
           S = {} \/ HasLargest(S, key)
    PROVE  HasLargest(S \cup {x}, key)
<1>1. CASE S = {}
  BY <1>1 DEF HasLargest
<1>2. CASE S # {}
  <2>1. PICK w \in S : \A v \in S : key[v] <= key[w]
    BY <1>2 DEF HasLargest
  <2>2. CASE key[x] <= key[w]
    BY <2>1, <2>2 DEF HasLargest
  <2>3. CASE key[w] <= key[x]
    <3>1. \A v \in S : key[v] <= key[x]
      BY <2>1, <2>3
    <3> QED BY <3>1 DEF HasLargest
  <2> QED BY <2>2, <2>3
<1> QED BY <1>1, <1>2

\* A set of at most five has such an element.
LEMMA LargestOfFive ==
    ASSUME NEW a, NEW b, NEW c, NEW d, NEW e, NEW S, S \subseteq {a, b, c, d, e}, S # {},
           NEW key, \A v \in S : key[v] \in Int
    PROVE  HasLargest(S, key)
<1> DEFINE Few(T) == T = {} \/ HasLargest(T, key)
<1>1. ASSUME NEW T, T \subseteq S, NEW x, Few(T) PROVE Few(T \cup ({x} \cap S))
  <2>1. CASE x \in S
    <3>1. T \cup ({x} \cap S) = T \cup {x}
      BY <2>1
    <3>2. \A v \in T \cup {x} : key[v] \in Int
      BY <1>1, <2>1
    <3> QED BY <1>1, <3>1, <3>2, LargestOfMore
  <2>2. CASE x \notin S
    <3>1. T \cup ({x} \cap S) = T
      BY <2>2
    <3> QED BY <1>1, <3>1
  <2> QED BY <2>1, <2>2
<1> HIDE DEF Few
<1> DEFINE A == {} \cup ({a} \cap S)
           B == A \cup ({b} \cap S)
           C == B \cup ({c} \cap S)
           D == C \cup ({d} \cap S)
           E == D \cup ({e} \cap S)
<1>2. A \subseteq S /\ B \subseteq S /\ C \subseteq S /\ D \subseteq S /\ E = S
  OBVIOUS
<1>3. Few({})
  BY DEF Few
<1>4. Few(A)
  BY <1>1, <1>3
<1> HIDE DEF A
<1>5. Few(B)
  BY <1>1, <1>2, <1>4
<1> HIDE DEF B
<1>6. Few(C)
  BY <1>1, <1>2, <1>5
<1> HIDE DEF C
<1>7. Few(D)
  BY <1>1, <1>2, <1>6
<1> HIDE DEF D
<1>8. Few(E)
  BY <1>1, <1>2, <1>7
<1> QED BY <1>2, <1>8 DEF Few

Plans == [start : Int, end : Int]

\* The rows that a window is computed from.
ClockInv == gap \in Gaps /\ schedule \in Times /\ rules \in Windows!WeeklyRules

LEMMA LastStartedIsOne ==
    ASSUME NEW a, NEW b, NEW c, NEW d, NEW e, NEW S \in SUBSET Plans,
           S \subseteq {a, b, c, d, e}, S # {}
    PROVE  Windows!LastStarted(S) \in S
<1> DEFINE key == [w \in S |-> w.start]
<1>1. \A v \in S : key[v] \in Int
  BY DEF Plans
<1>2. HasLargest(S, key)
  <2> HIDE DEF key
  <2> QED BY <1>1, LargestOfFive
<1>3. PICK w \in S : \A v \in S : v.start <= w.start
  BY <1>2 DEF HasLargest
<1> QED BY <1>3 DEF Windows!LastStarted

HasNearest(S, moment) ==
    \E w \in S : \A v \in S : Windows!Distance(moment, w.start) <= Windows!Distance(moment, v.start)

LEMMA SomeIsNearest ==
    ASSUME NEW a, NEW b, NEW c, NEW d, NEW e, NEW S \in SUBSET Plans,
           S \subseteq {a, b, c, d, e}, S # {}, NEW moment \in Int
    PROVE  HasNearest(S, moment)
<1> DEFINE away(v) == Windows!Distance(moment, v.start)
           key == [w \in S |-> -away(w)]
<1>1. \A v \in S : away(v) \in Int
  BY DEF Plans, Windows!Distance
<1> HIDE DEF away
<1>2. \A v \in S : key[v] \in Int /\ key[v] = -away(v)
  BY <1>1
<1>3. HasLargest(S, key)
  <2> HIDE DEF key
  <2> QED BY <1>2, LargestOfFive
<1> HIDE DEF key
<1>4. \E w \in S : \A v \in S : away(w) <= away(v)
  BY <1>1, <1>2, <1>3 DEF HasLargest
<1> QED BY <1>4 DEF HasNearest, away

LEMMA NearestIsOne ==
    ASSUME NEW a, NEW b, NEW c, NEW d, NEW e, NEW S \in SUBSET Plans,
           S \subseteq {a, b, c, d, e}, S # {}, NEW moment \in Int
    PROVE  Windows!Nearest(S, moment) \in S
<1>1. HasNearest(S, moment)
  BY SomeIsNearest
<1> QED BY <1>1, Zenon DEF HasNearest, Windows!Nearest

LEMMA ClockConstants ==
    /\ Day \in Nat \ {0} /\ Week \in Nat \ {0} /\ Transition \in Int
    /\ \A g \in Gaps : g \in Int /\ -Day <= g /\ g <= Day
    /\ \A t \in Times : t[1] \in Int /\ t[2] \in Int /\ 0 <= t[1] /\ t[1] < Day /\ 0 <= t[2] /\ t[2] < Day
BY OfficeAssumption DEF Windows!ClockAssumption

\* A window lies at moments, and lasts.
LEMMA WindowIsPlan ==
    ASSUME ClockInv, NEW date \in Int, NEW times \in Times
    PROVE  /\ Windows!WindowAt(date, times) \in Plans
           /\ Windows!Duration(times) \in Int /\ Windows!Duration(times) >= 1
<1>1. Windows!Duration(times) \in Int /\ Windows!Duration(times) >= 1
  BY ClockConstants DEF Windows!Duration
<1>2. \A local \in Int : Windows!ToUtc(local) \in Int
  BY ClockConstants DEF Windows!ToUtc, Windows!Later, ClockInv
<1>3. date * Day + times[1] \in Int /\ date * Day + times[1] + Windows!Duration(times) \in Int
  BY <1>1, ClockConstants
<1> QED BY <1>1, <1>2, <1>3 DEF Windows!WindowAt, Plans

LEMMA LocalDateIsDate ==
    ASSUME ClockInv, NEW moment \in Int
    PROVE  /\ Windows!LocalDate(moment) \in Int
           /\ (IF moment < Transition THEN moment ELSE moment + gap) < (Windows!LocalDate(moment) + 1) * Day
<1> DEFINE local == IF moment < Transition THEN moment ELSE moment + gap
<1>1. local \in Int
  BY ClockConstants DEF ClockInv
<1>2. Windows!LocalDate(moment) = local \div Day
  BY DEF Windows!LocalDate
<1> HIDE DEF local
<1>3. local \div Day \in Int /\ local < (local \div Day + 1) * Day
  BY <1>1, ClockConstants
<1> QED BY <1>2, <1>3 DEF local

\* What compute_scheduled_window_with_weekly_rules chooses from.
LEMMA CandidatesAreFive ==
    ASSUME ClockInv, NEW moment \in Int
    PROVE  /\ Windows!Candidates(moment) \subseteq Plans
           /\ \E a, b, c, d, e : Windows!Candidates(moment) \subseteq {a, b, c, d, e}
<1> DEFINE D == Windows!LocalDate(moment)
           W(date) == Windows!WindowAt(date, Windows!WeeklyWindowFor(date))
<1>1. D \in Int
  BY LocalDateIsDate
<1> HIDE DEF D
<1>2. ASSUME NEW w \in Windows!Candidates(moment)
      PROVE  /\ \E date \in Int : Windows!Runs(date) /\ w = W(date)
             /\ w \in {W(D - 2), W(D - 1), W(D), W(D + 1), W(D + 2)}
  <2>1. PICK offset \in -2 .. 2 : Windows!Runs(D + offset) /\ w = W(D + offset)
    BY DEF Windows!Candidates, Windows!Offsets, D
  <2>2. D + offset \in Int /\ D + offset \in {D - 2, D - 1, D, D + 1, D + 2}
    BY <1>1
  <2> HIDE DEF W
  <2> QED BY <2>1, <2>2
<1>3. ASSUME NEW date \in Int, Windows!Runs(date) PROVE Windows!WeeklyWindowFor(date) \in Times
  <2>1. date % Week \in Windows!Weekdays
    BY ClockConstants DEF Windows!Weekdays
  <2> QED BY <1>3, <2>1 DEF Windows!Runs, Windows!WeeklyWindowFor, ClockInv, Windows!WeeklyRules
<1>4. Windows!Candidates(moment) \subseteq Plans
  BY <1>2, <1>3, WindowIsPlan
<1> HIDE DEF W
<1> QED BY <1>2, <1>4

\* The window of the weekly rules does not end before the moment it is asked for.
LEMMA WindowEnds ==
    ASSUME ClockInv, NEW moment \in Int, Windows!Window(moment) # None
    PROVE  Windows!Window(moment) \in Plans /\ Windows!Window(moment).end >= moment
<1> DEFINE all == Windows!Candidates(moment)
           containing == Windows!Containing(all, moment)
           future == Windows!Future(all, moment)
<1>1. all \subseteq Plans
  BY CandidatesAreFive
<1>2. PICK a, b, c, d, e : all \subseteq {a, b, c, d, e}
  BY CandidatesAreFive
<1> HIDE DEF all
<1>3. /\ containing \in SUBSET Plans /\ containing \subseteq {a, b, c, d, e}
      /\ \A w \in containing : w.end >= moment
  BY <1>1, <1>2 DEF Windows!Containing, Plans
<1>4. /\ future \in SUBSET Plans /\ future \subseteq {a, b, c, d, e}
      /\ \A w \in future : w.end >= moment
  BY <1>1, <1>2 DEF Windows!Future, Plans
<1>5. \/ containing # {} /\ Windows!Window(moment) = Windows!LastStarted(containing)
      \/ future # {} /\ Windows!Window(moment) = Windows!Nearest(future, moment)
  BY DEF Windows!Window, all
<1> HIDE DEF containing, future
<1>6. CASE containing # {} /\ Windows!Window(moment) = Windows!LastStarted(containing)
  <2>1. Windows!LastStarted(containing) \in containing
    BY <1>3, <1>6, LastStartedIsOne
  <2> QED BY <1>3, <1>6, <2>1
<1>7. CASE future # {} /\ Windows!Window(moment) = Windows!Nearest(future, moment)
  <2>1. Windows!Nearest(future, moment) \in future
    BY <1>4, <1>7, NearestIsOne
  <2> QED BY <1>4, <1>7, <2>1
<1> QED BY <1>5, <1>6, <1>7

\* The schedule's window of the day after the next ends later than now, whatever the
\* clocks do.
LEMMA DayAfterNextEnds ==
    ASSUME ClockInv, NEW moment \in Int
    PROVE  Windows!WindowAt(Windows!LocalDate(moment) + 2, schedule).end >= moment
<1> DEFINE date == Windows!LocalDate(moment)
           later == (date + 2) * Day + schedule[1] + Windows!Duration(schedule)
           local == IF moment < Transition THEN moment ELSE moment + gap
           next == (date + 1) * Day
<1>1. /\ schedule \in Times /\ gap \in Int /\ -Day <= gap /\ gap <= Day /\ Day \in Nat \ {0}
      /\ Transition \in Int /\ schedule[1] \in Int /\ 0 <= schedule[1]
  BY ClockConstants DEF ClockInv
<1>2. Windows!Duration(schedule) \in Int /\ Windows!Duration(schedule) >= 1
  <2>1. 0 \in Int
    OBVIOUS
  <2> QED BY <1>1, <2>1, WindowIsPlan
<1>3. date \in Int /\ local < next
  BY LocalDateIsDate
<1> HIDE DEF date
<1>4. (date + 2) * Day = next + Day /\ next \in Int
  BY <1>1, <1>3
<1> HIDE DEF next
<1>5. later \in Int /\ later > local + Day /\ local \in Int
  BY <1>1, <1>2, <1>3, <1>4
<1>6. Windows!ToUtc(later) >= moment
  <2> HIDE DEF later
  <2> QED BY <1>1, <1>5 DEF Windows!ToUtc, Windows!Later
<1> QED BY <1>6 DEF Windows!WindowAt, date

\* Nor does the window of the schedule itself.
LEMMA PlainWindowEnds ==
    ASSUME ClockInv, NEW moment \in Int
    PROVE  Windows!PlainWindow(moment) \in Plans /\ Windows!PlainWindow(moment).end >= moment
<1> DEFINE at(offset) == Windows!WindowAt(Windows!LocalDate(moment) + offset, schedule)
           three == {at(offset) : offset \in -1 .. 1}
           containing == Windows!Containing(three, moment)
           future == Windows!Future(three, moment)
           rest == IF future # {} THEN future ELSE {at(2)}
<1>1. \A offset \in Int : at(offset) \in Plans
  <2> SUFFICES ASSUME NEW offset \in Int PROVE at(offset) \in Plans
    OBVIOUS
  <2>1. Windows!LocalDate(moment) + offset \in Int /\ schedule \in Times
    BY LocalDateIsDate DEF ClockInv
  <2> QED BY <2>1, WindowIsPlan
<1>2. at(2).end >= moment
  BY DayAfterNextEnds
<1>3. Windows!PlainWindow(moment) = IF containing # {} THEN Windows!LastStarted(containing)
                                    ELSE Windows!Nearest(rest, moment)
  BY DEF Windows!PlainWindow
<1> HIDE DEF at
<1>4. three \subseteq Plans /\ three \subseteq {at(-1), at(0), at(1)}
  <2>1. \A offset \in -1 .. 1 : offset \in {-1, 0, 1} /\ offset \in Int
    OBVIOUS
  <2> QED BY <1>1, <2>1
<1> HIDE DEF three
<1>5. /\ containing \in SUBSET Plans /\ containing \subseteq {at(-1), at(0), at(1), at(2), at(2)}
      /\ \A w \in containing : w.end >= moment
  BY <1>4 DEF Windows!Containing, Plans
<1>6. /\ future \in SUBSET Plans /\ future \subseteq {at(-1), at(0), at(1)}
      /\ \A w \in future : w.end >= moment
  BY <1>4 DEF Windows!Future, Plans
<1> HIDE DEF containing, future
<1>7. /\ rest \in SUBSET Plans /\ rest \subseteq {at(-1), at(0), at(1), at(2), at(2)} /\ rest # {}
      /\ \A w \in rest : w.end >= moment
  <2>1. at(2) \in Plans
    BY <1>1
  <2>2. CASE future # {}
    BY <1>6, <2>2
  <2>3. CASE future = {}
    BY <1>2, <2>1, <2>3
  <2> QED BY <2>2, <2>3
<1> HIDE DEF rest
<1>8. CASE containing # {}
  <2>1. Windows!LastStarted(containing) \in containing
    <3> DEFINE a == at(-1)
               b == at(0)
               c == at(1)
               d == at(2)
    <3>1. containing \in SUBSET Plans /\ containing \subseteq {a, b, c, d, d}
      BY <1>5
    <3> HIDE DEF a, b, c, d
    <3> QED BY <1>8, <3>1, LastStartedIsOne
  <2> QED BY <1>3, <1>5, <1>8, <2>1
<1>9. CASE containing = {}
  <2>1. Windows!Nearest(rest, moment) \in rest
    BY <1>7, NearestIsOne
  <2> QED BY <1>3, <1>7, <1>9, <2>1
<1> QED BY <1>8, <1>9

\* A shift with its plan.
PlannedShifts == [started : Int, finished : Int \cup {None}, plan : Plans \cup {None}]

WindowInv ==
    part = "window" => /\ ClockInv /\ now \in Nat
                       /\ shift # None => shift \in PlannedShifts

\* The plan of a shift is given by a step, and does not end before the shift started.
GivenPlanEnds ==
    (shift' # None /\ shift'.plan # None /\ (shift # None => shift'.plan # shift.plan))
        => shift'.plan.end >= shift'.started

\* An operation on the shift.
LEMMA ShiftOperation ==
    ASSUME ClockInv, now \in Nat, shift # None => shift \in PlannedShifts,
           \/ Windows!StartShift
           \/ \E from, to \in 0 .. now :
               \/ \E plan \in {None, Windows!PlainWindow(from)} :
                       Windows!CreateManualShift(from, to, plan)
               \/ \E end \in {None, to} : Windows!UpdateManualShift(from, end)
           \/ Windows!ChangeShiftSchedule \/ Windows!FinishShift \/ Windows!AutoFinishStaleShifts
    PROVE  shift' \in PlannedShifts /\ GivenPlanEnds /\ UNCHANGED <<now, gap, schedule, rules>>
<1>1. CASE Windows!StartShift
  <2> DEFINE plan == IF Windows!Startable THEN Windows!Window(now) ELSE None
  <2>1. plan \in Plans \cup {None} /\ (plan # None => plan.end >= now)
    BY WindowEnds
  <2>2. /\ shift' = [started |-> now, finished |-> None, plan |-> plan]
        /\ UNCHANGED <<now, gap, schedule, rules>>
    BY <1>1 DEF Windows!StartShift
  <2> HIDE DEF plan
  <2> QED BY <2>1, <2>2 DEF PlannedShifts, GivenPlanEnds
<1>2. ASSUME NEW from \in 0 .. now, NEW to \in 0 .. now,
             NEW plan \in {None, Windows!PlainWindow(from)},
             Windows!CreateManualShift(from, to, plan)
      PROVE  shift' \in PlannedShifts /\ GivenPlanEnds /\ UNCHANGED <<now, gap, schedule, rules>>
  <2>1. plan \in Plans \cup {None} /\ (plan # None => plan.end >= from)
    BY PlainWindowEnds
  <2>2. /\ shift' = [started |-> from, finished |-> to, plan |-> plan]
        /\ UNCHANGED <<now, gap, schedule, rules>>
    BY <1>2 DEF Windows!CreateManualShift
  <2> QED BY <2>1, <2>2 DEF PlannedShifts, GivenPlanEnds
<1>3. ASSUME NEW from \in 0 .. now, NEW to \in 0 .. now, NEW end \in {None, to},
             Windows!UpdateManualShift(from, end)
      PROVE  shift' \in PlannedShifts /\ GivenPlanEnds /\ UNCHANGED <<now, gap, schedule, rules>>
  <2>1. /\ shift # None /\ shift' = [shift EXCEPT !.started = from, !.finished = end]
        /\ UNCHANGED <<now, gap, schedule, rules>>
    BY <1>3 DEF Windows!UpdateManualShift
  <2>2. from \in Int /\ end \in Int \cup {None}
    OBVIOUS
  <2>3. shift' \in PlannedShifts /\ shift'.plan = shift.plan
    BY <2>1, <2>2 DEF PlannedShifts
  <2> QED BY <2>1, <2>3 DEF GivenPlanEnds
<1>4. CASE Windows!ChangeShiftSchedule
  <2>1. /\ shift \in PlannedShifts /\ shift.started \in Int /\ shift # None
        /\ UNCHANGED <<now, gap, schedule, rules>>
    BY <1>4 DEF Windows!ChangeShiftSchedule, PlannedShifts
  <2>2. CASE shift' = [shift EXCEPT !.plan = None]
    BY <2>1, <2>2 DEF PlannedShifts, GivenPlanEnds
  <2>3. CASE Windows!Window(shift.started) # None /\ shift' = [shift EXCEPT !.plan = Windows!Window(shift.started)]
    <3> DEFINE plan == Windows!Window(shift.started)
    <3>1. plan \in Plans /\ plan.end >= shift.started
      BY <2>1, <2>3, WindowEnds
    <3>2. shift' = [shift EXCEPT !.plan = plan]
      BY <2>3
    <3> HIDE DEF plan
    <3> QED BY <2>1, <3>1, <3>2 DEF PlannedShifts, GivenPlanEnds
  <2> QED BY <1>4, <2>2, <2>3 DEF Windows!ChangeShiftSchedule
<1>5. CASE Windows!FinishShift \/ Windows!AutoFinishStaleShifts
  <2>1. shift \in PlannedShifts /\ shift # None /\ UNCHANGED <<now, gap, schedule, rules>>
    BY <1>5 DEF Windows!FinishShift, Windows!AutoFinishStaleShifts
  <2>2. PICK end \in Int : shift' = [shift EXCEPT !.finished = end]
    BY <1>5, <2>1 DEF Windows!FinishShift, Windows!AutoFinishStaleShifts, PlannedShifts, Plans
  <2> QED BY <2>1, <2>2 DEF PlannedShifts, GivenPlanEnds
<1> QED BY <1>1, <1>2, <1>3, <1>4, <1>5

\* A step of the window.
LEMMA WindowStep ==
    ASSUME ClockInv, now \in Nat, shift # None => shift \in PlannedShifts, Windows!Next
    PROVE  /\ ClockInv' /\ now' \in Nat /\ (shift' # None => shift' \in PlannedShifts)
           /\ shift' # shift => GivenPlanEnds
<1>1. CASE Windows!Tick
  BY <1>1 DEF Windows!Tick, ClockInv
<1>2. CASE Windows!EditSchedule
  BY <1>2 DEF Windows!EditSchedule, Windows!UpdateSchedule, Windows!ReplaceWeeklyRules, ClockInv
<1>3. CASE ~(Windows!Tick \/ Windows!EditSchedule)
  <2>1. shift' \in PlannedShifts /\ GivenPlanEnds /\ UNCHANGED <<now, gap, schedule, rules>>
    BY <1>3, ShiftOperation DEF Windows!Next
  <2> QED BY <2>1 DEF ClockInv, Windows!WeeklyRules
<1> QED BY <1>1, <1>2, <1>3

\* A step of the office is one of the window, or leaves it alone.
LEMMA NextWindowInv ==
    ASSUME WindowInv, [Next]_officeVars
    PROVE  WindowInv' /\ [GivenPlanEnds]_Windows!windowVars
<1>1. CASE WindowMoves
  <2>1. Windows!Next /\ part = "window"
    BY <1>1 DEF WindowMoves
  <2>2. /\ ClockInv' /\ now' \in Nat /\ (shift' # None => shift' \in PlannedShifts)
        /\ shift' # shift => GivenPlanEnds
    BY <2>1, WindowStep DEF WindowInv
  <2>3. shift' = shift => GivenPlanEnds
    BY DEF GivenPlanEnds
  <2> QED BY <2>2, <2>3 DEF WindowInv
<1>2. CASE ~WindowMoves
  <2>1. part' = part /\ UNCHANGED planning
    BY <1>2 DEF Next, TestsMove, OvertimeMoves, WorkplaceMoves, FilesMove, KnowledgeMoves, officeVars
  <2> QED BY <2>1 DEF planning, Windows!windowVars, WindowInv, ClockInv, Windows!WeeklyRules
<1> QED BY <1>1, <1>2

LEMMA InitWindowInv == Init => WindowInv
<1>1. Windows!Init => ClockInv /\ now \in Nat /\ shift = None
  BY DEF Windows!Init, ClockInv, Windows!WeeklyRules
<1> QED BY <1>1 DEF Init, WindowInv

\* Whatever the weekly rules, the change of the clocks and the moment: the plan a shift
\* is given does not end before the shift started (services/work_schedule.py,
\* compute_scheduled_window_with_weekly_rules and compute_scheduled_window).
THEOREM PlanEndsLate == Spec => PlanEndsAfterStart
<1>1. WindowInv /\ [Next]_officeVars => WindowInv' /\ [GivenPlanEnds]_Windows!windowVars
  BY NextWindowInv
<1> QED BY <1>1, InitWindowInv, PTL DEF Spec, PlanEndsAfterStart, Windows!PlanEndsAfterStart, GivenPlanEnds

\* A window that a moment lies in, or is early for, starts two days away at most.
LEMMA WindowIsNear ==
    ASSUME ClockInv, now \in Nat, NEW date \in Int, NEW times \in Times,
           Windows!WindowAt(date, times).start - Early <= now,
           now <= Windows!WindowAt(date, times).end
    PROVE  date - Windows!LocalDate(now) \in -2 .. 2
<1> DEFINE D == Windows!LocalDate(now)
           begin == date * Day + times[1]
           finish == begin + Windows!Duration(times)
           local == IF now < Transition THEN now ELSE now + gap
<1>1. /\ gap \in Int /\ -Day <= gap /\ gap <= Day /\ Day \in Nat \ {0} /\ Transition \in Int
      /\ Early \in Int /\ Early <= Day
  BY ClockConstants, OfficeAssumption DEF ClockInv, Windows!ClockAssumption
<1>2. times[1] \in Int /\ 0 <= times[1] /\ times[1] < Day
  BY ClockConstants
<1>3. Windows!Duration(times) \in Int /\ Windows!Duration(times) <= Day
  BY ClockConstants DEF Windows!Duration
<1>4. D \in Int /\ D * Day <= local /\ local < (D + 1) * Day /\ local \in Int
  <2>1. local \in Int
    BY <1>1
  <2>2. D = local \div Day
    BY DEF Windows!LocalDate
  <2> HIDE DEF local, D
  <2>3. local \div Day \in Int /\ (local \div Day) * Day <= local /\ local < (local \div Day + 1) * Day
    BY <1>1, <2>1
  <2> QED BY <2>1, <2>2, <2>3
<1>5. begin \in Int /\ finish \in Int /\ date * Day <= begin /\ finish < date * Day + 2 * Day
  BY <1>1, <1>2, <1>3
<1>6. Windows!ToUtc(begin) - Early <= now /\ now <= Windows!ToUtc(finish)
  BY DEF Windows!WindowAt
<1> HIDE DEF begin, finish
<1>7. /\ \/ begin <= now + Early
         \/ begin - gap <= now + Early /\ begin >= Transition /\ begin >= Transition + gap
      /\ now <= finish
         \/ now <= finish - gap
  BY <1>1, <1>5, <1>6 DEF Windows!ToUtc, Windows!Later
<1>8. begin <= local + 2 * Day /\ local <= finish + Day
  BY <1>1, <1>5, <1>7
<1> HIDE DEF local, D
<1>9. date * Day <= local + 2 * Day /\ local < date * Day + 3 * Day /\ date * Day \in Int /\ D * Day \in Int
  BY <1>1, <1>4, <1>5, <1>8
<1>10. (D + 1) * Day = D * Day + Day
  BY <1>1, <1>4
<1>11. /\ date * Day < D * Day + 3 * Day /\ D * Day < date * Day + 3 * Day
  BY <1>1, <1>4, <1>9, <1>10
<1>12. date < D + 3 /\ D < date + 3
  <2>1. (date - D - 3) * Day < 0 /\ (D - date - 3) * Day < 0
    BY <1>1, <1>4, <1>11
  <2>2. date - D - 3 \in Int /\ D - date - 3 \in Int
    BY <1>4
  <2>3. \A n \in Int : n * Day < 0 => n < 0
    BY <1>1
  <2> QED BY <1>4, <2>1, <2>2, <2>3
<1>13. date - D \in -2 .. 2
  BY <1>4, <1>12
<1> QED BY <1>13 DEF D

\* It is a candidate, then.
LEMMA NearIsCandidate ==
    ASSUME ClockInv, now \in Nat, NEW date \in Int, Windows!Runs(date),
           Windows!InWindow(Windows!WindowAt(date, Windows!WeeklyWindowFor(date)))
               \/ Windows!EarlyFor(Windows!WindowAt(date, Windows!WeeklyWindowFor(date)))
    PROVE  /\ Windows!WindowAt(date, Windows!WeeklyWindowFor(date)) \in Windows!Candidates(now)
           /\ Windows!WindowAt(date, Windows!WeeklyWindowFor(date)) \in Plans
<1> DEFINE times == Windows!WeeklyWindowFor(date)
           w == Windows!WindowAt(date, times)
           D == Windows!LocalDate(now)
<1>1. times \in Times
  <2>1. date % Week \in Windows!Weekdays
    BY ClockConstants DEF Windows!Weekdays
  <2> QED BY <2>1 DEF Windows!Runs, Windows!WeeklyWindowFor, ClockInv, Windows!WeeklyRules
<1>2. w \in Plans
  BY <1>1, WindowIsPlan
<1>3. w.start - Early <= now /\ now <= w.end
  <2>1. w.start \in Int /\ w.end \in Int /\ Early \in Nat
    BY <1>2, OfficeAssumption DEF Plans, Windows!ClockAssumption
  <2>2. Windows!InWindow(w) \/ Windows!EarlyFor(w)
    OBVIOUS
  <2> HIDE DEF w
  <2> QED BY <2>1, <2>2 DEF Windows!InWindow, Windows!EarlyFor
<1>4. date - D \in -2 .. 2
  <2> HIDE DEF times
  <2> QED BY <1>1, <1>3, WindowIsNear
<1>5. D \in Int
  BY LocalDateIsDate
<1> HIDE DEF D
<1>6. date = D + (date - D)
  BY <1>5
<1>7. w \in Windows!Candidates(now)
  BY <1>4, <1>6 DEF Windows!Candidates, Windows!Offsets, D
<1> QED BY <1>2, <1>7

\* What is startable at a moment that a candidate lasts or is about to begin at.
LEMMA CandidateIsStartable ==
    ASSUME ClockInv, now \in Nat, NEW w \in Windows!Candidates(now), w \in Plans
    PROVE  /\ Windows!InWindow(w) => Windows!Startable
           /\ Windows!EarlyFor(w) /\ Windows!Runs(Windows!LocalDate(now)) => Windows!Startable
<1> DEFINE all == Windows!Candidates(now)
           containing == Windows!Containing(all, now)
           future == Windows!Future(all, now)
<1>0. now \in Int
  OBVIOUS
<1>1. all \subseteq Plans
  BY <1>0, CandidatesAreFive
<1>2. PICK a, b, c, d, e : all \subseteq {a, b, c, d, e}
  BY <1>0, CandidatesAreFive
<1>3. Windows!Window(now) = IF containing # {} THEN Windows!LastStarted(containing)
                            ELSE IF ~Windows!Runs(Windows!LocalDate(now)) \/ future = {} THEN None
                            ELSE Windows!Nearest(future, now)
  BY DEF Windows!Window
<1> HIDE DEF all
<1>4. /\ containing \in SUBSET Plans /\ containing \subseteq {a, b, c, d, e} /\ containing \subseteq all
      /\ \A v \in all : v \in containing <=> v.start <= now /\ now <= v.end
  BY <1>1, <1>2 DEF Windows!Containing
<1>5. /\ future \in SUBSET Plans /\ future \subseteq {a, b, c, d, e} /\ future \subseteq all
      /\ \A v \in all : v \in future <=> v.end > now
  BY <1>1, <1>2 DEF Windows!Future
<1>6. /\ Early \in Nat /\ None \notin Plans
      /\ \A v \in Plans : v.start \in Int /\ v.end \in Int
  BY OfficeAssumption DEF Windows!ClockAssumption, Plans
<1>7. w \in all
  BY DEF all
<1> HIDE DEF containing, future
<1>8. CASE containing # {}
  <2>1. Windows!LastStarted(containing) \in containing
    BY <1>4, <1>8, LastStartedIsOne
  <2>2. Windows!Window(now) \in containing
    BY <1>3, <1>8, <2>1
  <2>3. Windows!Window(now) \in Plans /\ Windows!Window(now).start <= now
    BY <1>1, <1>4, <2>2
  <2> QED BY <1>6, <2>3 DEF Windows!Startable, Windows!IsScheduleStartable
<1>9. CASE containing = {}
  <2>1. ~Windows!InWindow(w)
    BY <1>4, <1>7, <1>9 DEF Windows!InWindow
  <2>2. ASSUME Windows!EarlyFor(w), Windows!Runs(Windows!LocalDate(now)) PROVE Windows!Startable
    <3> DEFINE next == Windows!Nearest(future, now)
    <3>1. w \in future /\ w.start - Early <= now /\ now < w.start
      BY <1>5, <1>6, <1>7, <2>2 DEF Windows!EarlyFor
    <3>2. next \in future
      BY <1>0, <1>5, <3>1, NearestIsOne
    <3>3. Windows!Distance(now, next.start) <= Windows!Distance(now, w.start)
      <4>1. HasNearest(future, now)
        BY <1>0, <1>5, <3>1, SomeIsNearest
      <4> QED BY <3>1, <4>1, Zenon DEF HasNearest, Windows!Nearest
    <3>4. Windows!Window(now) = next
      BY <1>3, <1>9, <2>2, <3>1
    <3> HIDE DEF next
    <3>5. next \in Plans /\ now < next.start
      <4>1. next \in Plans /\ next \in all /\ next.end > now
        BY <1>5, <3>2
      <4>2. next \notin containing
        BY <1>9
      <4> QED BY <1>4, <1>6, <4>1, <4>2
    <3>6. next.start - Early <= now
      BY <1>6, <3>1, <3>3, <3>5 DEF Windows!Distance
    <3> QED BY <1>6, <3>4, <3>5, <3>6 DEF Windows!Startable, Windows!IsScheduleStartable
  <2> QED BY <2>1, <2>2
<1> QED BY <1>8, <1>9

\* Whatever the rules, the clocks and the moment: who comes in a window of the schedule
\* can start on it, and who comes early enough can, too, unless it is a day without work
\* (services/work_schedule.py, compute_scheduled_window_with_weekly_rules and
\* is_schedule_startable).
THEOREM WorkIsStartable == Spec => []NobodyTurnedAway
<1>1. WindowInv => NobodyTurnedAway
  <2> SUFFICES ASSUME ClockInv, now \in Nat,
                      NEW date \in Int, Windows!Runs(date),
                      NEW w, w = Windows!WindowAt(date, Windows!WeeklyWindowFor(date))
               PROVE  /\ Windows!InWindow(w) => Windows!Startable
                      /\ Windows!EarlyFor(w) =>
                            Windows!Startable \/ ~Windows!Runs(Windows!LocalDate(now))
    BY DEF WindowInv, NobodyTurnedAway, Windows!NobodyTurnedAway
  <2>1. Windows!InWindow(w) \/ Windows!EarlyFor(w) => w \in Windows!Candidates(now) /\ w \in Plans
    BY NearIsCandidate
  <2> QED BY <2>1, CandidateIsStartable
<1> QED BY <1>1, InitWindowInv, NextWindowInv, PTL DEF Spec

(***************************************************************************)
(* The workplace                                                           *)
(***************************************************************************)

\* What the employee's list and start need to know of the rows.
PlaceInv == part = "workplace" => locations \subseteq Locations

LEMMA NextPlaceInv == PlaceInv /\ [Next]_officeVars => PlaceInv'
<1> SUFFICES ASSUME locations \subseteq Locations, part = "workplace", [Next]_officeVars
             PROVE  locations' \subseteq Locations
  BY DEF PlaceInv, Next, TestsMove, OvertimeMoves, WindowMoves, WorkplaceMoves, FilesMove,
         KnowledgeMoves, officeVars
<1>1. CASE WorkplaceMoves
  <2>1. ASSUME NEW l \in Locations, Work!CreateWorkLocation(l) PROVE locations' \subseteq Locations
    BY <2>1 DEF Work!CreateWorkLocation
  <2>2. ASSUME NEW h \in Handlers, Work!DeleteWorkLocation(h) PROVE locations' \subseteq Locations
    BY <2>2 DEF Work!DeleteWorkLocation
  <2>3. CASE /\ ~\E l \in Locations : Work!CreateWorkLocation(l)
             /\ ~\E h \in Handlers : Work!DeleteWorkLocation(h)
    <3>1. UNCHANGED locations
      BY <1>1, <2>3, Zenon
         DEF WorkplaceMoves, Work!Next, Work!ManageOrganization, Work!ManageSchedules,
             Work!ManageChecklist, Work!StartShift, Work!FinishShift, Work!organization,
             Work!CreateRole, Work!DeleteRole, Work!LoadForDeleteWorkLocation,
             Work!LoadForUpdateSettings, Work!UpdateSettings, Work!Dies,
             Work!AssignRoleToMember, Work!RemoveMember, Work!JoinByInvite,
             Work!CreateSchedule, Work!EditSchedule, Work!DeleteSchedule,
             Work!SetMemberScheduleOverrides, Work!DeleteTemplate, Work!RestoreTemplate,
             Work!LinkTemplate, Work!SetMemberOverride
    <3> QED BY <3>1
  <2> QED BY <2>1, <2>2, <2>3
<1>2. CASE ~WorkplaceMoves
  BY <1>2 DEF Next, TestsMove, OvertimeMoves, WindowMoves, FilesMove, KnowledgeMoves, officeVars, managing
<1> QED BY <1>1, <1>2

LEMMA NearestIsTheOne ==
    ASSUME NEW near \in SUBSET Locations, NEW k \in Work!Nearest(near), NEW l \in Work!Nearest(near)
    PROVE  k = l
<1>1. k \in Locations /\ l \in Locations /\ Order[k] <= Order[l] /\ Order[l] <= Order[k]
  BY DEF Work!Nearest
<1> QED BY <1>1, OfficeAssumption DEF Work!WorkplaceAssumption

\* Where the start gets to a location, the list was made for that location.
LEMMA ListIsForTheStart ==
    ASSUME locations \subseteq Locations, NEW ask \in Work!Asks, NEW at \in Work!StartLocation(ask)
    PROVE  Work!ListedLocation(ask) = {at}
<1>1. /\ ask.choice \in Locations \cup {None}
      /\ ask.near \in (SUBSET locations) \cup {None}
      /\ ask.photo => ask.near = None
  BY DEF Work!Asks
<1>2. None \notin Locations
  BY OfficeAssumption DEF Work!WorkplaceAssumption
<1>3. \/ locations \cap {ask.choice} = {ask.choice} /\ at = ask.choice
      \/ ask.choice = None /\ settings.geo /\ ask.near # None /\ at \in Work!Nearest(ask.near)
      \/ ask.choice = None /\ ~settings.geo /\ at = None
  BY <1>1, <1>2 DEF Work!StartLocation, Work!Nearest
<1>4. CASE ask.choice = None /\ settings.geo /\ ask.near # None /\ at \in Work!Nearest(ask.near)
  <2>1. ask.near \in SUBSET Locations /\ ask.near # {}
    BY <1>1, <1>4 DEF Work!Nearest
  <2>2. Work!Nearest(ask.near) = {at}
    BY <1>4, <2>1, NearestIsTheOne
  <2> QED BY <1>4, <2>1, <2>2 DEF Work!ListedLocation
<1>5. CASE ask.choice # None
  BY <1>3, <1>5 DEF Work!ListedLocation
<1>6. CASE ask.choice = None /\ ~settings.geo /\ at = None
  BY <1>6 DEF Work!ListedLocation
<1>7. ask.choice = None => ~(locations \cap {ask.choice} = {ask.choice})
  BY <1>2
<1> QED BY <1>3, <1>4, <1>5, <1>6, <1>7

\* The start pins what the list says can be started, at the location of both.
LEMMA StartIsListed ==
    ASSUME NEW at, NEW windows \in Work!Windows
    PROVE  /\ \A s \in Work!Existing :
                 (s \in Work!StartSchedule(at, s, windows)) = (s \in Work!CanStartNow(at, windows))
           /\ Work!StartSchedule(at, None, windows) \ {None} \subseteq Work!CanStartNow(at, windows)
<1>1. ASSUME NEW s \in Work!Existing
      PROVE  (s \in Work!StartSchedule(at, s, windows)) = (s \in Work!CanStartNow(at, windows))
  <2>1. s # None /\ windows[s] \in {"closed", "early", "open"}
    BY OfficeAssumption DEF Work!WorkplaceAssumption, Work!Existing, Work!Windows
  <2> QED BY <2>1 DEF Work!StartSchedule, Work!CanStartNow
<1>2. Work!StartSchedule(at, None, windows) \ {None} \subseteq Work!CanStartNow(at, windows)
  BY DEF Work!StartSchedule, Work!CanStartNow
<1> QED BY <1>1, <1>2

LEMMA PlaceInvSaysListed == PlaceInv => ListedIsStartable
<1> SUFFICES ASSUME locations \subseteq Locations,
                    NEW ask \in Work!Asks, NEW windows \in Work!Windows,
                    NEW at \in Work!StartLocation(ask),
                    NEW listed,
                    listed = UNION {Work!CanStartNow(l, windows) : l \in Work!ListedLocation(ask)}
             PROVE  /\ \A s \in Work!Existing :
                          (s \in Work!StartSchedule(at, s, windows)) = (s \in listed)
                    /\ Work!StartSchedule(at, None, windows) \ {None} \subseteq listed
  BY DEF PlaceInv, ListedIsStartable, Work!ListedIsStartable
<1>1. listed = Work!CanStartNow(at, windows)
  BY ListIsForTheStart
<1> QED BY <1>1, StartIsListed

\* Whatever the administrators set up and the application sends: the start of a shift
\* pins the schedules that my-schedules lists as startable, and no other one
\* (services/work_schedule.py, get_my_schedules; services/shift.py,
\* _resolve_org_shift_start and _resolve_org_shift_schedule).
THEOREM ListIsStartable == Spec => []ListedIsStartable
<1>1. Init => PlaceInv
  BY DEF Init, Work!Init, PlaceInv
<1> QED BY <1>1, NextPlaceInv, PlaceInvSaysListed, PTL DEF Spec

\* Whatever is linked and overridden: a checklist that is issued was in each preview of
\* the member's checklists that covers the shift (services/checklist_assignment.py,
\* get_effective_templates; services/checklist_instance.py, create_instances_for_shift).
THEOREM PreviewsCoverIssued == Spec => []PreviewCoversIssued
<1>1. PreviewCoversIssued
  <2>1. ASSUME NEW at \in locations \cup {None}, NEW s \in Work!Existing \cup {None},
               member # None
        PROVE  /\ Work!IssuesTemplate(at, s) =>
                     /\ Work!PreviewsTemplate(at, s) /\ Work!PreviewsTemplate(at, None)
                     /\ Work!PreviewsTemplate(None, None)
               /\ (at # None /\ s # None) =>
                     Work!PreviewsTemplate(at, s) = Work!IssuesTemplate(at, s)
    BY DEF Work!IssuesTemplate, Work!PreviewsTemplate, Work!TemplateApplies
  <2> QED BY <2>1 DEF PreviewCoversIssued, Work!PreviewCoversIssued
<1> QED BY <1>1, PTL

(***************************************************************************)
(* The knowledge base                                                 *)
(***************************************************************************)

Made(n) == parent[n] # None

\* What is a parent has been made, and nothing is its own.
ParentInv ==
    /\ parent \in [Base!Nodes -> Base!Nodes \cup {Root, Gone, None}]
    /\ \A n \in Base!Existing : parent[n] \in Base!Nodes => Made(parent[n]) /\ parent[n] # n

\* What a request that moves a node holds.
Moves == [node : Base!Nodes, to : Base!Nodes \cup {Root},
          cursor : Base!Nodes \cup {Root, Gone, None}, seen : SUBSET Base!Nodes]

\* The row that a move locked stays, and where it goes to was once made.
MoveInv ==
    /\ move \in [Handlers -> Moves \cup {None}]
    /\ \A h \in Base!Moving :
        /\ move[h].node \in Base!Existing
        /\ move[h].to # move[h].node
        /\ move[h].to \in Base!Nodes => Made(move[h].to)

\* A walk that read the new parent saw its parent by then, and nobody hangs the new parent
\* below the node after that, for the foreign key waits for the lock of the node.
WalkInv ==
    \A h \in Base!Moving :
        \/ move[h].seen = {} /\ move[h].cursor = move[h].to
        \/ move[h].to \in Base!Nodes /\ parent[move[h].to] = move[h].node =>
               move[h].node \in move[h].seen \cup {move[h].cursor}

TreeInv == ParentInv /\ MoveInv /\ WalkInv /\ Base!NoMutualParents

LEMMA MoveShape ==
    ASSUME MoveInv, NEW h \in Base!Moving
    PROVE  /\ move[h] \in Moves
           /\ h \in Handlers
  BY DEF MoveInv, Base!Moving

LEMMA InitTreeInv == ASSUME Base!Init PROVE TreeInv
<1>1. /\ parent = [n \in Base!Nodes |-> None]
      /\ move = [h \in Handlers |-> None]
      /\ Base!Existing = {} /\ Base!Moving = {}
  BY Zenon DEF Base!Init, Base!Existing, Base!Moving
<1> QED BY <1>1 DEF TreeInv, ParentInv, MoveInv, WalkInv, Base!NoMutualParents

(***************************************************************************)
(* The actions                                                             *)
(***************************************************************************)

LEMMA CreateNodeKeepsTree ==
    ASSUME TreeInv, NEW n \in Base!Nodes, NEW under \in Base!Nodes \cup {Root},
           Base!CreateNode(n, under)
    PROVE  TreeInv'
<1>1. /\ parent[n] = None /\ under \in Base!Existing \cup {Root}
      /\ parent' = [parent EXCEPT ![n] = under]
      /\ move' = move
  BY Zenon DEF Base!CreateNode
<1>2. /\ parent'[n] = under
      /\ \A m \in Base!Nodes \ {n} : parent'[m] = parent[m]
  BY <1>1 DEF TreeInv, ParentInv
<1>3. \A m \in Base!Existing : m # n
  BY <1>1 DEF Base!Existing
<1>4. /\ Base!Existing' = Base!Existing \cup {n}
      /\ Base!Moving' = Base!Moving
  BY <1>1, <1>2, OfficeAssumption DEF Base!Existing, Base!Moving, Base!KnowledgeAssumption
<1>5. ParentInv'
  <2>1. parent' \in [Base!Nodes -> Base!Nodes \cup {Root, Gone, None}]
    BY <1>1 DEF TreeInv, ParentInv, Base!Existing
  <2>2. ASSUME NEW m \in Base!Existing', parent'[m] \in Base!Nodes
        PROVE  parent'[parent'[m]] # None /\ parent'[m] # m
    <3>1. CASE m = n
      BY <3>1, <2>2, <1>1, <1>2, <1>3, OfficeAssumption
         DEF Base!Existing, Base!KnowledgeAssumption
    <3>2. CASE m # n
      BY <3>2, <2>2, <1>1, <1>2, <1>4 DEF TreeInv, ParentInv, Made, Base!Existing
    <3> QED BY <3>1, <3>2
  <2> QED BY <2>1, <2>2 DEF ParentInv, Made
<1>6. MoveInv'
  BY <1>1, <1>2, <1>4, OfficeAssumption
     DEF TreeInv, MoveInv, Made, Base!Existing, Base!KnowledgeAssumption
<1>7. WalkInv'
  BY <1>1, <1>2, <1>4 DEF TreeInv, MoveInv, WalkInv, Made
<1>8. Base!NoMutualParents'
  <2> SUFFICES ASSUME NEW m \in Base!Existing', parent'[m] \in Base!Existing'
               PROVE  parent'[parent'[m]] # m
    BY DEF Base!NoMutualParents
  <2>1. CASE m = n
    <3>1. under \in Base!Existing /\ under # n
      BY <2>1, <1>2, <1>3, <1>4, <1>1, OfficeAssumption
         DEF TreeInv, ParentInv, Made, Base!Existing, Base!KnowledgeAssumption
    <3> QED BY <2>1, <3>1, <1>1, <1>2 DEF TreeInv, ParentInv, Made, Base!Existing
  <2>2. CASE m # n
    <3>1. m \in Base!Existing /\ parent'[m] = parent[m] /\ parent[m] # n
      BY <2>2, <1>1, <1>2, <1>4 DEF TreeInv, ParentInv, Made, Base!Existing
    <3> QED BY <3>1, <1>2, <1>4 DEF TreeInv, Base!NoMutualParents, Base!Existing
  <2> QED BY <2>1, <2>2
<1> QED BY <1>5, <1>6, <1>7, <1>8 DEF TreeInv

LEMMA DeleteNodeKeepsTree ==
    ASSUME TreeInv, NEW n \in Base!Nodes, Base!DeleteNode(n)
    PROVE  TreeInv'
<1> DEFINE subtree == {m \in Base!Existing : n \in Base!Path(m)}
<1>1. /\ subtree \cap Base!Locked = {}
      /\ parent' = [m \in Base!Nodes |-> IF m \in subtree THEN Gone ELSE parent[m]]
      /\ move' = move
  BY Zenon DEF Base!DeleteNode
<1>2. subtree \subseteq Base!Existing
  OBVIOUS
<1> HIDE DEF subtree
<1>3. \A m \in Base!Nodes : parent'[m] = parent[m] \/ (m \in Base!Existing /\ parent'[m] = Gone)
  BY <1>1, <1>2
<1>4. \A m \in Base!Nodes : m \notin subtree => parent'[m] = parent[m]
  BY <1>1
<1>5. /\ Base!Existing' \subseteq Base!Existing
      /\ \A m \in Base!Existing' : parent'[m] = parent[m]
      /\ Base!Moving' = Base!Moving
  BY <1>1, <1>3 DEF Base!Existing, Base!Moving
<1>6. \A m \in Base!Existing : m \notin subtree => m \in Base!Existing'
  BY <1>4 DEF Base!Existing
<1>7. ParentInv'
  BY <1>1, <1>3, <1>5, OfficeAssumption
     DEF TreeInv, ParentInv, Made, Base!Existing, Base!KnowledgeAssumption
<1>8. MoveInv'
  <2> SUFFICES ASSUME NEW h \in Base!Moving
               PROVE  /\ move[h].node \in Base!Existing'
                      /\ move[h].to # move[h].node
                      /\ move[h].to \in Base!Nodes => parent'[move[h].to] # None
    BY <1>1, <1>5 DEF TreeInv, MoveInv, Made
  <2>1. move[h].node \in Base!Locked
    BY DEF Base!Locked
  <2> QED BY <2>1, <1>1, <1>3, <1>6, OfficeAssumption
             DEF TreeInv, MoveInv, Made, Base!KnowledgeAssumption
<1>9. WalkInv'
  <2> SUFFICES ASSUME NEW h \in Base!Moving,
                      move[h].to \in Base!Nodes, parent'[move[h].to] = move[h].node
               PROVE  parent[move[h].to] = move[h].node
    BY <1>1, <1>5 DEF TreeInv, WalkInv
  <2>1. move[h].node \in Base!Existing
    BY DEF TreeInv, MoveInv
  <2> QED BY <2>1, <1>3, OfficeAssumption DEF Base!Existing, Base!KnowledgeAssumption
<1>10. Base!NoMutualParents'
  BY <1>5 DEF TreeInv, Base!NoMutualParents
<1> QED BY <1>7, <1>8, <1>9, <1>10 DEF TreeInv

LEMMA LoadMoveKeepsTree ==
    ASSUME TreeInv, NEW h \in Handlers, NEW n \in Base!Nodes, NEW to \in Base!Nodes \cup {Root},
           Base!LoadMove(h, n, to)
    PROVE  TreeInv'
<1>1. /\ n \in Base!Existing /\ to \in (Base!Existing \ {n}) \cup {Root}
      /\ move' = [move EXCEPT ![h] = [node |-> n, to |-> to, cursor |-> to, seen |-> {}]]
      /\ parent' = parent
  BY Zenon DEF Base!LoadMove
<1>2. Base!Existing' = Base!Existing
  BY <1>1 DEF Base!Existing
<1>3. /\ move' \in [Handlers -> Moves \cup {None}]
      /\ \A k \in Base!Moving' :
            \/ k \in Base!Moving /\ move'[k] = move[k]
            \/ /\ move'[k].node = n /\ move'[k].to = to
               /\ move'[k].cursor = to /\ move'[k].seen = {}
  <2> DEFINE loaded == [node |-> n, to |-> to, cursor |-> to, seen |-> {}]
  <2>1. /\ loaded \in Moves
        /\ loaded.node = n /\ loaded.to = to /\ loaded.cursor = to /\ loaded.seen = {}
    BY DEF Moves
  <2>2. move' = [move EXCEPT ![h] = loaded]
    BY <1>1
  <2> HIDE DEF loaded
  <2> QED BY <2>1, <2>2 DEF TreeInv, MoveInv, Base!Moving
<1>4. ParentInv' /\ Base!NoMutualParents'
  BY <1>1, <1>2 DEF TreeInv, ParentInv, Made, Base!NoMutualParents
<1>5. n # Root
  BY OfficeAssumption DEF Base!KnowledgeAssumption
<1>6. MoveInv'
  <2> SUFFICES ASSUME NEW k \in Base!Moving'
               PROVE  /\ move'[k].node \in Base!Existing
                      /\ move'[k].to # move'[k].node
                      /\ move'[k].to \in Base!Nodes => Made(move'[k].to)
    BY <1>1, <1>2, <1>3 DEF MoveInv, Made
  <2>1. CASE k \in Base!Moving /\ move'[k] = move[k]
    BY <2>1 DEF TreeInv, MoveInv
  <2>2. CASE move'[k].node = n /\ move'[k].to = to
    <3>1. n \in Base!Existing /\ to # n /\ (to \in Base!Nodes => parent[to] # None)
      BY <1>1, <1>5, OfficeAssumption DEF Base!Existing, Base!KnowledgeAssumption
    <3> QED BY <2>2, <3>1 DEF Made
  <2>3. \/ k \in Base!Moving /\ move'[k] = move[k]
        \/ move'[k].node = n /\ move'[k].to = to
    BY <1>3
  <2> QED BY <2>1, <2>2, <2>3
<1>7. WalkInv'
  BY <1>1, <1>3 DEF TreeInv, WalkInv
<1> QED BY <1>4, <1>6, <1>7 DEF TreeInv

LEMMA AncestorKeepsTree ==
    ASSUME TreeInv, NEW h \in Handlers, Base!Ancestor(h)
    PROVE  TreeInv'
<1>1. /\ h \in Base!Moving /\ move[h].cursor \in Base!Existing \ move[h].seen
      /\ parent' = parent
      /\ \E seen \in Base!Walked(move[h]) :
            move' = [move EXCEPT ![h].cursor = parent[move[h].cursor], ![h].seen = seen]
  BY Zenon DEF Base!Ancestor
<1>2. PICK seen \in Base!Walked(move[h]) :
          move' = [move EXCEPT ![h].cursor = parent[move[h].cursor], ![h].seen = seen]
  BY <1>1
<1>3. seen = move[h].seen \cup {move[h].cursor}
  BY <1>2 DEF Base!Walked
<1>4. /\ move' \in [Handlers -> Moves \cup {None}]
      /\ \A k \in Base!Moving' :
            /\ k \in Base!Moving
            /\ \/ move'[k] = move[k]
               \/ /\ k = h /\ move'[k].node = move[k].node /\ move'[k].to = move[k].to
                  /\ move'[k].cursor = parent[move[k].cursor] /\ move'[k].seen = seen
  <2> DEFINE above == parent[move[h].cursor]
             walked == [[move[h] EXCEPT !.cursor = above] EXCEPT !.seen = seen]
  <2>1. move[h] \in Moves
    BY <1>1, MoveShape DEF TreeInv
  <2>2. move' = [move EXCEPT ![h] = walked]
    BY <1>1, <1>2, <2>1 DEF TreeInv, MoveInv
  <2>3. above \in Base!Nodes \cup {Root, Gone, None} /\ seen \in SUBSET Base!Nodes
    BY <1>1, <1>3, <2>1 DEF TreeInv, ParentInv, Moves, Base!Existing
  <2> HIDE DEF above
  <2>4. /\ walked \in Moves
        /\ walked.node = move[h].node /\ walked.to = move[h].to
        /\ walked.cursor = above /\ walked.seen = seen
    BY <2>1, <2>3 DEF Moves
  <2> HIDE DEF walked
  <2>5. \A k \in Base!Moving' : k \in Base!Moving
    BY <2>2, <1>1 DEF Base!Moving
  <2>6. \A k \in Base!Moving' : k # h => move'[k] = move[k]
    BY <2>2 DEF TreeInv, MoveInv, Base!Moving
  <2>7. move'[h] = walked
    BY <2>2, <1>1 DEF TreeInv, MoveInv, Base!Moving
  <2>8. move' \in [Handlers -> Moves \cup {None}]
    BY <2>2, <2>4 DEF TreeInv, MoveInv
  <2> QED BY <2>4, <2>5, <2>6, <2>7, <2>8 DEF above
<1>5. Base!Existing' = Base!Existing
  BY <1>1 DEF Base!Existing
<1>6. ParentInv' /\ Base!NoMutualParents'
  BY <1>1, <1>5 DEF TreeInv, ParentInv, Made, Base!NoMutualParents
<1>7. MoveInv'
  <2> SUFFICES ASSUME NEW k \in Base!Moving'
               PROVE  /\ move'[k].node \in Base!Existing
                      /\ move'[k].to # move'[k].node
                      /\ move'[k].to \in Base!Nodes => Made(move'[k].to)
    BY <1>1, <1>4, <1>5 DEF MoveInv, Made
  <2>1. k \in Base!Moving /\ move'[k].node = move[k].node /\ move'[k].to = move[k].to
    BY <1>4
  <2> QED BY <2>1 DEF TreeInv, MoveInv
<1>8. WalkInv'
  <2> SUFFICES ASSUME NEW k \in Base!Moving'
               PROVE  \/ move'[k].seen = {} /\ move'[k].cursor = move'[k].to
                      \/ move'[k].to \in Base!Nodes /\ parent[move'[k].to] = move'[k].node =>
                             move'[k].node \in move'[k].seen \cup {move'[k].cursor}
    BY <1>1 DEF WalkInv
  <2>1. k \in Base!Moving
    BY <1>4
  <2>2. CASE move'[k] = move[k]
    BY <2>1, <2>2 DEF TreeInv, WalkInv
  <2>3. CASE /\ k = h /\ move'[k].node = move[k].node /\ move'[k].to = move[k].to
             /\ move'[k].cursor = parent[move[k].cursor] /\ move'[k].seen = seen
    <3>1. CASE move[h].seen = {} /\ move[h].cursor = move[h].to
      BY <2>3, <3>1
    <3>2. CASE ~(move[h].seen = {} /\ move[h].cursor = move[h].to)
      BY <1>1, <1>3, <2>3, <3>2 DEF TreeInv, WalkInv
    <3> QED BY <3>1, <3>2
  <2> QED BY <1>4, <2>2, <2>3
<1> QED BY <1>6, <1>7, <1>8 DEF TreeInv

LEMMA MoveFailsKeepsTree ==
    ASSUME TreeInv, NEW h \in Handlers, Base!MoveFails(h)
    PROVE  TreeInv'
<1>1. /\ move' = [move EXCEPT ![h] = None]
      /\ parent' = parent
  BY Zenon DEF Base!MoveFails
<1>2. /\ move' \in [Handlers -> Moves \cup {None}]
      /\ \A k \in Base!Moving' : k \in Base!Moving /\ move'[k] = move[k]
  BY <1>1 DEF TreeInv, MoveInv, Base!Moving
<1>3. Base!Existing' = Base!Existing
  BY <1>1 DEF Base!Existing
<1> QED
  BY <1>1, <1>2, <1>3
     DEF TreeInv, ParentInv, MoveInv, WalkInv, Made, Base!NoMutualParents

\* Where a move ends, the parent of the new parent is not the node that was moved.
LEMMA NoCounterMove ==
    ASSUME TreeInv, NEW h \in Base!Moving, Base!WalkIsOver(move[h]),
           move[h].node \notin move[h].seen,
           move[h].to \in Base!Existing
    PROVE  parent[move[h].to] # move[h].node
<1>1. move[h].cursor \notin Base!Existing \ move[h].seen
  BY Zenon DEF Base!WalkIsOver
<1>2. move[h].node \in Base!Existing
  BY DEF TreeInv, MoveInv
<1>3. CASE move[h].seen = {} /\ move[h].cursor = move[h].to
  BY <1>1, <1>3
<1>4. CASE ~(move[h].seen = {} /\ move[h].cursor = move[h].to)
  BY <1>1, <1>2, <1>4 DEF TreeInv, WalkInv, Base!Existing
<1> QED BY <1>3, <1>4

LEMMA CommitMoveKeepsTree ==
    ASSUME TreeInv, NEW h \in Handlers, Base!CommitMove(h)
    PROVE  TreeInv'
<1> DEFINE node == move[h].node
           to == move[h].to
<1>1. /\ h \in Base!Moving /\ Base!WalkIsOver(move[h])
      /\ node \in Base!Existing /\ node \notin move[h].seen
      /\ to \in (Base!Existing \ Base!LockedByOthers(h)) \cup {Root}
      /\ parent' = [parent EXCEPT ![node] = to]
      /\ move' = [move EXCEPT ![h] = None]
  BY Zenon DEF Base!CommitMove
<1>2. to # node
  BY <1>1 DEF TreeInv, MoveInv
<1>3. to \in Base!Existing => parent[to] # node
  BY <1>1, NoCounterMove
<1>4. /\ move' \in [Handlers -> Moves \cup {None}]
      /\ \A k \in Base!Moving' : k \in Base!Moving /\ k # h /\ move'[k] = move[k]
  BY <1>1 DEF TreeInv, MoveInv, Base!Moving
<1>5. \A k \in Base!Moving' : to # move[k].node
  <2> SUFFICES ASSUME NEW k \in Base!Moving' PROVE to # move[k].node
    OBVIOUS
  <2>1. move[k].node \in Base!LockedByOthers(h)
    BY <1>4 DEF Base!LockedByOthers
  <2>2. move[k].node \in Base!Nodes
    BY <1>4 DEF TreeInv, MoveInv, Base!Existing
  <2> QED BY <2>1, <2>2, <1>1, OfficeAssumption DEF Base!KnowledgeAssumption
<1> HIDE DEF node, to
<1>6. /\ parent'[node] = to
      /\ \A m \in Base!Nodes \ {node} : parent'[m] = parent[m]
  BY <1>1 DEF TreeInv, ParentInv, Base!Existing
<1>7. Base!Existing' = Base!Existing
  BY <1>1, <1>6, OfficeAssumption DEF Base!Existing, Base!KnowledgeAssumption
<1>8. \A m \in Base!Nodes : parent[m] # None => parent'[m] # None
  BY <1>1, <1>6, OfficeAssumption DEF Base!Existing, Base!KnowledgeAssumption
<1>9. ParentInv'
  <2>1. parent' \in [Base!Nodes -> Base!Nodes \cup {Root, Gone, None}]
    BY <1>1 DEF TreeInv, ParentInv, Base!Existing
  <2>2. ASSUME NEW m \in Base!Existing, parent'[m] \in Base!Nodes
        PROVE  parent'[parent'[m]] # None /\ parent'[m] # m
    <3>1. CASE m = node
      BY <3>1, <2>2, <1>1, <1>2, <1>6, <1>8, OfficeAssumption
         DEF Base!Existing, Base!KnowledgeAssumption
    <3>2. CASE m # node
      BY <3>2, <2>2, <1>6, <1>8 DEF TreeInv, ParentInv, Made, Base!Existing
    <3> QED BY <3>1, <3>2
  <2> QED BY <2>1, <2>2, <1>7 DEF ParentInv, Made
<1>10. MoveInv'
  BY <1>4, <1>7, <1>8 DEF TreeInv, MoveInv, Made
<1>11. WalkInv'
  <2> SUFFICES ASSUME NEW k \in Base!Moving',
                      move[k].to \in Base!Nodes, parent'[move[k].to] = move[k].node
               PROVE  parent[move[k].to] = move[k].node
    BY <1>4 DEF TreeInv, WalkInv
  <2> QED BY <1>5, <1>6
<1>12. Base!NoMutualParents'
  <2> SUFFICES ASSUME NEW m \in Base!Existing, parent'[m] \in Base!Existing
               PROVE  parent'[parent'[m]] # m
    BY <1>7 DEF Base!NoMutualParents
  <2>1. CASE m = node
    BY <2>1, <1>2, <1>3, <1>6 DEF Base!Existing
  <2>2. CASE m # node
    <3>1. parent'[m] = parent[m]
      BY <2>2, <1>6 DEF Base!Existing
    <3>2. CASE parent[m] = node
      BY <3>1, <3>2, <1>3, <1>6
    <3>3. CASE parent[m] # node
      BY <3>1, <3>3, <2>2, <1>6 DEF TreeInv, Base!NoMutualParents, Base!Existing
    <3> QED BY <3>2, <3>3
  <2> QED BY <2>1, <2>2
<1> QED BY <1>9, <1>10, <1>11, <1>12 DEF TreeInv

(***************************************************************************)
(* The theorem                                                             *)
(***************************************************************************)

LEMMA NextKeepsTree ==
    ASSUME TreeInv, Base!Next
    PROVE  TreeInv'
<1>1. ASSUME NEW n \in Base!Nodes, NEW granted \in Grants, Base!ReplaceAccess(n, granted)
      PROVE  TreeInv'
  <2>1. UNCHANGED <<parent, move>>
    BY <1>1, Zenon DEF Base!ReplaceAccess
  <2> QED BY <2>1 DEF TreeInv, ParentInv, MoveInv, WalkInv, Made, Base!NoMutualParents,
                      Base!Existing, Base!Moving
<1> QED
  BY <1>1, CreateNodeKeepsTree, LoadMoveKeepsTree, DeleteNodeKeepsTree, AncestorKeepsTree,
     MoveFailsKeepsTree, CommitMoveKeepsTree
     DEF Base!Next

\* While the knowledge base is the part that moves, its invariant holds.
KnowledgeInv == part = "knowledge" => TreeInv

\* Two nodes never become each other's parents, however many moves overlap and whatever
\* is created and deleted meanwhile (services/knowledge.py, _move_node, _ancestor_ids).
THEOREM NeverMutualParents == Spec => []NoMutualParents
<1>1. Init => KnowledgeInv
  BY InitTreeInv DEF Init, KnowledgeInv
<1>2. KnowledgeInv /\ [Next]_officeVars => KnowledgeInv'
  <2> SUFFICES ASSUME KnowledgeInv, [Next]_officeVars, part' = "knowledge" PROVE TreeInv'
    BY DEF KnowledgeInv
  <2>1. CASE KnowledgeMoves
    BY <2>1, NextKeepsTree DEF KnowledgeMoves, KnowledgeInv
  <2>2. CASE ~KnowledgeMoves
    <3>1. part = "knowledge" /\ UNCHANGED knowing
      BY <2>2 DEF Next, TestsMove, OvertimeMoves, WindowMoves, WorkplaceMoves, FilesMove, officeVars
    <3>2. TreeInv /\ UNCHANGED <<parent, move>>
      BY <3>1 DEF KnowledgeInv, knowing
    <3> QED BY <3>2 DEF TreeInv, ParentInv, MoveInv, WalkInv, Made, Base!NoMutualParents,
                        Base!Existing, Base!Moving
  <2> QED BY <2>1, <2>2
<1>3. KnowledgeInv => NoMutualParents
  BY DEF KnowledgeInv, TreeInv, NoMutualParents
<1> QED BY <1>1, <1>2, <1>3, PTL DEF Spec

(***************************************************************************)
(* The path of a node                                                      *)
(***************************************************************************)

\* Induction up to a number, made by hand: among the segments 0..k of a set that reach
\* outside of reached there is a smallest.
LEMMA UpTo ==
    ASSUME NEW last \in Nat, NEW reached, 0 \in reached,
           \A k \in 0..last : k \in reached /\ k < last => k + 1 \in reached
    PROVE  0..last \subseteq reached
<1> DEFINE missed == {k \in 0..last : k \notin reached}
           segments == {s \in SUBSET (0..last) : \E k \in missed : s = 0..k}
<1>1. ASSUME missed # {} PROVE FALSE
  <2>1. segments # {} /\ segments \subseteq SUBSET (0..last)
    <3>1. PICK k \in missed : TRUE
      BY <1>1
    <3>2. 0..k \in segments
      BY <3>1
    <3> QED BY <3>2
  <2>2. IsWellFoundedOn(StrictSubsetOrdering(0..last), SUBSET (0..last))
    <3> DEFINE S == 0..last
    <3>1. IsFiniteSet(S)
      BY FS_Interval
    <3> HIDE DEF S
    <3>2. IsWellFoundedOn(StrictSubsetOrdering(S), SUBSET S)
      BY <3>1, FS_StrictSubsetOrderingWellFounded, FS_FiniteSubsetsOfFinite
    <3> QED BY <3>2 DEF S
  <2>3. PICK s \in segments : \A t \in segments : <<t, s>> \notin StrictSubsetOrdering(0..last)
    <3> HIDE DEF segments
    <3> QED BY <2>1, <2>2, WFMin
  <2>4. PICK k \in missed : s = 0..k
    OBVIOUS
  <2>5. k # 0 /\ k \in Nat /\ k <= last
    OBVIOUS
  <2>6. k - 1 \in missed
    BY <2>4, <2>5
  <2>7. 0..(k - 1) \in segments
    BY <2>5, <2>6
  <2>8. <<0..(k - 1), s>> \in StrictSubsetOrdering(0..last)
    <3>1. 0..(k - 1) \subseteq s /\ 0..(k - 1) # s /\ s \in SUBSET (0..last)
          /\ 0..(k - 1) \in SUBSET (0..last)
      <4>1. k \in 0..k /\ k \notin 0..(k - 1)
        BY <2>5
      <4> QED BY <4>1, <2>4, <2>5
    <3> HIDE DEF segments, missed
    <3> QED BY <3>1 DEF StrictSubsetOrdering
  <2> HIDE DEF segments, missed
  <2> QED BY <2>3, <2>7, <2>8
<1> QED BY <1>1

\* Some numbers up to a bound have a least one.
LEMMA LeastNumber ==
    ASSUME NEW last \in Nat, NEW S \in SUBSET (0..last), S # {}
    PROVE  \E k \in S : \A i \in 0..(k - 1) : i \notin S
<1> SUFFICES ASSUME \A k \in S : \E i \in 0..(k - 1) : i \in S PROVE FALSE
  OBVIOUS
<1> DEFINE spared == {k \in 0..last : \A i \in 0..k : i \notin S}
<1>1. 0 \in spared
  OBVIOUS
<1>2. ASSUME NEW k \in 0..last, k \in spared, k < last PROVE k + 1 \in spared
  <2>1. \A i \in 0..k : i \notin S
    BY <1>2
  <2>2. k + 1 \notin S
    BY <2>1, <1>2
  <2>3. \A i \in 0..(k + 1) : i \in 0..k \/ i = k + 1
    BY <1>2
  <2> QED BY <2>1, <2>2, <2>3, <1>2
<1> HIDE DEF spared
<1>3. 0..last \subseteq spared
  BY <1>1, <1>2, UpTo
<1> USE DEF spared
<1>4. \A k \in S : k \in 0..k
  OBVIOUS
<1> QED BY <1>3, <1>4

\* The node above, or the place where a path ends.
Higher(n) == IF n \in Base!Existing THEN parent[n] ELSE n

Climbs(up, n, last) ==
    up = [k \in 0..last |-> IF k = 0 THEN n ELSE Higher(up[k - 1])]

LEMMA ClimbStep ==
    ASSUME NEW up, NEW n, NEW last, Climbs(up, n, last), NEW k \in 0..last
    PROVE  up[k] = IF k = 0 THEN n ELSE Higher(up[k - 1])
<1>1. up = [i \in 0..last |-> IF i = 0 THEN n ELSE Higher(up[i - 1])]
  BY DEF Climbs
<1> QED BY <1>1

LEMMA ClimbExists ==
    ASSUME NEW n, NEW last \in Nat
    PROVE  \E up : Climbs(up, n, last)
<1> DEFINE reached == {k \in 0..last : \E up : Climbs(up, n, k)}
<1>1. 0 \in reached
  <2> DEFINE up == [k \in 0..0 |-> n]
  <2>1. up = [k \in 0..0 |-> IF k = 0 THEN n ELSE Higher(up[k - 1])]
    OBVIOUS
  <2>2. Climbs(up, n, 0)
    <3> HIDE DEF up
    <3> QED BY <2>1 DEF Climbs
  <2> QED BY <2>2
<1>2. ASSUME NEW k \in 0..last, k \in reached, k < last PROVE k + 1 \in reached
  <2>1. PICK up : Climbs(up, n, k)
    BY <1>2
  <2> DEFINE more == [i \in 0..(k + 1) |-> IF i <= k THEN up[i] ELSE Higher(up[k])]
             step(i) == IF i = 0 THEN n ELSE Higher(more[i - 1])
  <2>2. ASSUME NEW i \in 0..(k + 1) PROVE more[i] = step(i)
    <3>1. CASE i = 0
      <4>1. up[0] = n
        BY <2>1, <1>2, ClimbStep
      <4> QED BY <3>1, <4>1, <1>2
    <3>2. CASE i # 0 /\ i <= k
      <4>1. up[i] = Higher(up[i - 1])
        BY <2>1, <1>2, <3>2, ClimbStep
      <4>2. i - 1 \in 0..(k + 1) /\ i - 1 <= k
        BY <3>2
      <4>3. more[i - 1] = up[i - 1]
        BY <4>2
      <4>4. more[i] = up[i]
        BY <3>2
      <4> HIDE DEF more
      <4> QED BY <3>2, <4>1, <4>3, <4>4
    <3>3. CASE i = k + 1
      <4>1. more[k] = up[k] /\ more[i] = Higher(up[k]) /\ i # 0 /\ i - 1 = k
        BY <3>3, <1>2
      <4> HIDE DEF more
      <4> QED BY <4>1
    <3> QED BY <3>1, <3>2, <3>3, <1>2
  <2>3. more = [i \in 0..(k + 1) |-> more[i]]
    OBVIOUS
  <2>4. more = [i \in 0..(k + 1) |-> step(i)]
    <3> HIDE DEF more, step
    <3> QED BY <2>2, <2>3
  <2>5. Climbs(more, n, k + 1)
    <3> HIDE DEF more
    <3> QED BY <2>4 DEF Climbs
  <2> HIDE DEF more
  <2> QED BY <2>5, <1>2
<1> HIDE DEF reached
<1>3. 0..last \subseteq reached
  BY <1>1, <1>2, UpTo
<1> QED BY <1>3 DEF reached

LEMMA AboveClimbs == \A n : Climbs(Base!Above(n), n, LastNode)
<1> SUFFICES ASSUME NEW n PROVE Climbs(Base!Above(n), n, LastNode)
  OBVIOUS
<1>1. LastNode \in Nat
  BY OfficeAssumption DEF Base!KnowledgeAssumption
<1>2. \E up : Climbs(up, n, LastNode)
  BY <1>1, ClimbExists
<1>3. Base!Above(n) = CHOOSE up : Climbs(up, n, LastNode)
  BY Zenon DEF Base!Above, Climbs, Higher
<1> QED BY <1>2, <1>3

LEMMA AboveStep ==
    ASSUME NEW n
    PROVE  /\ Base!Above(n)[0] = n
           /\ \A k \in 0..LastNode : k < LastNode =>
                 Base!Above(n)[k + 1] = Higher(Base!Above(n)[k])
<1>1. LastNode \in Nat
  BY OfficeAssumption DEF Base!KnowledgeAssumption
<1>2. Climbs(Base!Above(n), n, LastNode)
  BY AboveClimbs
<1>3. \A k \in 0..LastNode :
          Base!Above(n)[k] = IF k = 0 THEN n ELSE Higher(Base!Above(n)[k - 1])
  BY <1>2, ClimbStep
<1>4. Base!Above(n)[0] = n
  BY <1>1, <1>3
<1>5. ASSUME NEW k \in 0..LastNode, k < LastNode
      PROVE  Base!Above(n)[k + 1] = Higher(Base!Above(n)[k])
  <2>1. k + 1 \in 0..LastNode /\ k + 1 # 0 /\ (k + 1) - 1 = k
    BY <1>1, <1>5
  <2> QED BY <2>1, <1>3
<1> QED BY <1>4, <1>5

LEMMA SomeNodes == LastNode \in Nat
BY OfficeAssumption DEF Base!KnowledgeAssumption

\* Where a path has ended it stays.
LEMMA PathStays ==
    ASSUME NEW n, NEW k \in 0..LastNode, NEW j \in 0..LastNode, k <= j,
           Base!Above(n)[j] \in Base!Existing
    PROVE  Base!Above(n)[k] \in Base!Existing
<1> DEFINE up == Base!Above(n)
           reached == {i \in 0..LastNode : k <= i => up[i] = up[k]}
<1> SUFFICES ASSUME up[k] \notin Base!Existing PROVE FALSE
  OBVIOUS
<1> HIDE DEF up
<1>1. 0 \in reached
  BY SomeNodes
<1>2. ASSUME NEW i \in 0..LastNode, i \in reached, i < LastNode PROVE i + 1 \in reached
  <2>1. up[i + 1] = Higher(up[i])
    BY <1>2, AboveStep DEF up
  <2>2. CASE k <= i
    BY <2>1, <2>2, <1>2, SomeNodes DEF Higher
  <2>3. CASE ~(k <= i)
    <3>1. k <= i + 1 => k = i + 1
      BY <1>2, <2>3, SomeNodes
    <3> QED BY <3>1, <1>2, SomeNodes
  <2> QED BY <2>2, <2>3
<1> HIDE DEF reached
<1>3. 0..LastNode \subseteq reached
  BY <1>1, <1>2, SomeNodes, UpTo
<1> QED BY <1>3 DEF reached, up

\* A level is the first at which its node is met.
LEMMA NodeIsOnPath ==
    ASSUME NEW n, NEW k \in 0..LastNode, Base!Above(n)[k] \in Base!Existing
    PROVE  Base!Above(n)[k] \in Base!Path(n)
<1> DEFINE up == Base!Above(n)
           S == {i \in 0..LastNode : up[i] = up[k]}
<1>1. PICK i \in S : \A j \in 0..(i - 1) : j \notin S
  <2>1. k \in S /\ S \in SUBSET (0..LastNode)
    OBVIOUS
  <2> HIDE DEF S
  <2> QED BY <2>1, SomeNodes, LeastNumber
<1>2. i \in 0..LastNode /\ up[i] = up[k] /\ \A j \in 0..(i - 1) : up[j] # up[i]
  BY <1>1, SomeNodes
<1> HIDE DEF S
<1>3. i \in Base!Levels(n)
  BY <1>2, Zenon DEF Base!Levels
<1> QED BY <1>2, <1>3, Zenon DEF Base!Path

\* Two numbers of a set of numbers come in one order.
LEMMA TwiceMet ==
    ASSUME NEW up, NEW S, S \subseteq Int, \E i, j \in S : i # j /\ up[i] = up[j]
    PROVE  \E i, j \in S : i < j /\ up[i] = up[j]
<1>1. PICK i \in S, j \in S : i # j /\ up[i] = up[j]
  OBVIOUS
<1>2. i < j \/ j < i
  BY <1>1
<1> QED BY <1>1, <1>2

\* There are more levels than nodes: a path ends, or is back where it was, before the last.
LEMMA LevelIsNotLast ==
    ASSUME NEW n, NEW k \in Base!Levels(n)
    PROVE  k \in 0..LastNode /\ k < LastNode
<1> DEFINE up == Base!Above(n)
<1>1. /\ k \in 0..LastNode /\ up[k] \in Base!Existing
      /\ \A i \in 0..(k - 1) : up[i] # up[k]
  BY Zenon DEF Base!Levels
<1> HIDE DEF up
<1> SUFFICES ASSUME k = LastNode PROVE FALSE
  BY <1>1, SomeNodes
<1>2. \A i \in 0..LastNode : up[i] \in Base!Existing
  BY <1>1, PathStays, SomeNodes DEF up
<1>3. LastNode \in Nat \ {0}
  BY <1>1, SomeNodes DEF Base!Existing, Base!Nodes
<1> DEFINE S == 0..(LastNode - 1)
           T == Base!Nodes \ {up[k]}
           f == [i \in S |-> up[i]]
<1>4. f \in [S -> T]
  BY <1>1, <1>2, <1>3 DEF Base!Existing
<1>5. /\ IsFiniteSet(S) /\ Cardinality(S) = LastNode
      /\ IsFiniteSet(T) /\ Cardinality(T) = LastNode - 1
  <2>1. IsFiniteSet(S) /\ Cardinality(S) = LastNode
    <3>1. IsFiniteSet(0..(LastNode - 1))
          /\ Cardinality(0..(LastNode - 1)) =
                IF 0 > LastNode - 1 THEN 0 ELSE LastNode - 1 - 0 + 1
      BY <1>3, FS_Interval
    <3> QED BY <3>1, <1>3
  <2>2. IsFiniteSet(Base!Nodes) /\ Cardinality(Base!Nodes) = LastNode
    <3>1. IsFiniteSet(1..LastNode)
          /\ Cardinality(1..LastNode) = IF 1 > LastNode THEN 0 ELSE LastNode - 1 + 1
      BY <1>3, FS_Interval
    <3> QED BY <3>1, <1>3 DEF Base!Nodes
  <2>3. up[k] \in Base!Nodes
    BY <1>1 DEF Base!Existing
  <2>4. IsFiniteSet(T) /\ Cardinality(T) = Cardinality(Base!Nodes) - 1
    BY <2>2, <2>3, FS_RemoveElement
  <2> QED BY <2>1, <2>2, <2>4
<1>6. \E i, j \in S : i # j /\ f[i] = f[j]
  <2>1. Cardinality(T) < Cardinality(S)
    BY <1>3, <1>5
  <2> HIDE DEF S, T, f
  <2> QED BY <1>4, <1>5, <2>1, FS_PigeonHole
<1>7. \E i, j \in S : i < j /\ up[i] = up[j]
  <2>1. \E i, j \in S : i # j /\ up[i] = up[j]
    BY <1>6
  <2>2. S \subseteq Int
    BY <1>3
  <2> HIDE DEF S
  <2> QED BY <2>1, <2>2, TwiceMet
<1>8. PICK i \in S, j \in S : i < j /\ up[i] = up[j]
  BY <1>7
<1>9. /\ i \in 0..LastNode /\ j \in 0..LastNode /\ i \in Int /\ j \in Int
      /\ i < j /\ j < LastNode /\ 0 <= i
  BY <1>3, <1>8
<1> HIDE DEF S, T, f
<1> DEFINE C == {up[t] : t \in i..(j - 1)}
           reached == {t \in 0..LastNode : i <= t => up[t] \in C}
<1>10. up[i] \in C
  BY <1>9
<1>11. 0 \in reached
  <2>1. i <= 0 => i = 0
    BY <1>9
  <2> QED BY <2>1, <1>3, <1>10
<1>12. ASSUME NEW t \in 0..LastNode, t \in reached, t < LastNode PROVE t + 1 \in reached
  <2>1. t + 1 \in 0..LastNode
    BY <1>12, <1>3
  <2>2. CASE i <= t
    <3>1. PICK s \in i..(j - 1) : up[t] = up[s]
      BY <1>12, <2>2
    <3>2. s \in 0..LastNode /\ s < LastNode /\ (s + 1 \in i..(j - 1) \/ s + 1 = j)
      BY <1>3, <1>9
    <3>3. up[t + 1] = up[s + 1]
      BY <1>12, <3>1, <3>2, AboveStep DEF up
    <3>4. up[s + 1] \in C
      <4>1. CASE s + 1 \in i..(j - 1)
        BY <4>1
      <4>2. CASE s + 1 = j
        <5> HIDE DEF C
        <5> QED BY <4>2, <1>8, <1>10
      <4> QED BY <3>2, <4>1, <4>2
    <3> HIDE DEF C
    <3> QED BY <2>1, <3>3, <3>4
  <2>3. CASE ~(i <= t)
    <3>1. i <= t + 1 => i = t + 1
      BY <1>9, <1>12, <2>3
    <3> HIDE DEF C
    <3> QED BY <2>1, <3>1, <1>10
  <2> QED BY <2>2, <2>3
<1> HIDE DEF reached
<1>13. 0..LastNode \subseteq reached
  BY <1>11, <1>12, SomeNodes, UpTo
<1>14. up[k] \in C
  BY <1>9, <1>13, <1>3 DEF reached
<1>15. PICK t \in i..(j - 1) : up[k] = up[t]
  BY <1>14
<1>16. t \in 0..(k - 1)
  BY <1>9, <1>3, <1>15
<1> QED BY <1>1, <1>15, <1>16

\* A node is on its own path, of which every node exists.
LEMMA PathStarts ==
    ASSUME NEW n
    PROVE  /\ Base!Path(n) \subseteq Base!Existing
           /\ n \in Base!Existing => n \in Base!Path(n)
<1>1. Base!Path(n) \subseteq Base!Existing
  BY Zenon DEF Base!Path, Base!Levels
<1>2. 0 \in 0..LastNode /\ Base!Above(n)[0] = n
  BY SomeNodes, AboveStep
<1> QED BY <1>1, <1>2, NodeIsOnPath

\* A path goes on for as long as parents exist.
LEMMA PathGoesOn ==
    ASSUME NEW n, NEW m \in Base!Path(n), parent[m] \in Base!Existing
    PROVE  parent[m] \in Base!Path(n)
<1>1. PICK k \in Base!Levels(n) : m = Base!Above(n)[k]
  BY Zenon DEF Base!Path
<1>2. k \in 0..LastNode /\ k < LastNode
  BY LevelIsNotLast
<1>3. m \in Base!Existing
  BY PathStarts
<1>4. Base!Above(n)[k + 1] = parent[m]
  BY <1>1, <1>2, <1>3, AboveStep DEF Higher
<1>5. k + 1 \in 0..LastNode
  BY <1>2, SomeNodes
<1> QED BY <1>4, <1>5, NodeIsOnPath

\* The path of a node goes through the path of its parent.
LEMMA PathOfParent ==
    ASSUME NEW n \in Base!Existing, NEW m \in Base!Path(parent[n])
    PROVE  m \in Base!Path(n)
<1> DEFINE low == Base!Above(n)
           high == Base!Above(parent[n])
           reached == {i \in 0..LastNode : i < LastNode => low[i + 1] = high[i]}
<1> HIDE DEF low, high
<1>1. 0 \in reached
  <2>1. ASSUME 0 < LastNode PROVE low[0 + 1] = high[0]
    <3>1. low[0] = n /\ high[0] = parent[n] /\ low[0 + 1] = Higher(low[0])
      BY <2>1, SomeNodes, AboveStep DEF low, high
    <3> QED BY <3>1 DEF Higher
  <2> QED BY <2>1, SomeNodes
<1>2. ASSUME NEW i \in 0..LastNode, i \in reached, i < LastNode PROVE i + 1 \in reached
  <2>1. ASSUME i + 1 < LastNode PROVE low[(i + 1) + 1] = high[i + 1]
    <3>1. i + 1 \in 0..LastNode
      BY <1>2, SomeNodes
    <3>2. low[(i + 1) + 1] = Higher(low[i + 1])
      BY <2>1, <3>1, AboveStep DEF low
    <3>3. high[i + 1] = Higher(high[i])
      BY <1>2, AboveStep DEF high
    <3> QED BY <1>2, <3>2, <3>3
  <2>2. i + 1 \in 0..LastNode
    BY <1>2, SomeNodes
  <2> QED BY <2>1, <2>2
<1> HIDE DEF reached
<1>3. 0..LastNode \subseteq reached
  BY <1>1, <1>2, SomeNodes, UpTo
<1>4. PICK k \in Base!Levels(parent[n]) : m = high[k]
  BY Zenon DEF Base!Path, high
<1>5. k \in 0..LastNode /\ k < LastNode
  BY LevelIsNotLast
<1>6. low[k + 1] = m
  BY <1>3, <1>4, <1>5 DEF reached
<1>7. m \in Base!Existing
  BY PathStarts
<1>8. k + 1 \in 0..LastNode
  BY <1>5, SomeNodes
<1> QED BY <1>6, <1>7, <1>8, NodeIsOnPath DEF low

(***************************************************************************)
(* What keeps the base a tree                                              *)
(***************************************************************************)

\* Nodes hang under nodes of the base: a deletion takes what is below.
HangInv ==
    /\ \A n \in Base!Existing : parent[n] \in Base!Existing \cup {Root}
    /\ access \in [Base!Nodes -> Base!Rules]
    /\ overlap \in BOOLEAN
    /\ \A h \in Base!Moving : \A n \in move[h].seen : Made(n)

\* Upwards, every set of nodes is left somewhere.
NoRing == \A C \in SUBSET Base!Existing : C # {} => \E n \in C : parent[n] \notin C

\* What a walk has seen goes on, above it, to what it has seen or looks at next.
SeenInv ==
    \A h \in Base!Moving : move[h].to \in Base!Existing =>
        /\ move[h].to \in move[h].seen \cup {move[h].cursor}
        /\ \A n \in move[h].seen \cap Base!Existing :
              parent[n] \in move[h].seen \cup {move[h].cursor}

OneMove == \A h, k \in Base!Moving : h = k

\* The strengthening: as long as no two moves have overlapped, nothing changes what the
\* one that is under way has seen.
BranchInv == TreeInv /\ HangInv /\ (~overlap => NoRing /\ SeenInv /\ OneMove)

LEMMA InitBranchInv == ASSUME Base!Init PROVE BranchInv
<1>1. /\ access = [n \in Base!Nodes |-> Base!Unruled] /\ overlap = FALSE
      /\ Base!Existing = {} /\ Base!Moving = {}
  BY Zenon DEF Base!Init, Base!Existing, Base!Moving
<1>2. Base!Unruled \in Base!Rules
  BY DEF Base!Unruled, Base!Rules, Base!Effects
<1>3. NoRing
  <2> SUFFICES ASSUME NEW C \in SUBSET Base!Existing, C # {} PROVE FALSE
    BY DEF NoRing
  <2> QED BY <1>1
<1> QED BY <1>1, <1>2, <1>3, InitTreeInv DEF BranchInv, HangInv, SeenInv, OneMove

LEMMA CreateNodeKeepsBranch ==
    ASSUME BranchInv, NEW n \in Base!Nodes, NEW under \in Base!Nodes \cup {Root},
           Base!CreateNode(n, under)
    PROVE  BranchInv'
<1>1. /\ parent[n] = None /\ under \in Base!Existing \cup {Root}
      /\ parent' = [parent EXCEPT ![n] = under]
      /\ move' = move /\ access' = access /\ overlap' = overlap
  BY Zenon DEF Base!CreateNode
<1>2. TreeInv /\ HangInv /\ (~overlap => NoRing /\ SeenInv /\ OneMove)
  BY DEF BranchInv
<1>3. TreeInv'
  BY <1>2, CreateNodeKeepsTree
<1>4. /\ parent'[n] = under /\ n \notin Base!Existing /\ under # n
      /\ \A m \in Base!Nodes \ {n} : parent'[m] = parent[m]
  BY <1>1, <1>2, OfficeAssumption
     DEF TreeInv, ParentInv, Base!Existing, Base!KnowledgeAssumption
<1>5. /\ Base!Existing' = Base!Existing \cup {n}
      /\ Base!Moving' = Base!Moving
  BY <1>1, <1>4, OfficeAssumption DEF Base!Existing, Base!Moving, Base!KnowledgeAssumption
<1>6. /\ \A m \in Base!Existing : m # n /\ parent'[m] = parent[m]
      /\ \A m \in Base!Existing : parent[m] \in Base!Existing \cup {Root}
      /\ Root # n
  BY <1>2, <1>4, OfficeAssumption DEF HangInv, Base!Existing, Base!KnowledgeAssumption
<1>7. \A h \in Base!Moving : \A m \in move[h].seen : m # n /\ m \in Base!Nodes
  BY <1>1, <1>2, MoveShape DEF HangInv, TreeInv, Made, Moves
<1>8. HangInv'
  <2>1. \A m \in Base!Existing' : parent'[m] \in Base!Existing' \cup {Root}
    BY <1>1, <1>4, <1>5, <1>6
  <2>2. \A h \in Base!Moving : \A m \in move[h].seen : parent'[m] # None
    BY <1>2, <1>4, <1>7 DEF HangInv, Made
  <2> QED BY <2>1, <2>2, <1>1, <1>2, <1>5 DEF HangInv, Made
<1>9. ASSUME NoRing PROVE NoRing'
  <2> SUFFICES ASSUME NEW C \in SUBSET (Base!Existing \cup {n}), C # {}
               PROVE  \E m \in C : parent'[m] \notin C
    BY <1>5 DEF NoRing
  <2>1. CASE C \ {n} = {}
    <3>1. n \in C /\ parent'[n] \notin C
      BY <2>1, <1>4
    <3> QED BY <3>1
  <2>2. CASE C \ {n} # {}
    <3>1. PICK m \in C \ {n} : parent[m] \notin C \ {n}
      BY <2>2, <1>9 DEF NoRing
    <3>2. m \in Base!Existing /\ parent[m] # n
      BY <3>1, <1>6
    <3> QED BY <3>1, <3>2, <1>6
  <2> QED BY <2>1, <2>2
<1>10. ASSUME SeenInv PROVE SeenInv'
  <2> SUFFICES ASSUME NEW h \in Base!Moving, move[h].to \in Base!Existing'
               PROVE  /\ move[h].to \in move[h].seen \cup {move[h].cursor}
                      /\ \A m \in move[h].seen \cap Base!Existing' :
                            parent'[m] \in move[h].seen \cup {move[h].cursor}
    BY <1>1, <1>5 DEF SeenInv
  <2>1. move[h].to # n
    BY <1>1, <1>2 DEF TreeInv, MoveInv, Made
  <2>2. move[h].to \in Base!Existing
    BY <2>1, <1>5
  <2>3. \A m \in move[h].seen \cap Base!Existing' : m \in Base!Existing /\ parent'[m] = parent[m]
    BY <1>5, <1>6, <1>7
  <2> QED BY <2>2, <2>3, <1>10 DEF SeenInv
<1> QED BY <1>1, <1>2, <1>3, <1>5, <1>8, <1>9, <1>10 DEF BranchInv, OneMove

LEMMA DeleteNodeKeepsBranch ==
    ASSUME BranchInv, NEW n \in Base!Nodes, Base!DeleteNode(n)
    PROVE  BranchInv'
<1> DEFINE subtree == {m \in Base!Existing : n \in Base!Path(m)}
<1>1. /\ parent' = [m \in Base!Nodes |-> IF m \in subtree THEN Gone ELSE parent[m]]
      /\ move' = move /\ access' = access /\ overlap' = overlap
  BY Zenon DEF Base!DeleteNode
<1>2. TreeInv /\ HangInv /\ (~overlap => NoRing /\ SeenInv /\ OneMove)
  BY DEF BranchInv
<1>3. TreeInv'
  BY <1>2, DeleteNodeKeepsTree
<1>4. \A m \in Base!Existing : parent[m] \in subtree => m \in subtree
  BY PathOfParent
<1>5. subtree \subseteq Base!Existing
  OBVIOUS
<1> HIDE DEF subtree
<1>6. /\ Base!Existing' = Base!Existing \ subtree
      /\ \A m \in Base!Existing' : parent'[m] = parent[m]
      /\ Base!Moving' = Base!Moving
  BY <1>1, OfficeAssumption DEF Base!Existing, Base!Moving, Base!KnowledgeAssumption
<1>7. HangInv'
  <2>1. \A m \in Base!Existing' : parent'[m] \in Base!Existing' \cup {Root}
    BY <1>2, <1>4, <1>6 DEF HangInv
  <2>2. \A h \in Base!Moving : \A m \in move[h].seen : parent'[m] # None
    <3> SUFFICES ASSUME NEW h \in Base!Moving, NEW m \in move[h].seen PROVE parent'[m] # None
      OBVIOUS
    <3>1. m \in Base!Nodes
      BY <1>2, MoveShape DEF TreeInv, Moves
    <3> QED BY <3>1, <1>1, <1>2, OfficeAssumption DEF HangInv, Made, Base!KnowledgeAssumption
  <2> QED BY <2>1, <2>2, <1>1, <1>2, <1>6 DEF HangInv, Made
<1>8. ASSUME NoRing PROVE NoRing'
  <2> SUFFICES ASSUME NEW C \in SUBSET Base!Existing', C # {}
               PROVE  \E m \in C : parent'[m] \notin C
    BY DEF NoRing
  <2>1. C \in SUBSET Base!Existing
    BY <1>6
  <2> QED BY <2>1, <1>6, <1>8 DEF NoRing
<1>9. ASSUME SeenInv PROVE SeenInv'
  BY <1>1, <1>6, <1>9 DEF SeenInv
<1> QED BY <1>1, <1>2, <1>3, <1>6, <1>7, <1>8, <1>9 DEF BranchInv, OneMove

\* A step that leaves the parents alone leaves the tree alone.
LEMMA SameTree ==
    ASSUME UNCHANGED parent
    PROVE  /\ Base!Existing' = Base!Existing
           /\ NoRing => NoRing'
BY DEF Base!Existing, NoRing

LEMMA ReplaceAccessKeepsBranch ==
    ASSUME BranchInv, NEW n \in Base!Nodes, NEW granted \in Grants,
           Base!ReplaceAccess(n, granted)
    PROVE  BranchInv'
<1>1. /\ UNCHANGED <<parent, move, overlap>>
      /\ access' = [access EXCEPT ![n] = granted]
  BY Zenon DEF Base!ReplaceAccess
<1>2. granted \in Base!Rules
  BY OfficeAssumption DEF Base!KnowledgeAssumption
<1>3. /\ Base!Existing' = Base!Existing /\ Base!Moving' = Base!Moving
      /\ NoRing => NoRing'
  BY <1>1, SameTree DEF Base!Moving
<1>4. TreeInv'
  BY <1>1, <1>3 DEF BranchInv, TreeInv, ParentInv, MoveInv, WalkInv, Made, Base!NoMutualParents
<1>5. HangInv'
  BY <1>1, <1>2, <1>3 DEF BranchInv, HangInv, Made
<1> QED BY <1>1, <1>3, <1>4, <1>5 DEF BranchInv, SeenInv, OneMove

LEMMA MoveFailsKeepsBranch ==
    ASSUME BranchInv, NEW h \in Handlers, Base!MoveFails(h)
    PROVE  BranchInv'
<1>1. /\ move' = [move EXCEPT ![h] = None]
      /\ UNCHANGED <<parent, access, overlap>>
  BY Zenon DEF Base!MoveFails
<1>2. TreeInv'
  BY MoveFailsKeepsTree DEF BranchInv
<1>3. \A k \in Base!Moving' : k \in Base!Moving /\ move'[k] = move[k]
  BY <1>1 DEF BranchInv, TreeInv, MoveInv, Base!Moving
<1>4. Base!Existing' = Base!Existing /\ (NoRing => NoRing')
  BY <1>1, SameTree
<1>5. HangInv'
  BY <1>1, <1>3, <1>4 DEF BranchInv, HangInv, Made
<1> QED BY <1>1, <1>2, <1>3, <1>4, <1>5 DEF BranchInv, SeenInv, OneMove

LEMMA LoadMoveKeepsBranch ==
    ASSUME BranchInv, NEW h \in Handlers, NEW n \in Base!Nodes,
           NEW to \in Base!Nodes \cup {Root}, Base!LoadMove(h, n, to)
    PROVE  BranchInv'
<1> DEFINE loaded == [node |-> n, to |-> to, cursor |-> to, seen |-> {}]
<1>1. /\ move' = [move EXCEPT ![h] = loaded]
      /\ overlap' = (overlap \/ Base!Moving # {})
      /\ UNCHANGED <<parent, access>>
  BY Zenon DEF Base!LoadMove
<1>2. TreeInv'
  BY LoadMoveKeepsTree DEF BranchInv
<1>3. loaded.to = to /\ loaded.cursor = to /\ loaded.seen = {}
  OBVIOUS
<1> HIDE DEF loaded
<1>4. \A k \in Base!Moving' : \/ k \in Base!Moving /\ move'[k] = move[k]
                              \/ k = h /\ move'[k] = loaded
  BY <1>1 DEF BranchInv, TreeInv, MoveInv, Base!Moving
<1>5. Base!Existing' = Base!Existing /\ (NoRing => NoRing')
  BY <1>1, SameTree
<1>6. HangInv'
  BY <1>1, <1>3, <1>4, <1>5 DEF BranchInv, HangInv, Made
<1>7. ASSUME ~overlap' PROVE SeenInv' /\ OneMove'
  <2>1. \A k \in Base!Moving' : k = h /\ move'[k] = loaded
    BY <1>1, <1>4, <1>7
  <2> QED BY <2>1, <1>3 DEF SeenInv, OneMove
<1> QED BY <1>1, <1>2, <1>5, <1>6, <1>7 DEF BranchInv

LEMMA AncestorKeepsBranch ==
    ASSUME BranchInv, NEW h \in Handlers, Base!Ancestor(h)
    PROVE  BranchInv'
<1>1. /\ h \in Base!Moving /\ move[h].cursor \in Base!Existing \ move[h].seen
      /\ UNCHANGED <<parent, access, overlap>>
      /\ \E seen \in Base!Walked(move[h]) :
            move' = [move EXCEPT ![h].cursor = parent[move[h].cursor], ![h].seen = seen]
  BY Zenon DEF Base!Ancestor
<1>2. PICK seen \in Base!Walked(move[h]) :
          move' = [move EXCEPT ![h].cursor = parent[move[h].cursor], ![h].seen = seen]
  BY <1>1
<1>3. seen = move[h].seen \cup {move[h].cursor}
  BY <1>2 DEF Base!Walked
<1>4. TreeInv'
  BY AncestorKeepsTree DEF BranchInv
<1> DEFINE above == parent[move[h].cursor]
           walked == [[move[h] EXCEPT !.cursor = above] EXCEPT !.seen = seen]
<1>5. TreeInv
  BY DEF BranchInv
<1>6. move[h] \in Moves
  BY <1>1, <1>5, MoveShape DEF TreeInv
<1>7. move' = [move EXCEPT ![h] = walked]
  BY <1>1, <1>2, <1>6 DEF BranchInv, TreeInv, MoveInv
<1>8. walked.to = move[h].to /\ walked.cursor = above /\ walked.seen = seen
  BY <1>6 DEF Moves
<1> HIDE DEF walked
<1>9. \A k \in Base!Moving' :
          /\ k \in Base!Moving
          /\ \/ move'[k] = move[k]
             \/ k = h /\ move'[k] = walked
  BY <1>1, <1>5, <1>7 DEF TreeInv, MoveInv, Base!Moving
<1>10. Base!Existing' = Base!Existing /\ (NoRing => NoRing')
  BY <1>1, SameTree
<1>11. HangInv'
  <2>1. \A n \in seen : parent[n] # None
    BY <1>1, <1>3 DEF BranchInv, HangInv, Made, Base!Existing
  <2> QED BY <2>1, <1>1, <1>8, <1>9, <1>10 DEF BranchInv, HangInv, Made
<1>12. ASSUME SeenInv PROVE SeenInv'
  <2> SUFFICES ASSUME NEW k \in Base!Moving', move'[k].to \in Base!Existing
               PROVE  /\ move'[k].to \in move'[k].seen \cup {move'[k].cursor}
                      /\ \A n \in move'[k].seen \cap Base!Existing :
                            parent[n] \in move'[k].seen \cup {move'[k].cursor}
    BY <1>1, <1>10 DEF SeenInv
  <2>1. CASE move'[k] = move[k]
    BY <2>1, <1>9, <1>12 DEF SeenInv
  <2>2. CASE k = h /\ move'[k] = walked
    BY <2>2, <1>1, <1>3, <1>8, <1>12 DEF SeenInv
  <2> QED BY <2>1, <2>2, <1>9
<1> QED BY <1>1, <1>4, <1>9, <1>10, <1>11, <1>12 DEF BranchInv, OneMove

LEMMA CommitMoveKeepsBranch ==
    ASSUME BranchInv, NEW h \in Handlers, Base!CommitMove(h)
    PROVE  BranchInv'
<1> DEFINE node == move[h].node
           to == move[h].to
           seen == move[h].seen
<1>1. /\ h \in Base!Moving /\ Base!WalkIsOver(move[h])
      /\ node \in Base!Existing /\ node \notin seen
      /\ to \in (Base!Existing \ Base!LockedByOthers(h)) \cup {Root}
      /\ parent' = [parent EXCEPT ![node] = to]
      /\ move' = [move EXCEPT ![h] = None]
      /\ access' = access /\ overlap' = overlap
  BY Zenon DEF Base!CommitMove
<1>2. TreeInv'
  BY CommitMoveKeepsTree DEF BranchInv
<1>3. TreeInv /\ HangInv /\ (~overlap => NoRing /\ SeenInv /\ OneMove)
  BY DEF BranchInv
<1>4. \A k \in Base!Moving' : k \in Base!Moving /\ k # h /\ move'[k] = move[k]
  BY <1>1, <1>3 DEF TreeInv, MoveInv, Base!Moving
<1>5. move[h].cursor \notin Base!Existing \ seen
  BY <1>1, Zenon DEF Base!WalkIsOver
<1>6. node \in Base!Nodes /\ seen \subseteq Base!Nodes
  BY <1>1, <1>3, MoveShape DEF TreeInv, Moves
<1>7. \A k \in Base!Moving : \A n \in move[k].seen : n \in Base!Nodes
  BY <1>3, MoveShape DEF TreeInv, Moves
<1>8. to \in Base!Existing \cup {Root}
  BY <1>1
<1>9. ASSUME SeenInv, to \in Base!Existing
      PROVE  to \in seen /\ \A n \in seen \cap Base!Existing :
                                parent[n] \in Base!Existing => parent[n] \in seen
  BY <1>1, <1>5, <1>9 DEF SeenInv
<1> HIDE DEF node, to, seen
<1>10. /\ parent'[node] = to
       /\ \A m \in Base!Nodes \ {node} : parent'[m] = parent[m]
  BY <1>1, <1>3 DEF TreeInv, ParentInv, Base!Existing
<1>11. Base!Existing' = Base!Existing
  BY <1>1, <1>8, <1>10, OfficeAssumption DEF Base!Existing, Base!KnowledgeAssumption
<1>12. HangInv'
  <2>1. \A m \in Base!Existing : parent'[m] \in Base!Existing \cup {Root}
    BY <1>3, <1>8, <1>10 DEF HangInv, Base!Existing
  <2>2. \A m \in Base!Nodes : parent[m] # None => parent'[m] # None
    BY <1>8, <1>10, OfficeAssumption DEF Base!Existing, Base!KnowledgeAssumption
  <2> QED BY <2>1, <2>2, <1>1, <1>3, <1>4, <1>7, <1>11 DEF HangInv, Made
<1>13. ASSUME NoRing, SeenInv PROVE NoRing'
  <2> SUFFICES ASSUME NEW C \in SUBSET Base!Existing, C # {},
                      \A m \in C : parent'[m] \in C
               PROVE  FALSE
    BY <1>11 DEF NoRing
  <2>1. \A m \in C : m # node => parent'[m] = parent[m]
    BY <1>10 DEF Base!Existing
  <2>2. node \in C
    BY <2>1, <1>13 DEF NoRing
  <2>3. to \in C
    BY <2>2, <1>10
  <2>4. to \in Base!Existing
    BY <2>3
  <2> DEFINE D == C \cap seen
  <2>5. D # {} /\ D \in SUBSET Base!Existing
    BY <2>3, <2>4, <1>9, <1>13
  <2>6. \A m \in D : parent[m] \in D
    BY <2>1, <2>4, <1>1, <1>9, <1>13 DEF node, seen
  <2> HIDE DEF D
  <2> QED BY <2>5, <2>6, <1>13 DEF NoRing
<1>14. ASSUME OneMove PROVE SeenInv' /\ OneMove'
  <2>1. Base!Moving' = {}
    BY <1>1, <1>4, <1>14 DEF OneMove
  <2> QED BY <2>1 DEF SeenInv, OneMove
<1> QED BY <1>1, <1>2, <1>3, <1>12, <1>13, <1>14 DEF BranchInv

LEMMA NextKeepsBranch ==
    ASSUME BranchInv, Base!Next
    PROVE  BranchInv'
BY CreateNodeKeepsBranch, DeleteNodeKeepsBranch, ReplaceAccessKeepsBranch,
   MoveFailsKeepsBranch, LoadMoveKeepsBranch, AncestorKeepsBranch, CommitMoveKeepsBranch
   DEF Base!Next

\* Where every path ends at a root, what an employee may read is on the way to it.
LEMMA BranchInvSaysListed == BranchInv => Base!ReadableIsListed
<1> SUFFICES ASSUME BranchInv, ~overlap, NEW n \in Base!Existing, Base!Readable(n)
             PROVE  n \in Base!Visible
  BY DEF Base!ReadableIsListed
<1>1. n \in Base!Path(n) /\ Base!Path(n) \in SUBSET Base!Existing
  BY PathStarts
<1>2. Base!Marked(n)
  BY <1>1, Zenon DEF Base!Marked
<1>3. PICK m \in Base!Path(n) : parent[m] \notin Base!Path(n)
  BY <1>1 DEF BranchInv, NoRing
<1>4. parent[m] \in Base!Existing \cup {Root}
  BY <1>1, <1>3 DEF BranchInv, HangInv
<1>5. parent[m] = Root
  BY <1>3, <1>4, PathGoesOn
<1> QED BY <1>2, <1>3, <1>5, Zenon DEF Base!Visible

\* While the knowledge base is the part that moves, it stays a tree until moves overlap.
KnowledgeTreeInv == part = "knowledge" => BranchInv

LEMMA NextKnowledgeTree == KnowledgeTreeInv /\ [Next]_officeVars => KnowledgeTreeInv'
<1> SUFFICES ASSUME KnowledgeTreeInv, [Next]_officeVars, part' = "knowledge" PROVE BranchInv'
  BY DEF KnowledgeTreeInv
<1>1. CASE KnowledgeMoves
  BY <1>1, NextKeepsBranch DEF KnowledgeMoves, KnowledgeTreeInv
<1>2. CASE ~KnowledgeMoves
  <2>1. part = "knowledge" /\ UNCHANGED knowing
    BY <1>2 DEF Next, TestsMove, OvertimeMoves, WindowMoves, WorkplaceMoves, FilesMove, officeVars
  <2>2. BranchInv /\ UNCHANGED <<parent, access, move, overlap>>
    BY <2>1 DEF KnowledgeTreeInv, knowing
  <2> QED BY <2>2 DEF BranchInv, TreeInv, ParentInv, MoveInv, WalkInv, Made, HangInv, NoRing,
                      SeenInv, OneMove, Base!NoMutualParents, Base!Existing, Base!Moving
<1> QED BY <1>1, <1>2

LEMMA InitKnowledgeTree == Init => KnowledgeTreeInv
BY InitBranchInv DEF Init, KnowledgeTreeInv

\* As long as no two moves have overlapped, an employee finds every node that he may read
\* in the tree, whatever is created, deleted and granted while a move walks up
\* (services/knowledge.py, _move_node, _ancestor_ids, delete_node, _compute_visible).
THEOREM ReadableStaysListed == Spec => []ReadableIsListed
<1>1. KnowledgeTreeInv => ReadableIsListed
  BY BranchInvSaysListed DEF KnowledgeTreeInv, ReadableIsListed
<1> QED BY <1>1, InitKnowledgeTree, NextKnowledgeTree, PTL DEF Spec

(***************************************************************************)
(* The types                                                               *)
(***************************************************************************)

\* No day, end of a shift or request of it is beyond its bound.
OvertimeBounds ==
    part = "overtime" =>
        /\ today \in 0 .. LastDay
        /\ worked \in [finished : 0 .. ScheduledEnd + 1, deleted : BOOLEAN]
        /\ Len(overtime) <= LastRequest

LEMMA NextOvertimeBounds ==
    ASSUME OvertimeInv, OvertimeBounds, [Next]_officeVars
    PROVE  OvertimeBounds'
<1> SUFFICES ASSUME part' = "overtime"
             PROVE  /\ today' \in 0 .. LastDay
                    /\ worked' \in [finished : 0 .. ScheduledEnd + 1, deleted : BOOLEAN]
                    /\ Len(overtime') <= LastRequest
  BY DEF OvertimeBounds
<1> DEFINE rows == worked' \in [finished : 0 .. ScheduledEnd + 1, deleted : BOOLEAN]
<1>1. part = "overtime"
  BY DEF Next, TestsMove, OvertimeMoves, WindowMoves, WorkplaceMoves, FilesMove, KnowledgeMoves, officeVars
<1>2. /\ today \in 0 .. LastDay
      /\ worked \in [finished : 0 .. ScheduledEnd + 1, deleted : BOOLEAN]
      /\ Len(overtime) <= LastRequest
      /\ overtime \in Seq(Overtimes!Status \cup {"withdrawn"})
  BY <1>1 DEF OvertimeBounds, OvertimeInv, OneLiveInv, AskedInv
<1>3. LastDay \in Nat /\ LastRequest \in Nat
  BY OfficeAssumption DEF Overtimes!OvertimeAssumption
<1>4. CASE UNCHANGED <<today, worked, overtime>>
  BY <1>2, <1>4
<1>5. ASSUME NEW h \in Handlers, Overtimes!CreateOvertimeRequest(h)
      PROVE  UNCHANGED <<today, worked>> /\ Len(overtime') <= LastRequest
  <2>1. overtime' = Append(overtime, "pending") /\ Len(overtime) < LastRequest
    BY <1>5 DEF Overtimes!CreateOvertimeRequest
  <2>2. Len(overtime') = Len(overtime) + 1
    BY <2>1, <1>2
  <2> QED BY <1>2, <1>3, <1>5, <2>1, <2>2 DEF Overtimes!CreateOvertimeRequest
<1>6. ASSUME NEW h \in Handlers,
             Overtimes!DeleteOwnOvertimeRequest(h) \/ Overtimes!ReviewOvertimeRequest(h)
      PROVE  UNCHANGED <<today, worked>> /\ Len(overtime') <= LastRequest
  <2>1. \E r, status : overtime' = [overtime EXCEPT ![r] = status]
    BY <1>6, Zenon DEF Overtimes!DeleteOwnOvertimeRequest, Overtimes!ReviewOvertimeRequest
  <2>2. Len(overtime') = Len(overtime)
    BY <2>1, <1>2
  <2> QED BY <1>2, <1>6, <2>2
             DEF Overtimes!DeleteOwnOvertimeRequest, Overtimes!ReviewOvertimeRequest
<1>7. ASSUME NEW t \in 0 .. ScheduledEnd + 1, Overtimes!UpdateManualShift(t)
      PROVE  UNCHANGED <<today, overtime>> /\ rows
  BY <1>2, <1>7 DEF Overtimes!UpdateManualShift
<1>8. Overtimes!DeleteOrRestoreShift => UNCHANGED <<today, overtime>> /\ rows
  BY <1>2 DEF Overtimes!DeleteOrRestoreShift
<1>9. Overtimes!NextDay => UNCHANGED <<worked, overtime>> /\ today' \in 0 .. LastDay
  BY <1>2, <1>3 DEF Overtimes!NextDay
<1>10. CASE OvertimeMoves
  <2>1. ASSUME NEW h \in Handlers,
               \/ Overtimes!Dies(h) \/ Overtimes!LoadForCreate(h)
               \/ \E r \in Overtimes!Rows :
                    \/ Overtimes!LoadForDelete(h, r)
                    \/ \E verdict \in {"approved", "rejected"} :
                            Overtimes!LoadForReview(h, r, verdict)
        PROVE  UNCHANGED <<today, worked, overtime>>
    BY <2>1 DEF Overtimes!Dies, Overtimes!LoadForCreate, Overtimes!LoadForDelete,
                Overtimes!LoadForReview, Overtimes!tables
  <2> HIDE DEF rows
  <2>2. \/ UNCHANGED <<today, worked, overtime>>
        \/ UNCHANGED <<today, worked>> /\ Len(overtime') <= LastRequest
        \/ UNCHANGED <<today, overtime>> /\ rows
        \/ UNCHANGED <<worked, overtime>> /\ today' \in 0 .. LastDay
    BY <1>5, <1>6, <1>7, <1>8, <1>9, <1>10, <2>1 DEF OvertimeMoves, Overtimes!Next
  <2> QED BY <1>2, <2>2 DEF rows
<1>11. CASE ~OvertimeMoves
  BY <1>4, <1>11 DEF Next, TestsMove, WindowMoves, WorkplaceMoves, FilesMove, KnowledgeMoves,
                     officeVars, overtimes
<1> QED BY <1>10, <1>11

\* The moment, the edits and the start of a shift within their bounds.
WindowBounds ==
    part = "window" =>
        /\ now <= LastMoment /\ edits \in 0 .. MaxScheduleEdits
        /\ shift # None => 0 <= shift.started /\ shift.started <= now

LEMMA NextWindowBounds ==
    ASSUME WindowInv, WindowBounds, [Next]_officeVars
    PROVE  WindowBounds'
<1> SUFFICES ASSUME part' = "window"
             PROVE  /\ now' <= LastMoment /\ edits' \in 0 .. MaxScheduleEdits
                    /\ shift' # None => 0 <= shift'.started /\ shift'.started <= now'
  BY DEF WindowBounds
<1>1. part = "window"
  BY DEF Next, TestsMove, OvertimeMoves, WindowMoves, WorkplaceMoves, FilesMove, KnowledgeMoves, officeVars
<1>2. /\ ClockInv /\ now \in Nat /\ (shift # None => shift \in PlannedShifts)
      /\ now <= LastMoment /\ edits \in 0 .. MaxScheduleEdits
      /\ shift # None => 0 <= shift.started /\ shift.started <= now
  BY <1>1 DEF WindowInv, WindowBounds
<1>3. LastMoment \in Nat /\ MaxScheduleEdits \in Nat
  BY OfficeAssumption DEF Windows!ClockAssumption
<1>4. CASE WindowMoves
  <2>1. Windows!Next
    BY <1>4 DEF WindowMoves
  <2>2. CASE Windows!Tick
    BY <1>2, <1>3, <2>2 DEF Windows!Tick, PlannedShifts
  <2>3. CASE Windows!EditSchedule
    BY <1>2, <1>3, <2>3 DEF Windows!EditSchedule, Windows!UpdateSchedule, Windows!ReplaceWeeklyRules
  <2>4. CASE Windows!StartShift
    BY <1>2, <2>4 DEF Windows!StartShift
  <2>5. ASSUME NEW from \in 0 .. now, NEW to \in 0 .. now, NEW plan,
               Windows!CreateManualShift(from, to, plan)
        PROVE  UNCHANGED <<now, edits>> /\ 0 <= shift'.started /\ shift'.started <= now
    BY <1>2, <2>5 DEF Windows!CreateManualShift
  <2>6. ASSUME NEW from \in 0 .. now, NEW end, Windows!UpdateManualShift(from, end)
        PROVE  UNCHANGED <<now, edits>> /\ 0 <= shift'.started /\ shift'.started <= now
    BY <1>2, <2>6 DEF Windows!UpdateManualShift, PlannedShifts
  <2>7. CASE Windows!ChangeShiftSchedule \/ Windows!FinishShift \/ Windows!AutoFinishStaleShifts
    BY <1>2, <2>7 DEF Windows!ChangeShiftSchedule, Windows!FinishShift,
                      Windows!AutoFinishStaleShifts, PlannedShifts
  <2> QED BY <1>2, <2>1, <2>2, <2>3, <2>4, <2>5, <2>6, <2>7 DEF Windows!Next
<1>5. CASE ~WindowMoves
  BY <1>2, <1>5 DEF Next, TestsMove, OvertimeMoves, WorkplaceMoves, FilesMove, KnowledgeMoves,
                    officeVars, planning
<1> QED BY <1>4, <1>5

(***************************************************************************)
(* The rows of the workplace                                               *)
(***************************************************************************)

\* Rows that link to roles R, locations L and schedules E.
ScheduleRows(R, L) == [paused : BOOLEAN, roles : SUBSET R, locations : SUBSET L]

TemplateRows(R, L, E) ==
    [deleted : BOOLEAN, roles : SUBSET R, locations : SUBSET L, schedules : SUBSET E]

Members(R) ==
    [role : R \cup {None}, shift : [Schedules -> Work!Overrides], list : Work!Overrides]

OpenShifts(L, E) == [location : L \cup {None}, schedule : E \cup {None}, issued : BOOLEAN]

\* Links to schedules point to ones that exist; the pair is of the schedules that exist
\* and of what the member overrides.
Overridden(m) == {s \in Schedules : m.shift[s] # None}

\* The type invariant, with a type for the rows that are not there.
LinksInv ==
    /\ roles \subseteq Roles /\ locations \subseteq Locations /\ settings \in Work!Settings
    /\ schedules \in [Schedules -> ScheduleRows(roles, locations) \cup {None}]
    /\ template \in TemplateRows(roles, locations, Work!Existing)
    /\ member # None => member \in Members(roles) /\ Overridden(member) \subseteq Work!Existing
    /\ started # None => started \in OpenShifts(locations, Work!Existing)

\* The strengthening: a location that is to be deleted exists, and no other request is
\* to delete it.
PendingInv ==
    /\ pending \in [Handlers -> Work!Pending]
    /\ \A h \in Handlers : pending[h].op = "delete" => pending[h].location \in locations
    /\ \A g, h \in Handlers :
          pending[g].op = "delete" /\ pending[h].op = "delete" /\ g # h
              => pending[g].location # pending[h].location

LEMMA NoneIsNoLink ==
    /\ None \notin ScheduleRows(Roles, Locations)
    /\ None \notin TemplateRows(Roles, Locations, Schedules)
    /\ None \notin Locations /\ None \notin Schedules
BY OfficeAssumption DEF Work!WorkplaceAssumption, ScheduleRows, TemplateRows

\* What links to fewer rows links to more.
LEMMA LinksGrow ==
    ASSUME NEW R, NEW L, NEW E, NEW M, NEW K, NEW F, R \subseteq M, L \subseteq K, E \subseteq F
    PROVE  /\ ScheduleRows(R, L) \subseteq ScheduleRows(M, K)
           /\ TemplateRows(R, L, E) \subseteq TemplateRows(M, K, F)
           /\ Members(R) \subseteq Members(M)
           /\ OpenShifts(L, E) \subseteq OpenShifts(K, F)
<1>1. ScheduleRows(R, L) \subseteq ScheduleRows(M, K)
  BY DEF ScheduleRows
<1>2. TemplateRows(R, L, E) \subseteq TemplateRows(M, K, F)
  BY DEF TemplateRows
<1>3. Members(R) \subseteq Members(M)
  BY DEF Members
<1>4. OpenShifts(L, E) \subseteq OpenShifts(K, F)
  BY DEF OpenShifts
<1> QED BY <1>1, <1>2, <1>3, <1>4

\* The cascade of a role and of a location.
LEMMA RoleIsUnlinked ==
    ASSUME NEW r, NEW L, NEW E
    PROVE  /\ \A line \in ScheduleRows(roles, L) : line # None =>
                 Work!WithoutRole(line, r) \in ScheduleRows(roles \ {r}, L)
           /\ \A line \in TemplateRows(roles, L, E) : line # None =>
                 Work!WithoutRole(line, r) \in TemplateRows(roles \ {r}, L, E)
           /\ Work!WithoutRole(None, r) = None
BY DEF Work!WithoutRole, ScheduleRows, TemplateRows

LEMMA LocationIsUnlinked ==
    ASSUME NEW l, NEW R, NEW E
    PROVE  /\ \A line \in ScheduleRows(R, locations) : line # None =>
                 Work!WithoutLocation(line, l) \in ScheduleRows(R, locations \ {l})
           /\ \A line \in TemplateRows(R, locations, E) : line # None =>
                 Work!WithoutLocation(line, l) \in TemplateRows(R, locations \ {l}, E)
           /\ Work!WithoutLocation(None, l) = None
BY DEF Work!WithoutLocation, ScheduleRows, TemplateRows

\* A row of an existing schedule or template is not None.
LEMMA LinksAreRows ==
    ASSUME LinksInv
    PROVE  /\ None \notin ScheduleRows(roles, locations)
           /\ None \notin TemplateRows(roles, locations, Work!Existing)
           /\ \A s \in Work!Existing : s \in Schedules /\ schedules[s] \in ScheduleRows(roles, locations)
<1>1. roles \subseteq Roles /\ locations \subseteq Locations /\ Work!Existing \subseteq Schedules
  BY DEF LinksInv, Work!Existing
<1>2. /\ ScheduleRows(roles, locations) \subseteq ScheduleRows(Roles, Locations)
      /\ TemplateRows(roles, locations, Work!Existing)
            \subseteq TemplateRows(Roles, Locations, Schedules)
  BY <1>1, LinksGrow
<1> QED BY <1>2, NoneIsNoLink DEF LinksInv, Work!Existing

LEMMA InitLinks == Work!Init => LinksInv
<1> SUFFICES ASSUME Work!Init PROVE LinksInv
  OBVIOUS
<1>1. PICK l \in Locations : locations = {l}
  BY DEF Work!Init
<1>2. PICK s \in Schedules :
          schedules = [r \in Schedules |-> IF r = s THEN Work!Schedule ELSE None]
  BY DEF Work!Init
<1>3. Work!Schedule \in ScheduleRows(roles, locations)
  BY DEF Work!Schedule, ScheduleRows
<1>4. Work!Template \in TemplateRows(roles, locations, Work!Existing)
  BY DEF Work!Template, TemplateRows
<1>5. Work!Joined \in Members(roles) /\ Overridden(Work!Joined) = {}
  BY DEF Work!Joined, Members, Overridden, Work!Overrides
<1>6. settings \in Work!Settings
  BY DEF Work!Init, Work!Settings
<1>7. schedules \in [Schedules -> ScheduleRows(roles, locations) \cup {None}]
  BY <1>2, <1>3
<1> QED BY <1>1, <1>4, <1>5, <1>6, <1>7 DEF Work!Init, LinksInv

\* More roles or locations: what links stays linked.
LEMMA MoreRowsKeepLinks ==
    ASSUME LinksInv, UNCHANGED <<settings, schedules, template, member, started>>,
           roles \subseteq roles', roles' \subseteq Roles,
           locations \subseteq locations', locations' \subseteq Locations
    PROVE  LinksInv'
<1>1. /\ ScheduleRows(roles, locations) \subseteq ScheduleRows(roles', locations')
      /\ TemplateRows(roles, locations, Work!Existing)
            \subseteq TemplateRows(roles', locations', Work!Existing)
      /\ Members(roles) \subseteq Members(roles')
      /\ OpenShifts(locations, Work!Existing) \subseteq OpenShifts(locations', Work!Existing)
  BY LinksGrow
<1>2. Work!Existing' = Work!Existing
  BY DEF Work!Existing
<1> QED BY <1>1, <1>2 DEF LinksInv, Overridden

LEMMA DeleteRoleKeepsLinks ==
    ASSUME LinksInv, NEW r \in Roles, Work!DeleteRole(r)
    PROVE  LinksInv'
<1>1. /\ roles' = roles \ {r}
      /\ schedules' = [s \in Schedules |-> Work!WithoutRole(schedules[s], r)]
      /\ template' = Work!WithoutRole(template, r)
      /\ member' = IF member # None /\ member.role = r THEN [member EXCEPT !.role = None] ELSE member
      /\ UNCHANGED <<locations, settings, started>>
  BY Zenon DEF Work!DeleteRole
<1>2. \A s \in Schedules : schedules[s] \in ScheduleRows(roles, locations) \cup {None}
  BY DEF LinksInv
<1>3. \A s \in Schedules :
          /\ schedules[s] = None => schedules'[s] = None
          /\ schedules[s] # None => schedules'[s] \in ScheduleRows(roles', locations)
  BY <1>1, <1>2, RoleIsUnlinked
<1>4. None \notin ScheduleRows(roles', locations)
  <2>1. ScheduleRows(roles', locations) \subseteq ScheduleRows(roles, locations)
    BY <1>1, LinksGrow
  <2> QED BY <2>1, LinksAreRows
<1>5. Work!Existing' = Work!Existing
  BY <1>3, <1>4 DEF Work!Existing
<1>6. template' \in TemplateRows(roles', locations, Work!Existing)
  <2>1. template \in TemplateRows(roles, locations, Work!Existing) /\ template # None
    BY LinksAreRows DEF LinksInv
  <2> QED BY <1>1, <2>1, RoleIsUnlinked
<1>7. schedules' \in [Schedules -> ScheduleRows(roles', locations) \cup {None}]
  <2>1. schedules' = [s \in Schedules |-> schedules'[s]]
    BY <1>1
  <2> QED BY <1>3, <2>1
<1>8. member' # None => member' \in Members(roles') /\ Overridden(member') \subseteq Work!Existing
  <2> SUFFICES ASSUME member' # None
               PROVE  member' \in Members(roles') /\ Overridden(member') \subseteq Work!Existing
    OBVIOUS
  <2>1. member # None
    BY <1>1
  <2>2. member \in Members(roles) /\ Overridden(member) \subseteq Work!Existing
    BY <2>1 DEF LinksInv
  <2>3. member' \in Members(roles') /\ member'.shift = member.shift
    BY <1>1, <2>1, <2>2 DEF Members
  <2> QED BY <2>2, <2>3 DEF Overridden
<1> QED BY <1>1, <1>5, <1>6, <1>7, <1>8 DEF LinksInv

\* What the flush leaves in the row of the settings is one.
LEMMA FlushIsTyped ==
    ASSUME LinksInv, NEW seen \in Work!Settings, NEW new \in Work!Settings
    PROVE  Work!Flushed(seen, new) \in Work!Settings
BY DEF LinksInv, Work!Flushed, Work!Settings

LEMMA DeleteWorkLocationKeepsLinks ==
    ASSUME LinksInv, PendingInv, NEW h \in Handlers, Work!DeleteWorkLocation(h)
    PROVE  LinksInv'
<1> DEFINE l == pending[h].location
           new == [pending[h].seen EXCEPT !.geo = FALSE, !.location = FALSE]
<1>1. /\ locations' = locations \ {l}
      /\ settings' = IF pending[h].last THEN Work!Flushed(pending[h].seen, new) ELSE settings
      /\ schedules' = [s \in Schedules |-> Work!WithoutLocation(schedules[s], l)]
      /\ template' = Work!WithoutLocation(template, l)
      /\ started' = IF started # None /\ started.location = l
                    THEN [started EXCEPT !.location = None] ELSE started
      /\ UNCHANGED <<roles, member>>
  BY Zenon DEF Work!DeleteWorkLocation
<1> HIDE DEF l
<1>2. \A s \in Schedules : schedules[s] \in ScheduleRows(roles, locations) \cup {None}
  BY DEF LinksInv
<1>3. \A s \in Schedules :
          /\ schedules[s] = None => schedules'[s] = None
          /\ schedules[s] # None => schedules'[s] \in ScheduleRows(roles, locations')
  BY <1>1, <1>2, LocationIsUnlinked
<1>4. None \notin ScheduleRows(roles, locations')
  <2>1. ScheduleRows(roles, locations') \subseteq ScheduleRows(roles, locations)
    BY <1>1, LinksGrow
  <2> QED BY <2>1, LinksAreRows
<1>5. Work!Existing' = Work!Existing
  BY <1>3, <1>4 DEF Work!Existing
<1>6. template' \in TemplateRows(roles, locations', Work!Existing)
  <2>1. template \in TemplateRows(roles, locations, Work!Existing) /\ template # None
    BY LinksAreRows DEF LinksInv
  <2> QED BY <1>1, <2>1, LocationIsUnlinked
<1>7. schedules' \in [Schedules -> ScheduleRows(roles, locations') \cup {None}]
  <2>1. schedules' = [s \in Schedules |-> schedules'[s]]
    BY <1>1
  <2> QED BY <1>3, <2>1
<1>8. started' # None => started' \in OpenShifts(locations', Work!Existing)
  <2> SUFFICES ASSUME started' # None PROVE started' \in OpenShifts(locations', Work!Existing)
    OBVIOUS
  <2>1. started # None
    BY <1>1
  <2>2. started \in OpenShifts(locations, Work!Existing)
    BY <2>1 DEF LinksInv
  <2> QED BY <1>1, <2>1, <2>2 DEF OpenShifts
<1>9. settings' \in Work!Settings
  <2>1. pending[h] \in Work!Pending /\ pending[h].op = "delete"
    BY DEF PendingInv, Work!DeleteWorkLocation
  <2>2. pending[h].seen \in Work!Settings
    BY <2>1 DEF Work!Pending
  <2>3. new \in Work!Settings
    BY <2>2 DEF Work!Settings
  <2> HIDE DEF new
  <2> QED BY <1>1, <2>2, <2>3, FlushIsTyped DEF LinksInv
<1>10. locations' \subseteq Locations
  BY <1>1 DEF LinksInv
<1> QED BY <1>1, <1>5, <1>6, <1>7, <1>8, <1>9, <1>10 DEF LinksInv, Overridden

LEMMA UpdateSettingsKeepsLinks ==
    ASSUME LinksInv, PendingInv, NEW h \in Handlers, Work!UpdateSettings(h)
    PROVE  LinksInv'
<1>1. /\ settings' = Work!Flushed(pending[h].seen, pending[h].new)
      /\ UNCHANGED <<roles, locations, schedules, template, member, started>>
  BY DEF Work!UpdateSettings
<1>2. settings' \in Work!Settings
  <2>1. pending[h] \in Work!Pending /\ pending[h].op = "settings"
    BY DEF PendingInv, Work!UpdateSettings
  <2>2. pending[h].seen \in Work!Settings /\ pending[h].new \in Work!Settings
    BY <2>1 DEF Work!Pending
  <2> QED BY <1>1, <2>2, FlushIsTyped
<1>3. Work!Existing' = Work!Existing
  BY <1>1 DEF Work!Existing
<1> QED BY <1>1, <1>2, <1>3 DEF LinksInv, Overridden

\* One schedule is written; the others stay.
LEMMA ScheduleWritten ==
    ASSUME LinksInv, NEW s \in Schedules, NEW line \in ScheduleRows(roles, locations),
           schedules' = [schedules EXCEPT ![s] = line],
           UNCHANGED <<roles, locations, settings, template, member, started>>
    PROVE  LinksInv'
<1>1. schedules' \in [Schedules -> ScheduleRows(roles, locations) \cup {None}]
  BY DEF LinksInv
<1>2. line # None
  BY LinksAreRows
<1>3. Work!Existing \subseteq Work!Existing'
  BY <1>2 DEF LinksInv, Work!Existing
<1>4. /\ TemplateRows(roles, locations, Work!Existing)
            \subseteq TemplateRows(roles, locations, Work!Existing')
      /\ OpenShifts(locations, Work!Existing) \subseteq OpenShifts(locations, Work!Existing')
  BY <1>3, LinksGrow
<1> QED BY <1>1, <1>3, <1>4 DEF LinksInv, Overridden

LEMMA EditScheduleKeepsLinks ==
    ASSUME LinksInv, NEW s \in Schedules, Work!EditSchedule(s)
    PROVE  LinksInv'
<1> DEFINE line == schedules[s]
<1>1. line \in ScheduleRows(roles, locations) /\ schedules \in [Schedules -> ScheduleRows(roles, locations) \cup {None}]
  BY LinksAreRows DEF Work!EditSchedule, LinksInv
<1>2. \/ \E paused \in BOOLEAN : schedules' = [schedules EXCEPT ![s] = [line EXCEPT !.paused = paused]]
      \/ \E links \in SUBSET roles : schedules' = [schedules EXCEPT ![s] = [line EXCEPT !.roles = links]]
      \/ \E links \in SUBSET locations :
            schedules' = [schedules EXCEPT ![s] = [line EXCEPT !.locations = links]]
  BY <1>1 DEF Work!EditSchedule, Work!Linkable
<1>3. \E new \in ScheduleRows(roles, locations) : schedules' = [schedules EXCEPT ![s] = new]
  <2>1. /\ \A paused \in BOOLEAN : [line EXCEPT !.paused = paused] \in ScheduleRows(roles, locations)
        /\ \A links \in SUBSET roles : [line EXCEPT !.roles = links] \in ScheduleRows(roles, locations)
        /\ \A links \in SUBSET locations :
              [line EXCEPT !.locations = links] \in ScheduleRows(roles, locations)
    BY <1>1 DEF ScheduleRows
  <2> HIDE DEF line
  <2> QED BY <1>2, <2>1
<1>4. UNCHANGED <<roles, locations, settings, template, member, started>>
  BY DEF Work!EditSchedule
<1> QED BY <1>3, <1>4, ScheduleWritten

LEMMA CreateScheduleKeepsLinks ==
    ASSUME LinksInv, NEW s \in Schedules, Work!CreateSchedule(s)
    PROVE  LinksInv'
<1>1. Work!Schedule \in ScheduleRows(roles, locations)
  BY DEF Work!Schedule, ScheduleRows
<1> QED BY <1>1, ScheduleWritten DEF Work!CreateSchedule

LEMMA DeleteScheduleKeepsLinks ==
    ASSUME LinksInv, NEW s \in Schedules, Work!DeleteSchedule(s)
    PROVE  LinksInv'
<1>1. /\ schedules' = [schedules EXCEPT ![s] = None]
      /\ template' = [template EXCEPT !.schedules = template.schedules \ {s}]
      /\ member' = IF member = None THEN None ELSE [member EXCEPT !.shift[s] = None]
      /\ started' = IF started # None /\ started.schedule = s
                    THEN [started EXCEPT !.schedule = None] ELSE started
      /\ UNCHANGED <<roles, locations, settings>>
  BY Zenon DEF Work!DeleteSchedule
<1>2. schedules \in [Schedules -> ScheduleRows(roles, locations) \cup {None}]
  BY DEF LinksInv
<1>3. /\ schedules' \in [Schedules -> ScheduleRows(roles, locations) \cup {None}]
      /\ Work!Existing' = Work!Existing \ {s}
  BY <1>1, <1>2 DEF Work!Existing
<1>4. template' \in TemplateRows(roles, locations, Work!Existing')
  BY <1>1, <1>3 DEF LinksInv, TemplateRows
<1>5. member' # None => member' \in Members(roles) /\ Overridden(member') \subseteq Work!Existing'
  <2> SUFFICES ASSUME member' # None
               PROVE  member' \in Members(roles) /\ Overridden(member') \subseteq Work!Existing'
    OBVIOUS
  <2>1. member # None /\ member' = [member EXCEPT !.shift[s] = None]
    BY <1>1
  <2>2. member \in Members(roles) /\ Overridden(member) \subseteq Work!Existing
    BY <2>1 DEF LinksInv
  <2> DEFINE shown == [member.shift EXCEPT ![s] = None]
  <2>3. /\ shown \in [Schedules -> Work!Overrides] /\ shown[s] = None
        /\ \A r \in Schedules : r # s => shown[r] = member.shift[r]
    BY <2>2 DEF Members, Work!Overrides
  <2>4. member' = [member EXCEPT !.shift = shown]
    BY <2>1, <2>2 DEF Members
  <2> HIDE DEF shown
  <2>5. member' \in Members(roles) /\ member'.shift = shown
    BY <2>2, <2>3, <2>4 DEF Members
  <2> QED BY <2>2, <2>3, <2>5, <1>3 DEF Overridden
<1>6. started' # None => started' \in OpenShifts(locations, Work!Existing')
  <2> SUFFICES ASSUME started' # None PROVE started' \in OpenShifts(locations, Work!Existing')
    OBVIOUS
  <2>1. started # None
    BY <1>1
  <2>2. started \in OpenShifts(locations, Work!Existing)
    BY <2>1 DEF LinksInv
  <2> QED BY <1>1, <1>3, <2>1, <2>2 DEF OpenShifts
<1> QED BY <1>1, <1>3, <1>4, <1>5, <1>6 DEF LinksInv

LEMMA ManageChecklistKeepsLinks ==
    ASSUME LinksInv, Work!DeleteTemplate \/ Work!RestoreTemplate \/ Work!LinkTemplate
    PROVE  LinksInv'
<1>1. /\ UNCHANGED <<roles, locations, settings, schedules, member, started>>
      /\ \/ \E deleted \in BOOLEAN : template' = [template EXCEPT !.deleted = deleted]
         \/ \E links \in SUBSET roles : template' = [template EXCEPT !.roles = links]
         \/ \E links \in SUBSET locations : template' = [template EXCEPT !.locations = links]
         \/ \E links \in SUBSET Work!Existing : template' = [template EXCEPT !.schedules = links]
  BY DEF Work!DeleteTemplate, Work!RestoreTemplate, Work!LinkTemplate, Work!Active, Work!Linkable
<1>2. template \in TemplateRows(roles, locations, Work!Existing)
  BY DEF LinksInv
<1>3. template' \in TemplateRows(roles, locations, Work!Existing)
  BY <1>1, <1>2 DEF TemplateRows
<1>4. Work!Existing' = Work!Existing
  BY <1>1 DEF Work!Existing
<1> QED BY <1>1, <1>3, <1>4 DEF LinksInv, Overridden

\* Only the member changes, or is gone.
LEMMA MemberWritten ==
    ASSUME LinksInv, UNCHANGED <<roles, locations, settings, schedules, template, started>>,
           \/ member' = None
           \/ member' \in Members(roles) /\ Overridden(member') \subseteq Work!Existing
    PROVE  LinksInv'
<1>1. Work!Existing' = Work!Existing
  BY DEF Work!Existing
<1> QED BY <1>1 DEF LinksInv

LEMMA MemberKeepsLinks ==
    ASSUME LinksInv,
           \/ \E r \in Roles \cup {None} : Work!AssignRoleToMember(r)
           \/ \E override \in Work!Overrides : Work!SetMemberOverride(override)
           \/ \E overrides \in [Schedules -> Work!Overrides] :
                    Work!SetMemberScheduleOverrides(overrides)
           \/ Work!RemoveMember \/ Work!JoinByInvite
    PROVE  LinksInv'
<1>1. UNCHANGED <<roles, locations, settings, schedules, template, started>>
  BY DEF Work!AssignRoleToMember, Work!SetMemberOverride, Work!SetMemberScheduleOverrides,
         Work!RemoveMember, Work!JoinByInvite
<1>2. member # None => member \in Members(roles) /\ Overridden(member) \subseteq Work!Existing
  BY DEF LinksInv
<1> DEFINE fits == member' \in Members(roles) /\ Overridden(member') \subseteq Work!Existing
<1>3. ASSUME NEW r, Work!AssignRoleToMember(r) PROVE fits
  <2>1. member # None /\ r \in roles \cup {None} /\ member' = [member EXCEPT !.role = r]
    BY <1>3 DEF Work!AssignRoleToMember
  <2>2. member' \in Members(roles) /\ member'.shift = member.shift
    BY <1>2, <2>1 DEF Members
  <2> QED BY <1>2, <2>1, <2>2 DEF Overridden
<1>4. ASSUME NEW override \in Work!Overrides, Work!SetMemberOverride(override) PROVE fits
  <2>1. member # None /\ member' = [member EXCEPT !.list = override]
    BY <1>4 DEF Work!SetMemberOverride
  <2>2. member' \in Members(roles) /\ member'.shift = member.shift
    BY <1>2, <2>1 DEF Members
  <2> QED BY <1>2, <2>1, <2>2 DEF Overridden
<1>5. ASSUME NEW overrides \in [Schedules -> Work!Overrides],
             Work!SetMemberScheduleOverrides(overrides)
      PROVE  fits
  <2>1. member # None /\ member' = [member EXCEPT !.shift = overrides]
        /\ \A s \in Schedules : overrides[s] # None => s \in Work!Existing
    BY <1>5 DEF Work!SetMemberScheduleOverrides
  <2>2. member' \in Members(roles) /\ member'.shift = overrides
    BY <1>2, <2>1 DEF Members
  <2> QED BY <2>1, <2>2 DEF Overridden
<1>6. Work!JoinByInvite => fits
  <2>1. Work!Joined \in Members(roles) /\ Overridden(Work!Joined) = {}
    BY DEF Work!Joined, Members, Overridden, Work!Overrides
  <2> QED BY <2>1 DEF Work!JoinByInvite
<1>7. Work!RemoveMember => member' = None
  BY DEF Work!RemoveMember
<1> HIDE DEF fits
<1>8. member' = None \/ fits
  BY <1>3, <1>4, <1>5, <1>6, <1>7
<1> QED BY <1>1, <1>8, MemberWritten DEF fits

\* What a shift is started on exists.
LEMMA StartKeepsLinks ==
    ASSUME LinksInv, NEW ask \in Work!Asks, NEW requested \in Work!Existing \cup {None},
           NEW windows, Work!StartShift(ask, requested, windows)
    PROVE  LinksInv'
<1>1. UNCHANGED <<roles, locations, settings, schedules, template, member>>
  BY DEF Work!StartShift, Work!organization
<1>2. PICK at \in Work!StartLocation(ask) : \E s \in Work!StartSchedule(at, requested, windows) :
          started' = [location |-> at, schedule |-> s, issued |-> Work!IssuesTemplate(at, s)]
  BY DEF Work!StartShift
<1>3. PICK s \in Work!StartSchedule(at, requested, windows) :
          started' = [location |-> at, schedule |-> s, issued |-> Work!IssuesTemplate(at, s)]
  BY <1>2
<1>4. at \in locations \cup {None}
  <2>1. ask.near \in (SUBSET locations) \cup {None}
    BY DEF Work!Asks
  <2> QED BY <2>1 DEF Work!StartLocation, Work!Nearest
<1>5. s \in Work!Existing \cup {None}
  BY DEF Work!StartSchedule, Work!EffectiveSchedules, Work!Active
<1> DEFINE issued == Work!IssuesTemplate(at, s)
<1>6. issued \in BOOLEAN
  BY DEF Work!IssuesTemplate
<1>7. started' = [location |-> at, schedule |-> s, issued |-> issued]
  BY <1>3
<1> HIDE DEF issued
<1>8. started' \in OpenShifts(locations, Work!Existing)
  BY <1>4, <1>5, <1>6, <1>7 DEF OpenShifts
<1>9. Work!Existing' = Work!Existing
  BY <1>1 DEF Work!Existing
<1> QED BY <1>1, <1>8, <1>9 DEF LinksInv, Overridden

\* A step that leaves the rows alone keeps their links.
LEMMA OtherStepsKeepLinks ==
    ASSUME LinksInv, started' = None \/ started' = started,
           UNCHANGED <<roles, locations, settings, schedules, template, member>>
    PROVE  LinksInv'
<1>1. Work!Existing' = Work!Existing
  BY DEF Work!Existing
<1> QED BY <1>1 DEF LinksInv, Overridden

LEMMA NextKeepsLinks ==
    ASSUME LinksInv, PendingInv, Work!Next
    PROVE  LinksInv'
<1>1. ASSUME NEW r \in Roles, Work!CreateRole(r) PROVE LinksInv'
  BY <1>1, MoreRowsKeepLinks DEF Work!CreateRole, LinksInv
<1>2. ASSUME NEW l \in Locations, Work!CreateWorkLocation(l) PROVE LinksInv'
  BY <1>2, MoreRowsKeepLinks DEF Work!CreateWorkLocation, LinksInv
<1>3. CASE Work!FinishShift
  BY <1>3, OtherStepsKeepLinks DEF Work!FinishShift, Work!organization
<1>4. CASE Work!ManageOrganization
  <2>1. ASSUME NEW h \in Handlers, NEW l \in Locations, Work!LoadForDeleteWorkLocation(h, l)
        PROVE  LinksInv'
    BY <2>1, OtherStepsKeepLinks DEF Work!LoadForDeleteWorkLocation
  <2>2. ASSUME NEW h \in Handlers, NEW new \in Work!Settings, Work!LoadForUpdateSettings(h, new)
        PROVE  LinksInv'
    BY <2>2, OtherStepsKeepLinks DEF Work!LoadForUpdateSettings
  <2>3. ASSUME NEW h \in Handlers, Work!Dies(h) PROVE LinksInv'
    BY <2>3, OtherStepsKeepLinks DEF Work!Dies
  <2> QED BY <1>1, <1>2, <1>4, <2>1, <2>2, <2>3, DeleteRoleKeepsLinks,
             DeleteWorkLocationKeepsLinks, UpdateSettingsKeepsLinks, MemberKeepsLinks
          DEF Work!ManageOrganization
<1>5. CASE Work!ManageSchedules
  BY <1>5, CreateScheduleKeepsLinks, EditScheduleKeepsLinks, DeleteScheduleKeepsLinks,
     MemberKeepsLinks
     DEF Work!ManageSchedules
<1>6. CASE Work!ManageChecklist
  BY <1>6, ManageChecklistKeepsLinks, MemberKeepsLinks DEF Work!ManageChecklist
<1> QED BY <1>3, <1>4, <1>5, <1>6, StartKeepsLinks DEF Work!Next

(***************************************************************************)
(* The requests that count locations                                       *)
(***************************************************************************)

\* A request comes to rest, or to a row that deletes no location another one deletes.
LEMMA PendingWritten ==
    ASSUME PendingInv, NEW h \in Handlers, NEW line \in Work!Pending,
           pending' = [pending EXCEPT ![h] = line], UNCHANGED locations,
           line.op = "delete" =>
               /\ line.location \in locations
               /\ \A g \in Handlers : pending[g].op = "delete" => pending[g].location # line.location
    PROVE  PendingInv'
<1>1. pending' \in [Handlers -> Work!Pending]
  BY DEF PendingInv
<1>2. pending'[h] = line /\ \A g \in Handlers : g # h => pending'[g] = pending[g]
  BY DEF PendingInv
<1> QED BY <1>1, <1>2 DEF PendingInv

\* The location goes and its deletion is done: the other deletions are of others.
LEMMA DeletionEndsKeepsPending ==
    ASSUME PendingInv, NEW h \in Handlers, Work!DeleteWorkLocation(h)
    PROVE  PendingInv'
<1>1. /\ pending[h].op = "delete" /\ locations' = locations \ {pending[h].location}
      /\ pending' = [pending EXCEPT ![h] = Work!Rest]
  BY Zenon DEF Work!DeleteWorkLocation
<1>2. Work!Rest \in Work!Pending /\ Work!Rest.op = "rest"
  BY DEF Work!Rest, Work!Pending
<1>3. /\ pending' \in [Handlers -> Work!Pending] /\ pending'[h].op = "rest"
      /\ \A g \in Handlers : g # h => pending'[g] = pending[g]
  BY <1>1, <1>2 DEF PendingInv
<1> QED BY <1>1, <1>3 DEF PendingInv

LEMMA LoadKeepsPending ==
    ASSUME LinksInv, PendingInv, NEW h \in Handlers,
           \/ \E l \in Locations : Work!LoadForDeleteWorkLocation(h, l)
           \/ \E new \in Work!Settings : Work!LoadForUpdateSettings(h, new)
    PROVE  PendingInv'
<1>1. ASSUME NEW l \in Locations, Work!LoadForDeleteWorkLocation(h, l) PROVE PendingInv'
  <2> DEFINE last == locations = {l}
             line == [op |-> "delete", location |-> l, last |-> last, seen |-> settings]
  <2>1. pending' = [pending EXCEPT ![h] = line] /\ UNCHANGED locations
    BY <1>1 DEF Work!LoadForDeleteWorkLocation
  <2>2. last \in BOOLEAN
    OBVIOUS
  <2> HIDE DEF last
  <2>3. line \in Work!Pending /\ line.op = "delete" /\ line.location = l
    BY <2>2 DEF Work!Pending, LinksInv
  <2> HIDE DEF line
  <2>4. /\ l \in locations
        /\ \A g \in Handlers : pending[g].op = "delete" => pending[g].location # l
    BY <1>1, Zenon DEF Work!LoadForDeleteWorkLocation, Work!Linkable, Work!Doomed
  <2> QED BY <2>1, <2>3, <2>4, PendingWritten
<1>2. ASSUME NEW new \in Work!Settings, Work!LoadForUpdateSettings(h, new) PROVE PendingInv'
  <2> DEFINE line == [op |-> "settings", new |-> new, seen |-> settings]
  <2>1. pending' = [pending EXCEPT ![h] = line] /\ UNCHANGED locations
    BY <1>2 DEF Work!LoadForUpdateSettings
  <2>2. line \in Work!Pending /\ line.op = "settings"
    BY DEF Work!Pending, LinksInv
  <2> HIDE DEF line
  <2> QED BY <2>1, <2>2, PendingWritten
<1> QED BY <1>1, <1>2

LEMMA EndKeepsPending ==
    ASSUME PendingInv, NEW h \in Handlers, Work!UpdateSettings(h) \/ Work!Dies(h)
    PROVE  PendingInv'
<1>1. pending' = [pending EXCEPT ![h] = Work!Rest] /\ UNCHANGED locations
  BY DEF Work!UpdateSettings, Work!Dies
<1>2. Work!Rest \in Work!Pending /\ Work!Rest.op = "rest"
  BY DEF Work!Rest, Work!Pending
<1> QED BY <1>1, <1>2, PendingWritten

\* The other requests leave these alone, and take no location away.
LEMMA OtherStepsKeepPending ==
    ASSUME PendingInv, UNCHANGED pending, locations \subseteq locations'
    PROVE  PendingInv'
BY DEF PendingInv

LEMMA NextKeepsPending ==
    ASSUME LinksInv, PendingInv, Work!Next
    PROVE  PendingInv'
<1>1. CASE \E h \in Handlers :
              \/ \E l \in Locations : Work!LoadForDeleteWorkLocation(h, l)
              \/ \E new \in Work!Settings : Work!LoadForUpdateSettings(h, new)
  BY <1>1, LoadKeepsPending
<1>2. CASE \E h \in Handlers : Work!UpdateSettings(h) \/ Work!Dies(h)
  BY <1>2, EndKeepsPending
<1>3. CASE \E h \in Handlers : Work!DeleteWorkLocation(h)
  BY <1>3, DeletionEndsKeepsPending
<1>4. CASE ~\E h \in Handlers :
              \/ \E l \in Locations : Work!LoadForDeleteWorkLocation(h, l)
              \/ \E new \in Work!Settings : Work!LoadForUpdateSettings(h, new)
              \/ Work!UpdateSettings(h) \/ Work!Dies(h) \/ Work!DeleteWorkLocation(h)
  <2>1. UNCHANGED pending
    BY <1>4, Zenon
       DEF Work!Next, Work!ManageOrganization, Work!ManageSchedules, Work!ManageChecklist,
           Work!StartShift, Work!FinishShift, Work!organization, Work!CreateRole,
           Work!DeleteRole, Work!CreateWorkLocation, Work!AssignRoleToMember,
           Work!RemoveMember, Work!JoinByInvite, Work!CreateSchedule, Work!EditSchedule,
           Work!DeleteSchedule, Work!SetMemberScheduleOverrides, Work!DeleteTemplate,
           Work!RestoreTemplate, Work!LinkTemplate, Work!SetMemberOverride
  <2>2. (\E l : locations' = locations \cup {l}) \/ UNCHANGED locations
    BY <1>4, Zenon
       DEF Work!Next, Work!ManageOrganization, Work!ManageSchedules, Work!ManageChecklist,
           Work!StartShift, Work!FinishShift, Work!organization, Work!CreateRole,
           Work!DeleteRole, Work!CreateWorkLocation, Work!AssignRoleToMember,
           Work!RemoveMember, Work!JoinByInvite, Work!CreateSchedule, Work!EditSchedule,
           Work!DeleteSchedule, Work!SetMemberScheduleOverrides, Work!DeleteTemplate,
           Work!RestoreTemplate, Work!LinkTemplate, Work!SetMemberOverride
  <2> QED BY <2>1, <2>2, OtherStepsKeepPending
<1> QED BY <1>1, <1>2, <1>3, <1>4

\* The requests made stay within their bound.
LEMMA EditsAreBounded ==
    ASSUME edited \in 0 .. MaxWorkplaceEdits, Work!Next
    PROVE  edited' \in 0 .. MaxWorkplaceEdits
<1>1. Work!Edits \/ edited' = edited
  BY Zenon
     DEF Work!Next, Work!ManageOrganization, Work!ManageSchedules, Work!ManageChecklist,
         Work!StartShift, Work!FinishShift, Work!CreateRole, Work!DeleteRole,
         Work!CreateWorkLocation, Work!LoadForDeleteWorkLocation, Work!DeleteWorkLocation,
         Work!LoadForUpdateSettings, Work!UpdateSettings, Work!Dies, Work!AssignRoleToMember, Work!RemoveMember, Work!JoinByInvite, Work!CreateSchedule,
         Work!EditSchedule, Work!DeleteSchedule, Work!SetMemberScheduleOverrides,
         Work!DeleteTemplate, Work!RestoreTemplate, Work!LinkTemplate, Work!SetMemberOverride
<1>2. MaxWorkplaceEdits \in Nat
  BY OfficeAssumption DEF Work!WorkplaceAssumption
<1> QED BY <1>1, <1>2 DEF Work!Edits

\* While the workplace is the part that moves, its links point to rows that exist.
WorkplaceInv == part = "workplace" => LinksInv /\ PendingInv /\ edited \in 0 .. MaxWorkplaceEdits

LEMMA NextWorkplaceInv == WorkplaceInv /\ [Next]_officeVars => WorkplaceInv'
<1> SUFFICES ASSUME WorkplaceInv, [Next]_officeVars, part' = "workplace"
             PROVE  LinksInv' /\ PendingInv' /\ edited' \in 0 .. MaxWorkplaceEdits
  BY DEF WorkplaceInv
<1>1. CASE WorkplaceMoves
  BY <1>1, NextKeepsLinks, NextKeepsPending, EditsAreBounded DEF WorkplaceMoves, WorkplaceInv
<1>2. CASE ~WorkplaceMoves
  <2>1. part = "workplace" /\ UNCHANGED managing
    BY <1>2 DEF Next, TestsMove, OvertimeMoves, WindowMoves, FilesMove, KnowledgeMoves, officeVars
  <2>2. /\ LinksInv /\ PendingInv /\ edited \in 0 .. MaxWorkplaceEdits
        /\ UNCHANGED <<roles, locations, settings, schedules, template, member, pending>>
        /\ UNCHANGED <<started, edited>>
    BY <2>1 DEF WorkplaceInv, managing
  <2> QED BY <2>2, OtherStepsKeepLinks, OtherStepsKeepPending
<1> QED BY <1>1, <1>2

LEMMA InitWorkplaceInv == Init => WorkplaceInv
<1>1. MaxWorkplaceEdits \in Nat
  BY OfficeAssumption DEF Work!WorkplaceAssumption
<1>2. Work!Init => PendingInv
  BY DEF Work!Init, Work!Rest, PendingInv, Work!Pending
<1> QED BY <1>1, <1>2, InitLinks DEF Init, WorkplaceInv, Work!Init

LEMMA LinksAreTyped == WorkplaceInv => (part = "workplace" => Work!TypeOK)
<1> SUFFICES ASSUME LinksInv, PendingInv, edited \in 0 .. MaxWorkplaceEdits PROVE Work!TypeOK
  BY DEF WorkplaceInv
<1>1. \A s \in Work!Existing :
          schedules[s] \in [paused : BOOLEAN, roles : SUBSET roles, locations : SUBSET locations]
  BY LinksAreRows DEF ScheduleRows
<1>2. ASSUME member # None
      PROVE  /\ member.role \in roles \cup {None} /\ member.list \in Work!Overrides
             /\ \A s \in Schedules : /\ member.shift[s] \in Work!Overrides
                                     /\ member.shift[s] # None => s \in Work!Existing
  <2>1. member \in Members(roles) /\ Overridden(member) \subseteq Work!Existing
    BY <1>2 DEF LinksInv
  <2> QED BY <2>1 DEF Members, Overridden
<1>3. /\ template \in TemplateRows(roles, locations, Work!Existing)
      /\ started # None => started \in OpenShifts(locations, Work!Existing)
      /\ roles \subseteq Roles /\ locations \subseteq Locations /\ settings \in Work!Settings
  BY DEF LinksInv
<1>4. pending \in [Handlers -> Work!Pending] /\ Work!Doomed \subseteq locations
  BY DEF PendingInv, Work!Doomed
<1> QED BY <1>1, <1>2, <1>3, <1>4 DEF Work!TypeOK, TemplateRows, OpenShifts

LEMMA InitOvertimeBounds == Init => OvertimeBounds
<1>1. Overtimes!Init => /\ today \in 0 .. LastDay
                        /\ worked \in [finished : 0 .. ScheduledEnd + 1, deleted : BOOLEAN]
                        /\ Len(overtime) <= LastRequest
  <2> SUFFICES ASSUME Overtimes!Init
               PROVE  /\ today \in 0 .. LastDay
                      /\ worked \in [finished : 0 .. ScheduledEnd + 1, deleted : BOOLEAN]
                      /\ Len(overtime) <= LastRequest
    OBVIOUS
  <2>1. LastDay \in Nat /\ LastRequest \in Nat
    BY OfficeAssumption DEF Overtimes!OvertimeAssumption
  <2>2. today = 0 /\ overtime = <<>> /\ worked \in [finished : 0 .. ScheduledEnd + 1, deleted : {FALSE}]
    BY DEF Overtimes!Init
  <2>3. worked \in [finished : 0 .. ScheduledEnd + 1, deleted : BOOLEAN]
    BY <2>2
  <2> QED BY <2>1, <2>2, <2>3
<1> QED BY <1>1 DEF Init, OvertimeBounds

LEMMA OvertimeIsTyped ==
    OvertimeInv /\ OvertimeBounds => (part = "overtime" => Overtimes!TypeOK)
BY DEF OvertimeInv, OvertimeBounds, OneLiveInv, AskedInv, Overtimes!TypeOK

LEMMA InitWindowBounds == Init => WindowBounds
<1>1. Windows!Init => now = 0 /\ edits = 0 /\ shift = None
  BY DEF Windows!Init
<1> QED BY <1>1, OfficeAssumption DEF Windows!ClockAssumption, Init, WindowBounds

LEMMA WindowIsTyped == WindowInv /\ WindowBounds => (part = "window" => Windows!TypeOK)
<1> SUFFICES ASSUME WindowInv, WindowBounds, part = "window" PROVE Windows!TypeOK
  OBVIOUS
<1>1. /\ now \in Nat /\ now <= LastMoment /\ edits \in 0 .. MaxScheduleEdits
      /\ gap \in Gaps /\ schedule \in Times /\ rules \in Windows!WeeklyRules
  BY DEF WindowInv, WindowBounds, ClockInv
<1>2. LastMoment \in Nat
  BY OfficeAssumption DEF Windows!ClockAssumption
<1>3. now \in 0 .. LastMoment
  BY <1>1, <1>2
<1>4. ASSUME shift # None
      PROVE  /\ shift.started \in 0 .. now /\ shift.finished \in Int \cup {None}
             /\ shift.plan # None => {shift.plan.start, shift.plan.end} \subseteq Int
  <2>1. shift \in PlannedShifts /\ 0 <= shift.started /\ shift.started <= now
    BY <1>4 DEF WindowInv, WindowBounds
  <2>2. shift.started \in Int /\ shift.finished \in Int \cup {None} /\ shift.plan \in Plans \cup {None}
    BY <2>1 DEF PlannedShifts
  <2>3. shift.plan # None => shift.plan.start \in Int /\ shift.plan.end \in Int
    BY <2>2 DEF Plans
  <2> QED BY <1>1, <2>1, <2>2, <2>3
<1> QED BY <1>1, <1>3, <1>4 DEF Windows!TypeOK

\* While tests are the part that moves, their rows stay within their bounds.
TestsBounds == part = "tests" => ProvedTests!BoundInv

LEMMA InitTestsBounds == Init => TestsBounds
<1> SUFFICES ASSUME Init PROVE ProvedTests!BoundInv
  BY DEF TestsBounds
<1>1. ProvedTests!Init
  BY Zenon DEF Init, Tests!Init, ProvedTests!Init, Tests!Rest, ProvedTests!Rest,
               Tests!NoAttempts, ProvedTests!NoAttempts, Tests!Attempt, ProvedTests!Attempt
<1>2. LastId \in Nat
  BY OfficeAssumption DEF Tests!TestsAssumption
<1> QED BY <1>1, <1>2, ProvedTests!InitBoundInv

LEMMA NextTestsBounds == TestsInv /\ TestsBounds /\ [Next]_officeVars => TestsBounds'
<1> SUFFICES ASSUME TestsInv, TestsBounds, [Next]_officeVars, part' = "tests"
             PROVE  ProvedTests!BoundInv'
  BY DEF TestsBounds
<1>1. part = "tests"
  BY DEF Next, TestsMove, OvertimeMoves, WindowMoves, WorkplaceMoves, FilesMove, KnowledgeMoves, officeVars
<1>2. LastId \in Nat /\ LastNumber \in Nat
  BY OfficeAssumption DEF Tests!TestsAssumption
<1> QED BY <1>1, <1>2, TestsStep, NoneIsNoRow, ProvedTests!NextBoundInv DEF TestsInv, TestsBounds

LEMMA TestsAreTyped == TestsInv /\ TestsBounds => (part = "tests" => Tests!TypeOK)
<1>1. LastNumber \in Nat
  BY OfficeAssumption DEF Tests!TestsAssumption
<1>2. ProvedTests!IInv /\ ProvedTests!BoundInv => ProvedTests!TypeOK
  BY <1>1, ProvedTests!BoundInvSaysTyped
<1>3. ProvedTests!TypeOK => Tests!TypeOK
  BY Zenon DEF ProvedTests!TypeOK, Tests!TypeOK, ProvedTests!Cardinality, Tests!Cardinality,
               ProvedTests!NoAttempts, Tests!NoAttempts, ProvedTests!Attempt, Tests!Attempt,
               ProvedTests!Assignments, Tests!Assignments,
               ProvedTests!AssignmentStatus, Tests!AssignmentStatus
<1> QED BY <1>2, <1>3 DEF TestsInv, TestsBounds

LEMMA KnowledgeIsTyped == KnowledgeTreeInv => (part = "knowledge" => Base!TypeOK)
<1> SUFFICES ASSUME BranchInv PROVE Base!TypeOK
  BY DEF KnowledgeTreeInv
<1>1. ASSUME NEW h \in Base!Moving PROVE move[h].node \in Base!Existing /\ move[h].seen \subseteq Base!Nodes
  <2>1. MoveInv
    BY DEF BranchInv, TreeInv
  <2>2. move[h] \in Moves
    BY <1>1, <2>1, MoveShape
  <2> QED BY <1>1, <2>1, <2>2 DEF MoveInv, Moves
<1>2. ASSUME NEW n \in Base!Nodes PROVE access[n] \in Base!Rules
  BY DEF BranchInv, HangInv
<1> QED BY <1>1, <1>2 DEF BranchInv, HangInv, Base!TypeOK

\* Whichever part moves, its rows keep their types and its counters their bounds; no
\* link of the workplace outlives the row it points to.
THEOREM OfficeTyped == Spec => []TypeOK
<1> DEFINE All == /\ TestsInv /\ TestsBounds /\ OvertimeInv /\ OvertimeBounds
                  /\ WindowInv /\ WindowBounds /\ WorkplaceInv /\ FilesInv /\ WorkerInv
                  /\ KnowledgeTreeInv
<1>1. Init => All
  BY InitTestsInv, InitTestsBounds, InitOvertimeInv, InitOvertimeBounds, InitWindowInv,
     InitWindowBounds, InitWorkplaceInv, InitFilesInv, InitWorkerInv, InitKnowledgeTree
<1>2. All /\ [Next]_officeVars => All'
  BY NextTestsInv, NextTestsBounds, NextOvertimeInv, NextOvertimeBounds, NextWindowInv,
     NextWindowBounds, NextWorkplaceInv, NextFilesInv, NextWorkerInv, NextKnowledgeTree
<1>3. All => TypeOK
  BY TestsAreTyped, OvertimeIsTyped, WindowIsTyped, LinksAreTyped, FilesAreTyped,
     KnowledgeIsTyped DEF TypeOK
<1> QED BY <1>1, <1>2, <1>3, PTL DEF Spec

======================================================================================
