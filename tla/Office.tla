-------------------------------- MODULE Office --------------------------------
(***************************************************************************)
(* The parts of an organization's office that share no rows with each      *)
(* other: tests, overtime requests, the window of a schedule, the          *)
(* workplace, files and the knowledge base.  Each is a module of its own.  *)
(* Because no action of one reads a variable of another, every safety      *)
(* property of one of them is decided by the behaviours in which only that *)
(* part moves; `part` names it, and the others stay as they start.         *)
(***************************************************************************)
EXTENDS Integers, FiniteSets

CONSTANTS None, Handlers,
          Questions, Thresholds, Tries, LastId, LastNumber,            \* tests
          ScheduledEnd, RequestDays, LastDay, LastRequest,             \* overtime
          Day, Week, Times, Gaps, Transition, Early, LastMoment,       \* window
          MaxScheduleEdits,
          Roles, Locations, Schedules, Order, MaxWorkplaceEdits,       \* workplace
          FileIds, MaxDeletes,                                         \* files
          LastNode, Grants, MaxChanges, Root, Gone                     \* knowledge

VARIABLES part,
          testTemplate, assignment, attempts, lastId, notices, requests,
          today, worked, overtime, calls,
          now, gap, schedule, rules, shift, edits,
          roles, locations, settings, schedules, template, member, pending, started, edited,
          keys, row, linked, holder, object, old, job, task, cut, undone,
          parent, access, move, overlap, changes

Tests == INSTANCE EmployeeTests

Overtimes == INSTANCE Overtime

Windows == INSTANCE ScheduleWindow WITH MaxEdits <- MaxScheduleEdits

Work == INSTANCE Workplace WITH MaxEdits <- MaxWorkplaceEdits

Storage == INSTANCE Files WITH Clients <- Handlers

Base == INSTANCE Knowledge WITH Clients <- Handlers

ASSUME OfficeAssumption ==
    /\ Tests!TestsAssumption /\ Overtimes!OvertimeAssumption /\ Windows!ClockAssumption
    /\ Work!WorkplaceAssumption /\ Storage!FilesAssumption /\ Base!KnowledgeAssumption

testing == <<testTemplate, assignment, attempts, lastId, notices, requests>>
overtimes == <<today, worked, overtime, calls>>
planning == <<now, gap, schedule, rules, shift, edits>>
managing == <<roles, locations, settings, schedules, template, member, pending, started, edited>>
storing == <<keys, row, linked, holder, object, old, job, task, cut, undone>>
knowing == <<parent, access, move, overlap, changes>>

officeVars == <<part, testing, overtimes, planning, managing, storing, knowing>>

Parts == {"tests", "overtime", "window", "workplace", "files", "knowledge"}

\* A part that stays as it starts has one state to start in.
OneStart ==
    /\ part # "tests" => testTemplate = CHOOSE t \in
        [deleted : {FALSE}, threshold : Thresholds, tries : Tries, questions : {{q} : q \in Questions}] : TRUE
    /\ part # "overtime" => worked.finished = 0
    /\ part # "window" => gap = 0 /\ schedule = CHOOSE t \in Times : TRUE
    /\ part # "workplace" =>
        /\ locations = {CHOOSE l \in Locations : TRUE}
        /\ schedules[CHOOSE s \in Schedules : TRUE] # None

Init ==
    /\ part \in Parts
    /\ Tests!Init /\ Overtimes!Init /\ Windows!Init /\ Work!Init /\ Storage!Init /\ Base!Init
    /\ OneStart

TestsMove ==
    /\ part = "tests" /\ Tests!Next
    /\ UNCHANGED <<part, overtimes, planning, managing, storing, knowing>>

OvertimeMoves ==
    /\ part = "overtime" /\ Overtimes!Next
    /\ UNCHANGED <<part, testing, planning, managing, storing, knowing>>

WindowMoves ==
    /\ part = "window" /\ Windows!Next
    /\ UNCHANGED <<part, testing, overtimes, managing, storing, knowing>>

WorkplaceMoves ==
    /\ part = "workplace" /\ Work!Next
    /\ UNCHANGED <<part, testing, overtimes, planning, storing, knowing>>

FilesMove ==
    /\ part = "files" /\ Storage!Next
    /\ UNCHANGED <<part, testing, overtimes, planning, managing, knowing>>

KnowledgeMoves ==
    /\ part = "knowledge" /\ Base!Next
    /\ UNCHANGED <<part, testing, overtimes, planning, managing, storing>>

Next ==
    \/ TestsMove \/ OvertimeMoves \/ WindowMoves \/ WorkplaceMoves \/ FilesMove
    \/ KnowledgeMoves

Spec == Init /\ [][Next]_officeVars

\* Fairness of the files' part; no progress is asked of the others.
FairSpec == Spec /\ Storage!Fairness

(***************************************************************************)
(* Properties                                                              *)
(***************************************************************************)

\* Type invariant of the part that moves.
TypeOK ==
    /\ part = "tests" => Tests!TypeOK
    /\ part = "overtime" => Overtimes!TypeOK
    /\ part = "window" => Windows!TypeOK
    /\ part = "workplace" => Work!TypeOK
    /\ part = "files" => Storage!TypeOK
    /\ part = "knowledge" => Base!TypeOK

\* A submission that is sent twice, or beside another one, never costs the employee
\* more attempts than were submitted (submit_attempt).
UsedIsEarned == part = "tests" => Tests!UsedIsEarned

\* The result in the register and the attempts agree whatever is submitted at once
\* (submit_attempt).
ResultHasAttempt == part = "tests" => Tests!ResultHasAttempt

\* A change of the template after the start does not change how an attempt is judged
\* (start_attempt, submit_attempt).
JudgedBySnapshot == Tests!JudgedBySnapshot

\* However many overtime requests are created, withdrawn and reviewed at once, one at
\* most is pending or approved (create_overtime_request).
OneLiveRequest == part = "overtime" => Overtimes!OneLiveRequest

\* Whatever rules, change of the clocks and moment: the plan a shift is given does not
\* end before the shift started (compute_scheduled_window_with_weekly_rules).
PlanEndsAfterStart == Windows!PlanEndsAfterStart

\* Nobody is turned away at work time (is_schedule_startable).
NobodyTurnedAway == part = "window" => Windows!NobodyTurnedAway

\* The start of a shift accepts what my-schedules lists, and nothing else
\* (get_my_schedules, _resolve_org_shift_schedule).
ListedIsStartable == part = "workplace" => Work!ListedIsStartable

\* What is issued with a shift was in the previews of the member's checklists
\* (get_effective_templates, create_instances_for_shift).
PreviewCoversIssued == part = "workplace" => Work!PreviewCoversIssued

\* cleanup_orphan_files never takes a file that has been linked in the meantime.
CleanupSparesLinked == Storage!CleanupSparesLinked

\* The collection of orphans, delete_file and a file that cannot be added cost no linked
\* file its object (_recompute_file_bindings).
LinkedHasObject == part = "files" => Storage!LinkedHasObject

\* What has no row does not pile up in storage (reconcile_storage_objects).
StorageIsCollected == Storage!StorageIsCollected

\* Two nodes are never each other's parents (_move_node, the foreign key of parent_id).
NoMutualParents == part = "knowledge" => Base!NoMutualParents

\* While no two moves overlap, an employee finds each node that he may read in the
\* tree (_move_node, _compute_visible).
ReadableIsListed == part = "knowledge" => Base!ReadableIsListed

=============================================================================
