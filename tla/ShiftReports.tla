---------------------------- MODULE ShiftReports ----------------------------
(***************************************************************************)
(* What an organization and an employee read about shifts: the lists and   *)
(* the statistics of services/shift.py, the summaries and the register of  *)
(* checklists of services/checklist_instance.py, and the endpoints of      *)
(* api/v1/organizations.py and api/v1/shifts.py that put them together.    *)
(*                                                                         *)
(* A report is several statements, and each of them reads what has been    *)
(* committed by then; rows once loaded are not read again.  What others    *)
(* commit is modelled in Shift, Checklist and Overtime: here it is any of  *)
(* the given versions of a shift, any change of a checklist, and any       *)
(* review of an overtime request, late ones included.                      *)
(*                                                                         *)
(* Time is counted in parts of a second.                                   *)
(***************************************************************************)
EXTENDS Integers, Sequences, FiniteSets, SequencesExt

CONSTANTS Staff,        \* employees
          ShiftIds,     \* shifts, numbered in the order of their creation
          Versions,     \* what may be committed as the row of a shift
          Ranges,       \* the windows asked for: first and last moment, either may be None
          Part,         \* parts of a second
          DayLength,    \* parts of a day
          Tolerance,    \* late_tolerance_minutes, in seconds
          FirstTick,
          LastTick,     \* bound: moments
          MaxCommits,   \* bound: commits of others
          None          \* NULL

VARIABLES clock,
          shiftRows,    \* the row of each shift with its pauses, or None
          instances,    \* the checklists issued with each shift
          claims,       \* the statuses of each shift's overtime requests, oldest first
          commits,
          report        \* the report that is being put together

database == <<shiftRows, instances, claims>>
reportVars == <<clock, database, commits, report>>

Ticks == 0 .. LastTick

\* pause: when the open pause began; rest: how long the closed ones lasted.
ShiftVersion ==
    [user : Staff, org : BOOLEAN, start : Ticks, plan : Ticks \cup {None}, end : Ticks \cup {None},
     pause : Ticks \cup {None}, rest : Nat, deleted : BOOLEAN]

Instance == [required : BOOLEAN, completed : BOOLEAN]

Verdicts == {"approved", "rejected"}

Statuses == Verdicts \cup {"pending"}

ReportsAssumption ==
    /\ Versions \subseteq ShiftVersion
    /\ ShiftIds \subseteq Nat /\ IsFiniteSet(ShiftIds)
    /\ Part \in Nat \ {0} /\ Tolerance \in Nat /\ MaxCommits \in Nat
    /\ LastTick \in Nat /\ FirstTick \in Ticks
    /\ None \notin Nat \cup Statuses

IsLive(status) == status # "rejected"

OneLive(statuses) == Cardinality({i \in DOMAIN statuses : IsLive(statuses[i])}) <= 1

NoReport == [at |-> "rest"]

OfOrganization(s) == shiftRows[s] # None /\ shiftRows[s].org

Init ==
    /\ clock = FirstTick
    /\ shiftRows = [s \in ShiftIds |-> None]
    /\ instances = [s \in ShiftIds |-> <<>>]
    /\ claims = [s \in ShiftIds |-> <<>>]
    /\ commits = 0
    /\ report = NoReport

(***************************************************************************)
(* What a shift is shown with                                              *)
(***************************************************************************)

Pauses(row, moment) == row.rest + (IF row.pause = None THEN 0 ELSE moment - row.pause)

CalculateWorkedSeconds(row, moment) ==
    LET end == IF row.end = None THEN moment ELSE row.end IN
    Max({0, (end - row.start - Pauses(row, moment)) \div Part})

\* Whole seconds, rounded down before the tolerance is subtracted.
ComputeLateSeconds(row) ==
    IF row.plan = None THEN None ELSE Max({0, (row.start - row.plan) \div Part - Tolerance})

Completed(s) == {i \in DOMAIN instances[s] : instances[s][i].completed}

Required(s) == {i \in DOMAIN instances[s] : instances[s][i].required}

\* get_checklists_summary_for_shifts: a shift that is not in the answer gets zeros.
ChecklistsSummary(s) ==
    [total              |-> Len(instances[s]),
     completed          |-> Cardinality(Completed(s)),
     requiredTotal      |-> Cardinality(Required(s)),
     requiredIncomplete |-> Cardinality(Required(s) \ Completed(s))]

LatestOvertime(s) == IF claims[s] = <<>> THEN None ELSE Last(claims[s])

(***************************************************************************)
(* The lists                                                               *)
(***************************************************************************)

Scopes == {"all", "personal", "organization"}

ChecklistFilters == {"none", "all_completed", "has_incomplete", "required_incomplete"}

OvertimeFilters == {"pending", "approved", "any"}

Filters == {"everything", "only_late"} \cup ChecklistFilters \cup OvertimeFilters

\* Both bounds count, and either may be missing.
Within(row, w) ==
    /\ w.from # None => row.start >= w.from
    /\ w.to # None => row.start <= w.to

InScope(row, scope) ==
    /\ scope = "personal" => ~row.org
    /\ scope = "organization" => row.org

Live(row) == row # None /\ ~row.deleted

GetShifts(user, scope, w) ==
    {s \in ShiftIds : LET row == shiftRows[s] IN
        Live(row) /\ row.user = user /\ Within(row, w) /\ InScope(row, scope)}

\* The subquery has no row for a shift without checklists, and a comparison with NULL
\* is not true.
ChecklistsMatch(s, filter) ==
    \/ filter = "none" /\ instances[s] = <<>>
    \/ /\ instances[s] # <<>>
       /\ \/ filter = "all_completed" /\ Cardinality(Completed(s)) = Len(instances[s])
          \/ filter = "has_incomplete" /\ Cardinality(Completed(s)) < Len(instances[s])
          \/ filter = "required_incomplete" /\ Required(s) \ Completed(s) # {}

IsLate(row) == row.plan # None /\ row.start - row.plan - Tolerance * Part > 0

\* Mutant: only the latest request counts, and a rejected one is none.
LatestMatches(s, filter) ==
    IF filter = "any" THEN LatestOvertime(s) \in {"pending", "approved"} ELSE LatestOvertime(s) = filter

HasOvertime(s, filter) ==
    IF filter = "any" THEN claims[s] # <<>> ELSE \E i \in DOMAIN claims[s] : claims[s][i] = filter

GetOrgShifts(w, includeDeleted, filter) ==
    {s \in ShiftIds : LET row == shiftRows[s] IN
        /\ row # None /\ row.org /\ (row.deleted => includeDeleted)
        /\ Within(row, w)
        /\ filter = "only_late" => IsLate(row)
        /\ filter \in ChecklistFilters => ChecklistsMatch(s, filter)
        /\ filter \in OvertimeFilters => HasOvertime(s, filter)}

\* A shift that is deleted has a detail where the list shows it.
GetOrgShiftDetail(s, includeDeleted) ==
    OfOrganization(s) /\ (shiftRows[s].deleted => includeDeleted)

GetOwnShiftDetail(user, s) == Live(shiftRows[s]) /\ shiftRows[s].user = user

\* list_org_checklist_instances: of shifts that are deleted or personal, none.
ListOrgChecklistInstances(w, state) ==
    {p \in ShiftIds \X (1 .. MaxCommits) : LET s == p[1]  i == p[2] IN
        /\ i \in DOMAIN instances[s]
        /\ OfOrganization(s) /\ ~shiftRows[s].deleted
        /\ Within(shiftRows[s], w)
        /\ state = "completed" => instances[s][i].completed
        /\ state = "not_completed" => ~instances[s][i].completed}

ListOrgOvertimeRequests(w, status) ==
    {p \in ShiftIds \X (1 .. MaxCommits) : LET s == p[1]  i == p[2] IN
        /\ i \in DOMAIN claims[s]
        /\ OfOrganization(s) /\ ~shiftRows[s].deleted
        /\ Within(shiftRows[s], w)
        /\ status # "all" => claims[s][i] = status}

\* What the query of the report selects by now.
Found ==
    LET r == report IN
    CASE r.kind = "organization" -> GetOrgShifts(r.window, r.deleted, r.filter)
      [] r.kind = "own" -> GetShifts(r.user, r.filter, r.window)
      [] r.kind = "checklists" -> ListOrgChecklistInstances(r.window, r.filter)
      [] r.kind = "overtime" -> ListOrgOvertimeRequests(r.window, r.filter)

\* What is asked, and nothing found yet.
Asked(kind, at) ==
    [kind |-> kind, at |-> at, quiet |-> TRUE, window |-> None, user |-> None, filter |-> "all",
     deleted |-> FALSE, total |-> 0, page |-> {}, summaries |-> None, latest |-> None,
     rows |-> None, employees |-> None]

Ask(list) ==
    /\ report = NoReport
    /\ report' = list
    /\ UNCHANGED <<clock, database, commits>>

ListOrgShifts(w, deleted, filter) ==
    Ask([Asked("organization", "count") EXCEPT !.window = w, !.deleted = deleted, !.filter = filter])

ListShifts(user, w, scope) ==
    Ask([Asked("own", "count") EXCEPT !.window = w, !.user = user, !.filter = scope])

\* The detail is shown as a list of one.
GetOrgShift(s, deleted) ==
    /\ GetOrgShiftDetail(s, deleted)
    /\ Ask([Asked("detail", "checklists") EXCEPT !.page = {s}])

GetShift(user, s) ==
    /\ GetOwnShiftDetail(user, s)
    /\ Ask([Asked("detail", "overtime") EXCEPT !.page = {s}])

ListRegister(kind, w, filter) ==
    Ask([Asked(kind, "count") EXCEPT !.window = w, !.filter = filter])

\* The total is a statement of its own.
Count ==
    /\ report.at = "count"
    /\ report' = [report EXCEPT !.at = "page", !.total = Cardinality(Found)]
    /\ UNCHANGED <<clock, database, commits>>

\* A register is answered with the page; shifts are shown with more.
Page ==
    /\ report.at = "page"
    /\ report' = [report EXCEPT !.page = Found,
                                 !.at = CASE report.kind = "organization" -> "checklists"
                                          [] report.kind = "own" -> "overtime"
                                          [] OTHER -> "answered"]
    /\ UNCHANGED <<clock, database, commits>>

ShowChecklists ==
    /\ report.at = "checklists"
    /\ report' = [report EXCEPT !.at = "overtime",
                                 !.summaries = [s \in report.page |-> ChecklistsSummary(s)]]
    /\ UNCHANGED <<clock, database, commits>>

ShowOvertime ==
    /\ report.at = "overtime"
    /\ report' = [report EXCEPT !.at = "answered",
                                 !.latest = [s \in report.page |-> LatestOvertime(s)]]
    /\ UNCHANGED <<clock, database, commits>>

\* A report that has been answered is forgotten.
Forget ==
    /\ report.at = "answered"
    /\ report' = NoReport
    /\ UNCHANGED <<clock, database, commits>>

(***************************************************************************)
(* The statistics                                                          *)
(***************************************************************************)

\* resolve_stats_window: a period has no upper bound.
StatsWindow(period, w) ==
    IF period = "none" THEN w ELSE [from |-> clock - (clock % DayLength), to |-> None]

OrgStatsShifts(w) ==
    {s \in ShiftIds : OfOrganization(s) /\ ~shiftRows[s].deleted /\ Within(shiftRows[s], w)}

OwnStatsShifts(user, scope, w) ==
    {s \in ShiftIds : LET row == shiftRows[s] IN
        Live(row) /\ row.user = user /\ Within(row, w) /\ InScope(row, scope)}

\* The rows are loaded once.
Load(kind, w, user, scope, chosen) ==
    Ask([Asked(kind, "measure") EXCEPT !.window = w, !.user = user, !.filter = scope,
                                       !.rows = [s \in chosen |-> shiftRows[s]]])

GetOrgStats(period, w) ==
    LET window == StatsWindow(period, w) IN
    Load("orgStats", window, None, "all", OrgStatsShifts(window))

GetShiftStats(period, w, user, scope) ==
    LET window == StatsWindow(period, w) IN
    Load("ownStats", window, user, scope, OwnStatsShifts(user, scope, window))

WorkedBy(shifts) ==
    SumFunction([s \in shifts |-> CalculateWorkedSeconds(report.rows[s], clock)])

Measure ==
    /\ report.at = "measure"
    /\ report' = [report EXCEPT !.at = IF report.kind = "orgStats" THEN "employees" ELSE "answered",
                                 !.total = WorkedBy(DOMAIN report.rows)]
    /\ UNCHANGED <<clock, database, commits>>

\* get_org_stats looks at the clock again, after it has read the names.
MeasureEmployees ==
    LET Of(u) == {s \in DOMAIN report.rows : report.rows[s].user = u} IN
    /\ report.at = "employees"
    /\ report' = [report EXCEPT !.at = "answered",
                                 !.employees = [u \in {u \in Staff : Of(u) # {}} |-> WorkedBy(Of(u))]]
    /\ UNCHANGED <<clock, database, commits>>

(***************************************************************************)
(* The others                                                              *)
(***************************************************************************)

Committed ==
    /\ commits < MaxCommits /\ report.at # "answered"
    /\ commits' = commits + 1
    /\ report' = IF report = NoReport THEN report ELSE [report EXCEPT !.quiet = FALSE]
    /\ UNCHANGED clock

\* Start, pause, resume, finish, a manual shift, an edit, a deletion, a restore.
CommitShift(s, v) ==
    /\ v # shiftRows[s] /\ v.start <= clock
    /\ IF shiftRows[s] = None THEN \A r \in ShiftIds : r < s => shiftRows[r] # None
       ELSE v.user = shiftRows[s].user /\ v.org = shiftRows[s].org
    /\ shiftRows' = [shiftRows EXCEPT ![s] = v]
    /\ UNCHANGED <<instances, claims>>
    /\ Committed

IssueChecklist(s, required) ==
    /\ OfOrganization(s)
    /\ instances' = [instances EXCEPT ![s] = Append(@, [required |-> required, completed |-> FALSE])]
    /\ UNCHANGED <<shiftRows, claims>>
    /\ Committed

CommitChecklist(s, i) ==
    /\ i \in DOMAIN instances[s]
    /\ instances' = [instances EXCEPT ![s][i].completed = ~@]
    /\ UNCHANGED <<shiftRows, claims>>
    /\ Committed

CreateClaim(s) ==
    /\ OfOrganization(s) /\ shiftRows[s].end # None /\ ~shiftRows[s].deleted
    /\ \A i \in DOMAIN claims[s] : ~IsLive(claims[s][i])
    /\ claims' = [claims EXCEPT ![s] = Append(@, "pending")]
    /\ UNCHANGED <<shiftRows, instances>>
    /\ Committed

\* Overtime: by the time a withdrawal or a review is committed the request may have
\* been reviewed by another.
DeleteClaim(s, i) ==
    /\ i \in DOMAIN claims[s]
    /\ claims' = [claims EXCEPT ![s] = RemoveAt(@, i)]
    /\ UNCHANGED <<shiftRows, instances>>
    /\ Committed

ReviewClaim(s, i, verdict) ==
    /\ i \in DOMAIN claims[s]
    /\ OneLive([claims[s] EXCEPT ![i] = verdict])
    /\ claims' = [claims EXCEPT ![s][i] = verdict]
    /\ UNCHANGED <<shiftRows, instances>>
    /\ Committed

\* Only what measures looks at the clock.
Tick ==
    /\ clock < LastTick /\ report.at \in {"measure", "employees"}
    /\ clock' = clock + 1
    /\ UNCHANGED <<database, commits, report>>

Next ==
    \/ \E w \in Ranges :
        \/ \E deleted \in BOOLEAN, filter \in Filters : ListOrgShifts(w, deleted, filter)
        \/ \E user \in Staff, scope \in Scopes : ListShifts(user, w, scope)
        \/ \E state \in {"all", "completed", "not_completed"} : ListRegister("checklists", w, state)
        \/ \E status \in {"all"} \cup Statuses : ListRegister("overtime", w, status)
        \/ \E period \in {"none", "day"} :
            \/ GetOrgStats(period, w)
            \/ \E user \in Staff, scope \in Scopes : GetShiftStats(period, w, user, scope)
    \/ \E s \in ShiftIds :
        \/ \E deleted \in BOOLEAN : GetOrgShift(s, deleted)
        \/ \E user \in Staff : GetShift(user, s)
    \/ Count \/ Page \/ ShowChecklists \/ ShowOvertime
    \/ Measure \/ MeasureEmployees \/ Forget
    \/ \E s \in ShiftIds :
        \/ \E v \in Versions : CommitShift(s, v)
        \/ \E required \in BOOLEAN : IssueChecklist(s, required)
        \/ CreateClaim(s)
        \/ \E i \in 1 .. MaxCommits :
            \/ CommitChecklist(s, i) \/ DeleteClaim(s, i)
            \/ \E verdict \in Verdicts : ReviewClaim(s, i, verdict)
    \/ Tick

Spec == Init /\ [][Next]_reportVars

(***************************************************************************)
(* Properties                                                              *)
(***************************************************************************)

\* Type invariant.
TypeOK ==
    /\ clock \in Ticks
    /\ shiftRows \in [ShiftIds -> ShiftVersion \cup {None}]
    /\ instances \in [ShiftIds -> Seq(Instance)]
    /\ claims \in [ShiftIds -> Seq(Statuses)]
    /\ commits \in 0 .. MaxCommits

\* Nobody committed while the report was put together, or since.
Answered == report.at = "answered" /\ report.quiet

\* What is shown with a shift bears out the filter.
Agrees(s, filter) ==
    LET sum == ChecklistsSummary(s) IN
    CASE filter = "none" -> sum.total = 0
      [] filter = "all_completed" -> sum.total > 0 /\ sum.completed = sum.total
      [] filter = "has_incomplete" -> sum.completed # sum.total
      [] filter = "required_incomplete" -> sum.requiredIncomplete > 0
      [] filter = "any" -> LatestOvertime(s) # None
      [] filter = "pending" -> LatestOvertime(s) = "pending"
      [] OTHER -> TRUE

\* The list of the organization's shifts holds exactly the shifts whose summary of
\* checklists and overtime request, which other queries compute, bear the filter out.
\* "approved" is left out: a rejected request may be the latest, and an earlier one
\* approved by a review that was loaded before.
\* Each of them has a detail.  A shift that shows seconds of lateness is among the late
\* ones; a late one that shows none is late by less than a second (get_org_shifts,
\* get_org_shift_detail, compute_late_seconds).
ListedAsShown ==
    Answered /\ report.kind = "organization" =>
        LET all == GetOrgShifts(report.window, report.deleted, "everything")
            late(s) == ComputeLateSeconds(shiftRows[s]) IN
        /\ report.total = Cardinality(report.page) /\ report.page \subseteq all
        /\ \A s \in report.page : GetOrgShiftDetail(s, report.deleted)
        /\ report.filter \in ChecklistFilters \cup {"any", "pending"} =>
            \A s \in all : s \in report.page <=> Agrees(s, report.filter)
        /\ report.filter = "only_late" =>
            \A s \in all :
                /\ late(s) # None /\ late(s) > 0 => s \in report.page
                /\ s \in report.page /\ late(s) = 0 =>
                    shiftRows[s].start - shiftRows[s].plan < (Tolerance + 1) * Part

\* The registers and the list agree: the shifts with a checklist that is not completed
\* are those listed as has_incomplete, and each request in the register of pending ones
\* is the latest of a shift listed as pending (list_org_checklist_instances,
\* list_org_overtime_requests, get_org_shifts).
RegistersMatchList ==
    LET shifts == {p[1] : p \in report.page} IN
    /\ Answered /\ report.kind = "checklists" /\ report.filter = "not_completed" =>
        shifts = GetOrgShifts(report.window, FALSE, "has_incomplete")
    /\ Answered /\ report.kind = "overtime" /\ report.filter = "pending" =>
        /\ shifts = GetOrgShifts(report.window, FALSE, "pending")
        /\ report.total = Cardinality(shifts)

\* Statistics describe the shifts that the list has for the same window, and the rows of
\* the employees add up to the total, or to more while a shift goes on (get_shift_stats,
\* get_org_stats).
StatsDescribeTheList ==
    /\ Answered /\ report.kind = "orgStats" =>
        DOMAIN report.rows = GetOrgShifts(report.window, FALSE, "everything")
    /\ Answered /\ report.kind = "ownStats" =>
        /\ DOMAIN report.rows = GetShifts(report.user, report.filter, report.window)
        /\ \A s \in DOMAIN report.rows : GetOwnShiftDetail(report.user, s)
    /\ report.at = "answered" /\ report.kind = "orgStats" =>
        LET sum == SumFunction(report.employees) IN
        /\ sum >= report.total
        /\ sum > report.total => \E s \in DOMAIN report.rows :
                                    report.rows[s].end = None /\ report.rows[s].pause = None

\* A list, a register and statistics of the same shifts agree with each other and with
\* what is shown beside each shift.
ReportsAgree == ListedAsShown /\ RegistersMatchList /\ StatsDescribeTheList

=============================================================================
