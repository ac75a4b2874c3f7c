------------------------------ MODULE Accounts ------------------------------
(***************************************************************************)
(* What an organization is told about the work of its employees: the       *)
(* payroll, and the reports on shifts.  Each is a module of its own, and   *)
(* no action of one reads a variable of the other, so the properties of    *)
(* one are decided by the behaviours in which only that part moves; `part` *)
(* names it.                                                               *)
(***************************************************************************)
EXTENDS Integers, FiniteSets

CONSTANTS None, DayLength,
          MonthLength, Users, PaidShifts, PenaltyIds, AdjustmentIds,   \* payroll
          CategoryIds, Names, Amounts, Fines, LastMoment, Zones,
          Requests, OvertimePay, Worlds, MaxEdits,
          Staff, ShiftIds, Versions, Ranges, Part, Tolerance,          \* reports
          FirstTick, LastTick, MaxCommits

VARIABLES part,
          members, shifts, rates, template, penalties, adjustments, categories, edits, job,
          clock, shiftRows, instances, claims, commits, report

Pay == INSTANCE Payroll WITH ShiftIds <- PaidShifts

Reports == INSTANCE ShiftReports

ASSUME AccountsAssumption == Pay!PayrollAssumption /\ Reports!ReportsAssumption

paying == <<members, shifts, rates, template, penalties, adjustments, categories, edits, job>>
reporting == <<clock, shiftRows, instances, claims, commits, report>>

accountsVars == <<part, paying, reporting>>

Init ==
    /\ part \in {"payroll", "reports"}
    /\ Pay!Init /\ Reports!Init
    /\ part = "reports" => rates = (CHOOSE w \in Worlds : TRUE).rates

PayrollMoves ==
    /\ part = "payroll" /\ Pay!Next
    /\ UNCHANGED <<part, reporting>>

ReportsMove ==
    /\ part = "reports" /\ Reports!Next
    /\ UNCHANGED <<part, paying>>

Next == PayrollMoves \/ ReportsMove

Spec == Init /\ [][Next]_accountsVars

(***************************************************************************)
(* Properties                                                              *)
(***************************************************************************)

\* Type invariant of the part that moves.
TypeOK ==
    /\ part = "payroll" => Pay!TypeOK
    /\ part = "reports" => Reports!TypeOK

\* The columns of a payroll report add up, however its queries were interleaved with
\* changes (_calc_earnings, _adjustment_fields, _compute_org_payroll).
ReportAddsUp == part = "payroll" => Pay!ReportAddsUp

\* The sheets of an exported workbook sum to its summary although operations changed
\* while it was made, and none of the period is lost (export_org_payroll).
SheetsMatchSummary == part = "payroll" => Pay!SheetsMatchSummary

\* The sums of an employee do not depend on how the report is broken down nor on the
\* zone its days are cut in (_build_breakdown).
GranularityAgrees == part = "payroll" => Pay!GranularityAgrees

\* The employee's own page says what the administrator's report says of him
\* (get_my_earnings, get_shift_earnings_map).
OwnPagesAgree == part = "payroll" => Pay!OwnPagesAgree

\* Changing the history of rates changes what a shift is worth only from the moment of
\* a rate that was touched until the next one (create_rate, update_rate, delete_rate).
RateChangesItsInterval == Pay!RateChangesItsInterval

\* What an organization or an employee is told about shifts agrees: a list with what it
\* shows beside each shift, registers and statistics with the list (get_org_shifts,
\* get_checklists_summary_for_shifts, get_latest_overtime_for_shifts, get_org_stats).
ReportsAgree == part = "reports" => Reports!ReportsAgree

=============================================================================
