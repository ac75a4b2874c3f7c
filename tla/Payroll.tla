------------------------------ MODULE Payroll ------------------------------
(***************************************************************************)
(* What an organization owes its employees: the history of rates           *)
(* (services/payroll.py), penalties and their templates                    *)
(* (services/penalty.py), manual adjustments and their categories          *)
(* (services/adjustment.py), and the report while all of them change.      *)
(*                                                                         *)
(* Administrators' operations are one step each: what two of them can do   *)
(* to one row at once changes a row that is there anyway, and the unique   *)
(* indexes make the checks before an INSERT hold at its commit.  The       *)
(* report is not one step: it runs its queries one after another in READ   *)
(* COMMITTED, and every query sees what was committed by then.  Only       *)
(* finished shifts are in the tables, and the organization's plan allows   *)
(* what is done here.                                                      *)
(***************************************************************************)
EXTENDS PayrollReport

CONSTANTS Users,         \* employees
          ShiftIds,      \* finished shifts
          PenaltyIds,    \* bound on the penalties
          AdjustmentIds, \* bound on the adjustments
          CategoryIds,   \* bound on the categories of adjustments
          Names,         \* names of categories, in lower case
          Amounts,       \* amounts of rates, penalties and adjustments, in kopecks
          Fines,         \* amounts of the penalty template, in kopecks
          LastMoment,    \* bound on time
          Zones,         \* time zones a report may ask for
          Requests,      \* reports asked for: from, to, zone, granularity, onlyMissing
          OvertimePay,   \* seconds of overtime that may be approved
          Worlds,        \* tables to begin with: shifts, rates, fine, penalties, adjustments
          MaxEdits       \* bound on the operations of administrators

VARIABLES members,      \* employees who are members
          shifts,       \* shift -> row
          rates,        \* rows of organization_member_rates
          template,     \* the row of a penalty template
          penalties,    \* rows of penalties
          adjustments,  \* rows of payroll_adjustments
          categories,   \* category -> row, for those created
          edits,        \* operations so far
          job           \* the report that is being made

operations == <<template, penalties, adjustments, categories>>
tables == <<members, shifts, rates, operations>>
payrollVars == <<tables, edits, job>>

Moments == 0 .. LastMoment

SignedAmounts == Amounts \cup {-a : a \in Amounts}

RateTypes == {"hourly", "per_shift"}

NoJob == [step |-> "none"]

(***************************************************************************)
(* The tables                                                              *)
(***************************************************************************)

Rate(u, type, amount, from) == [user |-> u, type |-> type, amount |-> amount, from |-> from]

Rates == {Rate(u, type, amount, from) :
            u \in Users, type \in RateTypes, amount \in Amounts, from \in Moments}

PaidShift ==
    [id : ShiftIds, user : Users, start : Moments, seconds : Nat, planned : Nat \cup {None},
     overtime : OvertimePay \cup {0}, deleted : BOOLEAN]

\* A penalty or an adjustment; a penalty has no category.
Row(id, u, amount, shift, category, at) ==
    [id |-> id, user |-> u, amount |-> amount, shift |-> shift, category |-> category,
     at |-> at, deleted |-> FALSE]

OperationRows(ids, users, amounts, cats) ==
    [id : ids, user : users, amount : amounts, shift : ShiftIds \cup {None},
     category : cats, at : Moments, deleted : BOOLEAN]

Live(rows) == {r \in rows : ~r.deleted}

LiveCategories == {c \in DOMAIN categories : ~categories[c].deleted}

\* Mutant: a shift of anybody is good enough.
AnyShift(u, shift) == shift # None => ~shifts[shift].deleted

\* _validate_shift_for_member; NULL is no shift.
ShiftOfMember(u, shift) ==
    shift # None => shifts[shift].user = u /\ ~shifts[shift].deleted

\* occurred_at of the body, or the start of the shift.
Moment(at, shift) == IF at # None THEN at ELSE shifts[shift].start

Free(ids, rows) == ids \ {r.id : r \in rows}

\* uq_member_rate_effective_from: one rate of a member from one moment.
FreeFrom(rows, u, from) == \A r \in rows : r.user = u => r.from # from

OwnShifts(rows, worked) == \A r \in rows : r.shift # None => worked[r.shift].user = r.user

PayrollAssumption ==
    /\ None \notin Nat \cup Rates
    /\ LastMoment \in Nat /\ Amounts \cup Fines \cup OvertimePay \subseteq Nat
    /\ IsFiniteSet(ShiftIds) /\ MaxEdits \in Nat
    /\ \A w \in Worlds :
        /\ w.shifts \in [ShiftIds -> PaidShift] /\ \A s \in ShiftIds : w.shifts[s].id = s
        /\ w.rates \subseteq Rates /\ \A r \in w.rates : FreeFrom(w.rates \ {r}, r.user, r.from)
        /\ w.fine \in Fines
        /\ w.penalties \subseteq OperationRows(PenaltyIds, Users, Amounts \cup Fines, {None})
        /\ w.adjustments \subseteq OperationRows(AdjustmentIds, Users, SignedAmounts, {None})
        /\ OwnShifts(w.penalties \cup w.adjustments, w.shifts)
        /\ IsFiniteSet(w.penalties) /\ IsFiniteSet(w.adjustments)

Init ==
    /\ members = Users
    /\ \E w \in Worlds :
        /\ shifts = w.shifts /\ rates = w.rates
        /\ template = [amount |-> w.fine, deleted |-> FALSE]
        /\ penalties = w.penalties /\ adjustments = w.adjustments
    /\ categories = [c \in {} |-> [name |-> None, deleted |-> FALSE]]
    /\ edits = 0
    /\ job = NoJob

Edit == edits < MaxEdits /\ edits' = edits + 1

(***************************************************************************)
(* Rates                                                                   *)
(***************************************************************************)

CreateRate(row) ==
    /\ Edit
    /\ row.user \in members /\ FreeFrom(rates, row.user, row.from)
    /\ rates' = rates \cup {row}
    /\ UNCHANGED <<members, shifts, operations, job>>

UpdateRate(row, new) ==
    /\ Edit
    /\ row \in rates /\ new.user = row.user /\ new # row
    /\ FreeFrom(rates \ {row}, new.user, new.from)
    /\ rates' = (rates \ {row}) \cup {new}
    /\ UNCHANGED <<members, shifts, operations, job>>

DeleteRate(row) ==
    /\ Edit
    /\ row \in rates
    /\ rates' = rates \ {row}
    /\ UNCHANGED <<members, shifts, operations, job>>

(***************************************************************************)
(* Members and shifts                                                      *)
(***************************************************************************)

\* The rows of the member go by ON DELETE CASCADE; the shifts are the user's and stay.
RemoveMember(u) ==
    /\ Edit
    /\ u \in members
    /\ members' = members \ {u}
    /\ rates' = {r \in rates : r.user # u}
    /\ penalties' = {p \in penalties : p.user # u}
    /\ adjustments' = {a \in adjustments : a.user # u}
    /\ UNCHANGED <<shifts, template, categories, job>>

JoinOrganization(u) ==
    /\ Edit
    /\ u \notin members
    /\ members' = members \cup {u}
    /\ UNCHANGED <<shifts, rates, operations, job>>

\* Soft delete and restore; penalties and adjustments keep their link.
DeleteOrRestoreShift(s) ==
    /\ Edit
    /\ shifts' = [shifts EXCEPT ![s].deleted = ~@]
    /\ UNCHANGED <<members, rates, operations, job>>

ApproveOvertime(s, seconds) ==
    /\ Edit
    /\ ~shifts[s].deleted /\ shifts[s].overtime = 0
    /\ shifts' = [shifts EXCEPT ![s].overtime = seconds]
    /\ UNCHANGED <<members, rates, operations, job>>

(***************************************************************************)
(* Penalties                                                               *)
(***************************************************************************)

UpdatePenaltyTemplate(amount) ==
    /\ Edit
    /\ ~template.deleted /\ amount # template.amount
    /\ template' = [template EXCEPT !.amount = amount]
    /\ UNCHANGED <<members, shifts, rates, penalties, adjustments, categories, job>>

DeleteOrRestorePenaltyTemplate ==
    /\ Edit
    /\ template' = [template EXCEPT !.deleted = ~@]
    /\ UNCHANGED <<members, shifts, rates, penalties, adjustments, categories, job>>

\* The amount of the body, or that of a template that is not deleted.
CreatePenalty(u, given, shift, at) ==
    /\ Edit
    /\ u \in members /\ ShiftOfMember(u, shift)
    /\ given = None => ~template.deleted
    /\ at = None => shift # None
    /\ \E id \in Free(PenaltyIds, penalties) :
        penalties' = penalties \cup
            {Row(id, u, IF given = None THEN template.amount ELSE given, shift, None, Moment(at, shift))}
    /\ UNCHANGED <<members, shifts, rates, template, adjustments, categories, job>>

UpdatePenalty(p, amount, shift, at) ==
    /\ Edit
    /\ p \in Live(penalties)
    /\ shift # p.shift => ShiftOfMember(p.user, shift)
    /\ penalties' = (penalties \ {p}) \cup
            {[p EXCEPT !.amount = amount, !.shift = shift, !.at = at]}
    /\ UNCHANGED <<members, shifts, rates, template, adjustments, categories, job>>

DeleteOrRestorePenalty(p) ==
    /\ Edit
    /\ p \in penalties
    /\ penalties' = (penalties \ {p}) \cup {[p EXCEPT !.deleted = ~@]}
    /\ UNCHANGED <<members, shifts, rates, template, adjustments, categories, job>>

(***************************************************************************)
(* Adjustments                                                             *)
(***************************************************************************)

\* A new reference is to a live category; the reference to a deleted one may stay.
CategoryAllowed(new, old) == new \in {None, old} \cup LiveCategories

CreateAdjustment(u, amount, shift, category, at) ==
    /\ Edit
    /\ u \in members /\ ShiftOfMember(u, shift)
    /\ CategoryAllowed(category, None)
    /\ at = None => shift # None
    /\ \E id \in Free(AdjustmentIds, adjustments) :
        adjustments' = adjustments \cup
            {Row(id, u, amount, shift, category, Moment(at, shift))}
    /\ UNCHANGED <<members, shifts, rates, template, penalties, categories, job>>

UpdateAdjustment(a, amount, shift, category, at) ==
    /\ Edit
    /\ a \in Live(adjustments)
    /\ shift # a.shift => ShiftOfMember(a.user, shift)
    /\ CategoryAllowed(category, a.category)
    /\ adjustments' = (adjustments \ {a}) \cup
            {[a EXCEPT !.amount = amount, !.shift = shift, !.category = category, !.at = at]}
    /\ UNCHANGED <<members, shifts, rates, template, penalties, categories, job>>

DeleteOrRestoreAdjustment(a) ==
    /\ Edit
    /\ a \in adjustments
    /\ adjustments' = (adjustments \ {a}) \cup {[a EXCEPT !.deleted = ~@]}
    /\ UNCHANGED <<members, shifts, rates, template, penalties, categories, job>>

\* uq_payroll_adjustment_categories_org_name
NameFree(name, but) == \A c \in LiveCategories \ {but} : categories[c].name # name

CreateCategory(c, name) ==
    /\ Edit
    /\ c \notin DOMAIN categories /\ NameFree(name, c)
    /\ categories' = [d \in DOMAIN categories \cup {c} |->
                      IF d = c THEN [name |-> name, deleted |-> FALSE] ELSE categories[d]]
    /\ UNCHANGED <<members, shifts, rates, template, penalties, adjustments, job>>

UpdateCategory(c, name) ==
    /\ Edit
    /\ c \in LiveCategories /\ name # categories[c].name /\ NameFree(name, c)
    /\ categories' = [categories EXCEPT ![c].name = name]
    /\ UNCHANGED <<members, shifts, rates, template, penalties, adjustments, job>>

DeleteCategory(c) ==
    /\ Edit
    /\ c \in LiveCategories
    /\ categories' = [categories EXCEPT ![c].deleted = TRUE]
    /\ UNCHANGED <<members, shifts, rates, template, penalties, adjustments, job>>

(***************************************************************************)
(* The report, query by query                                              *)
(***************************************************************************)

Within(at, request) == request.from <= at /\ at <= request.to

ShiftRows == {shifts[s] : s \in {s \in ShiftIds : ~shifts[s].deleted}}

\* The shifts of the period; the minutes of overtime come with a later query.
ReadShifts(request) ==
    /\ job = NoJob
    /\ job' = [step |-> "overtime", request |-> request,
               shifts |-> {[s EXCEPT !.overtime = 0] : s \in {s \in ShiftRows : Within(s.start, request)}}]
    /\ UNCHANGED <<tables, edits>>

ReadOvertime ==
    /\ job.step = "overtime"
    /\ job' = [job EXCEPT !.step = "penalties",
                          !.shifts = {[s EXCEPT !.overtime = shifts[s.id].overtime] : s \in @}]
    /\ UNCHANGED <<tables, edits>>

InPeriod(rows, request) == {r \in Live(rows) : Within(r.at, request)}

ReadPenalties ==
    /\ job.step = "penalties"
    /\ job' = [step |-> "adjustments", request |-> job.request, shifts |-> job.shifts,
               penalties |-> InPeriod(penalties, job.request)]
    /\ UNCHANGED <<tables, edits>>

ReadAdjustments ==
    /\ job.step = "adjustments"
    /\ job' = [step |-> "rates", request |-> job.request, shifts |-> job.shifts,
               penalties |-> job.penalties, adjustments |-> InPeriod(adjustments, job.request)]
    /\ UNCHANGED <<tables, edits>>

\* The last query reads the rates, and the rest is arithmetic.
ComputeReport ==
    /\ job.step = "rates"
    /\ LET rows == [shifts |-> job.shifts, penalties |-> job.penalties,
                    adjustments |-> job.adjustments, rates |-> rates]
       IN job' = [step |-> "computed", request |-> job.request,
                  penalties |-> job.penalties, adjustments |-> job.adjustments,
                  report |-> Report(rows, job.request)]
    /\ UNCHANGED <<tables, edits>>

\* Mutant: the sheets of operations query them again.
RowsQueriedAgain == [penalties |-> InPeriod(penalties, job.request),
                     adjustments |-> InPeriod(adjustments, job.request)]

\* The rows that were summed.
RowsForSheets == [penalties |-> job.penalties, adjustments |-> job.adjustments]

ExportWorkbook ==
    /\ job.step = "computed"
    /\ job' = [step |-> "done", read |-> job.penalties \cup job.adjustments,
               workbook |-> Workbook(job.report, RowsForSheets)]
    /\ UNCHANGED <<tables, edits>>

Answer ==
    /\ job.step = "done"
    /\ job' = NoJob
    /\ UNCHANGED <<tables, edits>>

(***************************************************************************)
(* The specification                                                       *)
(***************************************************************************)

EditRates ==
    \/ \E row \in Rates : CreateRate(row)
    \/ \E row \in rates :
        \/ DeleteRate(row)
        \/ \E new \in Rates : UpdateRate(row, new)

EditShifts ==
    \/ \E u \in Users : RemoveMember(u) \/ JoinOrganization(u)
    \/ \E s \in ShiftIds :
        \/ DeleteOrRestoreShift(s)
        \/ \E seconds \in OvertimePay : ApproveOvertime(s, seconds)

EditPenalties ==
    \/ \E amount \in Fines : UpdatePenaltyTemplate(amount)
    \/ DeleteOrRestorePenaltyTemplate
    \/ \E shift \in ShiftIds \cup {None} :
        \/ \E u \in Users, given \in Amounts \cup {None}, at \in Moments \cup {None} :
            CreatePenalty(u, given, shift, at)
        \/ \E p \in penalties, amount \in Amounts, at \in Moments : UpdatePenalty(p, amount, shift, at)
    \/ \E p \in penalties : DeleteOrRestorePenalty(p)

EditAdjustments ==
    \/ \E shift \in ShiftIds \cup {None}, category \in DOMAIN categories \cup {None}, amount \in SignedAmounts :
        \/ \E u \in Users, at \in Moments \cup {None} : CreateAdjustment(u, amount, shift, category, at)
        \/ \E a \in adjustments, at \in Moments : UpdateAdjustment(a, amount, shift, category, at)
    \/ \E a \in adjustments : DeleteOrRestoreAdjustment(a)
    \/ \E c \in CategoryIds :
        \/ \E name \in Names : CreateCategory(c, name) \/ UpdateCategory(c, name)
        \/ DeleteCategory(c)

MakeReport ==
    \/ \E request \in Requests : ReadShifts(request)
    \/ ReadOvertime \/ ReadPenalties \/ ReadAdjustments \/ ComputeReport \/ ExportWorkbook \/ Answer

Next == EditRates \/ EditShifts \/ EditPenalties \/ EditAdjustments \/ MakeReport

Spec == Init /\ [][Next]_payrollVars

(***************************************************************************)
(* Properties                                                              *)
(***************************************************************************)

\* Type invariant: rates, penalties and adjustments belong to members, no member has
\* two rates from one moment, no two live categories share a name, and whoever pays a
\* fine for a shift is the one who worked it.
TypeOK ==
    /\ members \subseteq Users
    /\ shifts \in [ShiftIds -> PaidShift] /\ \A s \in ShiftIds : shifts[s].id = s
    /\ rates \subseteq {r \in Rates : r.user \in members}
    /\ \A r \in rates : FreeFrom(rates \ {r}, r.user, r.from)
    /\ template \in [amount : Fines, deleted : BOOLEAN]
    /\ penalties \subseteq OperationRows(PenaltyIds, members, Amounts \cup Fines, {None})
    /\ adjustments \subseteq
            OperationRows(AdjustmentIds, members, SignedAmounts, DOMAIN categories \cup {None})
    /\ OwnShifts(penalties \cup adjustments, shifts)
    /\ categories \in [DOMAIN categories -> [name : Names, deleted : BOOLEAN]]
    /\ \A c \in LiveCategories : NameFree(categories[c].name, c)
    /\ edits \in 0 .. MaxEdits

AddsUp(row) ==
    /\ row.columns.base + row.columns.overtimePay = row.columns.gross
    /\ row.adjustment.accrual - row.adjustment.deduction = row.adjustment.amount
    /\ row.adjustment.amount =
        SumFunction([c \in DOMAIN row.byCategory |-> row.byCategory[c].amount])
    /\ row.net = row.columns.gross - row.penalty + row.adjustment.amount

\* The parts of a report that are printed side by side add up, however its queries
\* were interleaved with changes: time and overtime to the gross of each employee and
\* of all, the categories to the adjustments, and gross, fines and adjustments to what
\* is paid (_calc_earnings, _adjustment_fields, _compute_org_payroll).
ReportAddsUp ==
    job.step \in {"computed", "done"} =>
        LET shown == IF job.step = "done" THEN job.workbook.summary ELSE job.report
        IN AddsUp(shown.totals) /\ \A u \in DOMAIN shown.items : AddsUp(shown.items[u])

\* The sheets of an exported workbook sum to its summary although operations were
\* created, changed and deleted while it was made, and no fine and no adjustment of the
\* period is lost from them, whoever is left out of the report for having a rate for
\* every shift (export_org_payroll, only_missing_rate).
SheetsMatchSummary ==
    job.step = "done" =>
        LET book == job.workbook IN
        /\ SumOf(book.penalties) = book.summary.totals.penalty
        /\ SumOf(book.adjustments) = book.summary.totals.adjustment.amount
        /\ job.read = book.penalties \cup book.adjustments

\* The sums of an employee do not depend on how the report is broken down nor on the
\* zone its days are cut in (ADR-005, _build_breakdown).
GranularityAgrees ==
    job = NoJob => \A u \in Users, zone \in Zones :
        LET mine == OfUser(ShiftRows, u)
            whole == Earnings(mine, OfUser(rates, u))
        IN \A g \in Granularities \ {"none"} :
            Aggregate(Breakdown(mine, OfUser(rates, u), zone, g)) = whole

\* The employee's own page says what the administrator's report says of him, and the
\* blocks of his shifts in the history sum to the same gross (get_my_earnings,
\* get_shift_earnings_map).
OwnPagesAgree ==
    job = NoJob => \A u \in members :
        LET mine == OfUser(ShiftRows, u)
            my == OfUser(rates, u)
            fines == OfUser(Live(penalties), u)
            extra == OfUser(Live(adjustments), u)
            item == Item(mine, my, fines, extra, 0, "day")
            page == MyEarnings(mine, my, fines, extra)
        IN /\ page.columns = item.columns /\ page.net = item.net
           /\ page.columns.gross = SumFunction([s \in mine |-> ShiftBlock(s, my, fines, extra).gross])
           /\ {r \in fines \cup extra : r.shift = None \/ shifts[r.shift].deleted} = {} =>
                page.net = SumFunction([s \in mine |-> ShiftBlock(s, my, fines, extra).net])

\* Changing the history of rates changes what a shift is worth only from the moment of
\* a rate that was set, moved or removed until the next rate that was left alone
\* (create_rate, update_rate, delete_rate, _rate_for_moment).
WorthOfShiftsKept ==
    rates # rates' => \A s \in {s \in ShiftRows : s = shifts'[s.id]} :
        LET before == OfUser(rates, s.user)
            after == OfUser(rates, s.user)'
            touched == (before \ after) \cup (after \ before)
            ShiftGross(rows) == Earnings({s}, rows).gross
        IN ShiftGross(before) # ShiftGross(after) =>
            \E r \in touched :
                /\ r.from <= s.start
                /\ \A q \in before \cap after : ~(r.from < q.from /\ q.from <= s.start)

RateChangesItsInterval == [][WorthOfShiftsKept]_payrollVars

=============================================================================
