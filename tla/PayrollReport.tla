--------------------------- MODULE PayrollReport ---------------------------
(***************************************************************************)
(* How services/payroll.py computes what is owed: the amount of a shift,   *)
(* the sums of an employee with and without a breakdown by day, week or    *)
(* month, the report of the organization with its Excel sheets, the page   *)
(* of one's own earnings and the block of one shift in the history.        *)
(*                                                                         *)
(* The operators take rows as the queries return them.  Time is counted in *)
(* moments, DayLength of them to a day of UTC; a zone is a whole number of *)
(* moments ahead of UTC.  The columns about late starts are left out: they *)
(* are sums of the same form as the other ones.                            *)
(***************************************************************************)
EXTENDS Integers, FiniteSets, Functions

CONSTANTS DayLength,     \* moments in a day
          MonthLength,   \* days in a month
          None           \* NULL

SecondsPerHour == 3600

Granularities == {"none", "day", "week", "month"}

(***************************************************************************)
(* One shift                                                               *)
(***************************************************************************)

\* The nearest whole number, a half upwards.
RoundHalfUp(n, d) == (2 * n + d) \div (2 * d)

\* Mutant: a rate that was ever set is better than none.
AnyRate(rates, moment) ==
    IF rates = {} THEN None ELSE CHOOSE r \in rates : \A q \in rates : q.from <= r.from

\* The rate with the greatest effective_from that is not after the moment.
RateForMoment(rates, moment) ==
    LET past == {r \in rates : r.from <= moment} IN
    IF past = {} THEN None ELSE CHOOSE r \in past : \A q \in past : q.from <= r.from

ShiftAmount(rate, seconds) ==
    IF rate.type = "hourly" THEN RoundHalfUp(seconds * rate.amount, SecondsPerHour) ELSE rate.amount

\* Mutant: overtime is an amount of its own, rounded by itself.
OvertimeRounded(rate, s) == ShiftAmount(rate, s.overtime)

OvertimeAmount(rate, s) == ShiftAmount(rate, s.seconds + s.overtime) - ShiftAmount(rate, s.seconds)

PlannedSeconds(s) == IF s.planned = None THEN s.seconds ELSE s.planned

Columns == {"worked", "overtime", "shifts", "planned", "gross", "base", "overtimePay",
            "plannedPay", "unpaid", "unpaidShifts"}

ShiftColumns(s, rates) ==
    LET rate == RateForMoment(rates, s.start)
        paid == rate # None
    IN [worked       |-> s.seconds,
        overtime     |-> s.overtime,
        shifts       |-> 1,
        planned      |-> PlannedSeconds(s),
        gross        |-> IF paid THEN ShiftAmount(rate, s.seconds + s.overtime) ELSE 0,
        base         |-> IF paid THEN ShiftAmount(rate, s.seconds) ELSE 0,
        overtimePay  |-> IF paid THEN OvertimeAmount(rate, s) ELSE 0,
        plannedPay   |-> IF paid THEN ShiftAmount(rate, PlannedSeconds(s)) ELSE 0,
        unpaid       |-> IF paid THEN 0 ELSE s.seconds,
        unpaidShifts |-> IF paid THEN 0 ELSE 1]

(***************************************************************************)
(* One employee                                                            *)
(***************************************************************************)

Earnings(shifts, rates) ==
    [c \in Columns |-> SumFunction([s \in shifts |-> ShiftColumns(s, rates)[c]])]

LocalDay(moment, zone) == (moment + zone) \div DayLength

\* Day 0 is a Monday, and the first of a month.
BucketStart(day, granularity) ==
    CASE granularity = "week"  -> day - (day % 7)
      [] granularity = "month" -> day - (day % MonthLength)
      [] OTHER                 -> day

\* Mutant: a bucket is a day of its own, and the last one read replaces the others.
LastDayOfBucket(shifts, rates, zone, granularity) ==
    LET days == {LocalDay(s.start, zone) : s \in shifts}
        Last(b) == CHOOSE d \in days :
            /\ BucketStart(d, granularity) = b
            /\ \A e \in days : BucketStart(e, granularity) = b => e <= d
    IN [b \in {BucketStart(d, granularity) : d \in days} |->
            Earnings({s \in shifts : LocalDay(s.start, zone) = Last(b)}, rates)]

\* Shifts make days, and days make the buckets.
Breakdown(shifts, rates, zone, granularity) ==
    LET days == {LocalDay(s.start, zone) : s \in shifts}
        daily == [d \in days |-> Earnings({s \in shifts : LocalDay(s.start, zone) = d}, rates)]
    IN [b \in {BucketStart(d, granularity) : d \in days} |->
            [c \in Columns |->
                SumFunction([d \in {d \in days : BucketStart(d, granularity) = b} |-> daily[d][c]])]]

Aggregate(breakdown) ==
    [c \in Columns |-> SumFunction([b \in DOMAIN breakdown |-> breakdown[b][c]])]

SumOf(rows) == SumFunction([r \in rows |-> r.amount])

\* Accruals, deductions and the number of a set of manual adjustments.
CategoryEntry(rows) ==
    [amount    |-> SumOf(rows),
     accrual   |-> SumOf({r \in rows : r.amount > 0}),
     deduction |-> -SumOf({r \in rows : r.amount < 0}),
     count     |-> Cardinality(rows)]

ByCategory(rows) ==
    [c \in {r.category : r \in rows} |-> CategoryEntry({r \in rows : r.category = c})]

AdjustmentFields(rows) == CategoryEntry(rows)

Item(shifts, rates, penalties, adjustments, zone, granularity) ==
    LET earned == IF granularity = "none" THEN Earnings(shifts, rates)
                  ELSE Aggregate(Breakdown(shifts, rates, zone, granularity))
    IN [columns     |-> earned,
        penalty     |-> SumOf(penalties),
        penalties   |-> Cardinality(penalties),
        adjustment  |-> AdjustmentFields(adjustments),
        byCategory  |-> ByCategory(adjustments),
        net         |-> earned.gross - SumOf(penalties) + AdjustmentFields(adjustments).amount]

(***************************************************************************)
(* The report of the organization                                          *)
(***************************************************************************)

OfUser(rows, u) == {r \in rows : r.user = u}

\* Mutant: whoever has no unpaid shift is dropped, fines or not.
MissingRateOnly(item) == item.columns.unpaidShifts > 0

KeptWhenMissing(item) ==
    item.columns.unpaidShifts > 0 \/ item.penalties > 0 \/ item.adjustment.count > 0

\* totals.adjustments_by_category: the entries of the items, merged by category.
MergedCategories(items) ==
    LET entries(c) == {u \in DOMAIN items : c \in DOMAIN items[u].byCategory} IN
    [c \in UNION {DOMAIN items[u].byCategory : u \in DOMAIN items} |->
        [f \in {"amount", "accrual", "deduction", "count"} |->
            SumFunction([u \in entries(c) |-> items[u].byCategory[c][f]])]]

Totals(items) ==
    LET Total(F(_)) == SumFunction([u \in DOMAIN items |-> F(items[u])]) IN
    [columns    |-> [c \in Columns |-> Total(LAMBDA i : i.columns[c])],
     penalty    |-> Total(LAMBDA i : i.penalty),
     adjustment |-> [f \in {"amount", "accrual", "deduction", "count"} |->
                        Total(LAMBDA i : i.adjustment[f])],
     byCategory |-> MergedCategories(items),
     net        |-> Total(LAMBDA i : i.net)]

Report(read, request) ==
    LET users == {r.user : r \in read.shifts \cup read.penalties \cup read.adjustments}
        all == [u \in users |->
                Item(OfUser(read.shifts, u), OfUser(read.rates, u), OfUser(read.penalties, u),
                     OfUser(read.adjustments, u), request.zone, request.granularity)]
        kept == {u \in users : request.onlyMissing => KeptWhenMissing(all[u])}
        items == [u \in kept |-> all[u]]
    IN [items |-> items, totals |-> Totals(items)]

\* The operations of the period whose employee is still in the report.
SheetRows(rows, report) == {r \in rows : r.user \in DOMAIN report.items}

\* The workbook: the summary is the report, each further sheet lists operations.
Workbook(report, rows) ==
    [summary     |-> report,
     penalties   |-> SheetRows(rows.penalties, report),
     adjustments |-> SheetRows(rows.adjustments, report)]

(***************************************************************************)
(* The employee's own pages                                                *)
(***************************************************************************)

\* get_my_earnings: the sums of penalties and adjustments are made by the database.
MyEarnings(shifts, rates, penalties, adjustments) ==
    LET earned == Earnings(shifts, rates) IN
    [columns    |-> earned,
     penalty    |-> SumOf(penalties),
     adjustment |-> SumOf(adjustments),
     net        |-> earned.gross - SumOf(penalties) + SumOf(adjustments)]

\* Mutant: approved overtime is shown beside the amount and not paid in it.
BlockWithoutOvertime(s, rates, penalties, adjustments) ==
    LET rate == RateForMoment(rates, s.start)
        gross == IF rate = None THEN 0 ELSE ShiftAmount(rate, s.seconds)
    IN [gross |-> gross, penalty |-> 0, adjustment |-> 0, net |-> gross]

\* The block of one finished shift in the history: only what is bound to the shift.
ShiftBlock(s, rates, penalties, adjustments) ==
    LET rate == RateForMoment(rates, s.start)
        gross == IF rate = None THEN 0 ELSE ShiftAmount(rate, s.seconds + s.overtime)
        fines == SumOf({p \in penalties : p.shift = s.id})
        extra == SumOf({a \in adjustments : a.shift = s.id})
    IN [gross |-> gross, penalty |-> fines, adjustment |-> extra, net |-> gross - fines + extra]

=============================================================================
