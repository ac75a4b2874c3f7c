----------------------------- MODULE MCAccounts -----------------------------
(***************************************************************************)
(* Accounts on a small instance: half hours whose pay does not come out    *)
(* even, shifts on both sides of midnight, of a week and of a month; and,  *)
(* for the reports, shifts that go on, are paused, late by half a second,  *)
(* deleted or personal.                                                    *)
(***************************************************************************)
EXTENDS Accounts

CONSTANTS u1, u2, s1, s2, s3, p1, a1, c1, e1, e2

Worked(id, u, start, planned, overtime) ==
    [id |-> id, user |-> u, start |-> start, seconds |-> 1800, planned |-> planned,
     overtime |-> overtime, deleted |-> FALSE]

ShiftsWorked ==
    [i \in {s1, s2, s3} |->
        CASE i = s1 -> Worked(s1, u1, 0, 3600, 0)
          [] i = s2 -> Worked(s2, u1, 2, None, 1800)
          [] OTHER  -> Worked(s3, u2, 1, None, 0)]

Rate(u, type, amount, from) == [user |-> u, type |-> type, amount |-> amount, from |-> from]

Hourly(u, from) == Rate(u, "hourly", 1, from)

World(rows, fine, fines, extra) ==
    [shifts |-> ShiftsWorked, rates |-> rows, fine |-> fine, penalties |-> fines, adjustments |-> extra]

Row(id, u, amount, shift, category, at) ==
    [id |-> id, user |-> u, amount |-> amount, shift |-> shift, category |-> category,
     at |-> at, deleted |-> FALSE]

Fine == Row(p1, u1, 1, s1, None, 0)

Deduction == Row(a1, u2, -1, None, None, 1)

\* Nothing but a rate; one operation of each kind; a cancelled one and two rates.
ThreeWorlds ==
    {World({Hourly(u1, 0)}, 1, {}, {}),
     World({Hourly(u1, 1), Rate(u2, "per_shift", 1, 0)}, 2, {Fine}, {Deduction}),
     World({Hourly(u1, 0), Rate(u1, "per_shift", 1, 2), Hourly(u2, 1)}, 1, {[Fine EXCEPT !.deleted = TRUE]},
           {[Deduction EXCEPT !.amount = 1]})}

Period(from, granularity, onlyMissing) ==
    [from |-> from, to |-> 2, zone |-> 1, granularity |-> granularity, onlyMissing |-> onlyMissing]

ReportsAsked == {Period(0, "none", FALSE), Period(0, "week", TRUE), Period(1, "day", TRUE)}

Shift(user, org, start, plan, end, pause, rest, deleted) ==
    [user |-> user, org |-> org, start |-> start, plan |-> plan, end |-> end,
     pause |-> pause, rest |-> rest, deleted |-> deleted]

SomeVersions ==
    {Shift(e1, TRUE, 1, 0, None, None, 0, FALSE),
     Shift(e1, TRUE, 1, 0, None, 2, 0, FALSE),
     Shift(e1, TRUE, 1, 0, 2, None, 0, TRUE),
     Shift(e2, TRUE, 2, 0, 3, None, 1, FALSE),
     Shift(e1, FALSE, 3, None, None, None, 0, FALSE)}

InclusiveRange == {[from |-> 1, to |-> 2]}

=============================================================================
