------------------------------ MODULE Overtime ------------------------------
(***************************************************************************)
(* Requests of an employee to be paid overtime on one shift:               *)
(* services/overtime.py.  A request to create, withdraw or review loads    *)
(* and checks first and writes later; no row is locked in between.         *)
(***************************************************************************)
EXTENDS Integers, FiniteSets, Sequences, UnitOfWork

CONSTANTS Handlers,       \* requests of the API that run at one time
          ScheduledEnd,   \* scheduled_end_at of the shift
          RequestDays,    \* overtime_request_days
          LastDay,        \* bound on time
          LastRequest     \* bound on the overtime requests made

OvertimeAssumption == LastDay \in Nat /\ LastRequest \in Nat

VARIABLES today,
          worked,     \* the row of the shift: its end and whether it is deleted
          overtime,   \* the overtime requests in the order of created_at
          calls       \* what each handler has read

tables == <<today, worked, overtime>>
overtimeVars == <<tables, calls>>

Rest == [op |-> "rest"]

Status == {"pending", "approved", "rejected"}

\* A withdrawn request leaves no row.
Rows == {r \in DOMAIN overtime : overtime[r] # "withdrawn"}

\* Mutant: the partial index covers pending requests only.
PendingOnly == {r \in Rows : overtime[r] = "pending"}

\* uq_shift_overtime_requests_active
Live == {r \in Rows : overtime[r] \in {"pending", "approved"}}

\* The requests payroll pays.
Paid == {r \in Rows : overtime[r] = "approved"}

Init ==
    /\ today = 0
    /\ worked \in [finished : 0 .. ScheduledEnd + 1, deleted : {FALSE}]
    /\ overtime = <<>>
    /\ calls = [h \in Handlers |-> Rest]

Dies(h) ==
    /\ calls[h] # Rest
    /\ calls' = [calls EXCEPT ![h] = Rest]
    /\ UNCHANGED tables

\* The shift did not exceed its schedule, and it is not long over.
Applicable ==
    /\ ~worked.deleted
    /\ worked.finished <= ScheduledEnd
    /\ today - worked.finished <= RequestDays

LoadForCreate(h) ==
    /\ calls[h] = Rest
    /\ Applicable /\ Live = {}
    /\ calls' = [calls EXCEPT ![h] = [op |-> "create"]]
    /\ UNCHANGED tables

CreateOvertimeRequest(h) ==
    /\ calls[h].op = "create"
    /\ Live = {} /\ Len(overtime) < LastRequest
    /\ overtime' = Append(overtime, "pending")
    /\ calls' = [calls EXCEPT ![h] = Rest]
    /\ UNCHANGED <<today, worked>>

LoadForDelete(h, r) ==
    /\ calls[h] = Rest
    /\ ~worked.deleted
    /\ r \in Live /\ overtime[r] = "pending"
    /\ calls' = [calls EXCEPT ![h] = [op |-> "delete", row |-> r]]
    /\ UNCHANGED tables

\* The row is deleted whatever its status is by now; a DELETE of no row is no error.
DeleteOwnOvertimeRequest(h) ==
    /\ calls[h].op = "delete"
    /\ overtime' = [overtime EXCEPT ![calls[h].row] = "withdrawn"]
    /\ calls' = [calls EXCEPT ![h] = Rest]
    /\ UNCHANGED <<today, worked>>

LoadForReview(h, r, verdict) ==
    /\ calls[h] = Rest
    /\ ~worked.deleted
    /\ r \in Rows /\ overtime[r] = "pending"
    /\ calls' = [calls EXCEPT ![h] = [op |-> "review", row |-> r, verdict |-> verdict]]
    /\ UNCHANGED tables

\* The UPDATE of a row that was withdrawn, or that would be the second live one,
\* is an error.
ReviewOvertimeRequest(h) ==
    LET c == calls[h] IN
    /\ c.op = "review"
    /\ c.row \in Rows
    /\ c.verdict = "approved" => Live \subseteq {c.row}
    /\ overtime' = [overtime EXCEPT ![c.row] = Written(@, "pending", c.verdict)]
    /\ calls' = [calls EXCEPT ![h] = Rest]
    /\ UNCHANGED <<today, worked>>

\* The administrator moves the end of the shift, deletes it or restores it; the
\* overtime requests stay.
UpdateManualShift(t) ==
    /\ ~worked.deleted /\ t # worked.finished
    /\ worked' = [worked EXCEPT !.finished = t]
    /\ UNCHANGED <<today, overtime, calls>>

DeleteOrRestoreShift ==
    /\ worked' = [worked EXCEPT !.deleted = ~@]
    /\ UNCHANGED <<today, overtime, calls>>

NextDay ==
    /\ today < LastDay
    /\ today' = today + 1
    /\ UNCHANGED <<worked, overtime, calls>>

Next ==
    \/ \E h \in Handlers :
        \/ Dies(h)
        \/ LoadForCreate(h) \/ CreateOvertimeRequest(h)
        \/ \E r \in Rows :
            \/ LoadForDelete(h, r)
            \/ \E verdict \in {"approved", "rejected"} : LoadForReview(h, r, verdict)
        \/ DeleteOwnOvertimeRequest(h) \/ ReviewOvertimeRequest(h)
    \/ \E t \in 0 .. ScheduledEnd + 1 : UpdateManualShift(t)
    \/ DeleteOrRestoreShift
    \/ NextDay

Spec == Init /\ [][Next]_overtimeVars

(***************************************************************************)
(* Properties                                                              *)
(***************************************************************************)

\* Type invariant.
TypeOK ==
    /\ today \in 0 .. LastDay
    /\ worked \in [finished : 0 .. ScheduledEnd + 1, deleted : BOOLEAN]
    /\ overtime \in Seq(Status \cup {"withdrawn"}) /\ Len(overtime) <= LastRequest

\* However many requests are created, withdrawn and reviewed at once, one at most is
\* pending or approved, so payroll adds the minutes of one (create_overtime_request,
\* get_approved_overtime_minutes_by_shift).
OneLiveRequest == Cardinality({r \in Rows : overtime[r] # "rejected"}) <= 1 /\ Cardinality(Paid) <= 1

\* A request that was reviewed is not withdrawn and not reviewed again
\* (delete_own_overtime_request: a reviewed one cannot be).
ReviewIsFinal ==
    [][\A r \in Rows : overtime[r] # "pending" => overtime'[r] = overtime[r]]_overtimeVars

=============================================================================
