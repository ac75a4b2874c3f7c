---------------------------- MODULE Entitlements ----------------------------
(***************************************************************************)
(* What a subscription row promises at a given moment: the pure functions  *)
(* of services/entitlements.py and of services/billing_calc.py.  Time is   *)
(* counted in days.  A subscription row is a record with the fields plan,  *)
(* status, trialEnd, periodEnd (None while unset) and notice, the column   *)
(* last_expiry_notice_days.                                                *)
(***************************************************************************)
EXTENDS Integers, FiniteSetsExt

CONSTANTS Month,        \* days a month of subscription is worth
          GraceDays,    \* GRACE_DAYS
          NoticeDays,   \* _EXPIRY_THRESHOLDS
          None          \* a column that is NULL

ASSUME MonthAssumption == Month \in Nat \ {0}
ASSUME GraceAssumption == GraceDays \in Nat
ASSUME NoticeAssumption == NoticeDays \subseteq Nat \ {0} /\ IsFiniteSet(NoticeDays)
ASSUME NoneAssumption == None \notin Int

Plans == {"standard", "premium"}

\* What the column subscriptions.status may hold; the rest is derived.
StoredStatus == {"trialing", "active", "canceled"}
ReadOnlyStatuses == {"suspended", "canceled"}

SuspendedNotice == 0    \* the sentinel of last_expiry_notice_days

OrNull(S) == S \cup {None}

SubscriptionRow ==
    [plan : Plans, status : StoredStatus, trialEnd : OrNull(Nat),
     periodEnd : OrNull(Nat), notice : OrNull(NoticeDays \cup {SuspendedNotice})]

(***************************************************************************)
(* The effective status                                                    *)
(***************************************************************************)

\* The date the row is measured against, whatever the effective status.
PeriodReference(row) ==
    CASE row.status = "trialing" -> row.trialEnd
      [] row.status = "active"   -> row.periodEnd
      [] OTHER                   -> None

Covered(row, extra, t) ==
    PeriodReference(row) # None /\ t <= PeriodReference(row) + extra

EffectiveStatus(row, t) ==
    IF row.status = "canceled"        THEN "canceled"
    ELSE IF Covered(row, 0, t)         THEN row.status
    ELSE IF Covered(row, GraceDays, t) THEN "past_due"
    ELSE "suspended"

DaysLeft(row, t) ==
    IF EffectiveStatus(row, t) \in ReadOnlyStatuses THEN None
    ELSE PeriodReference(row) - t

(***************************************************************************)
(* Extending a row                                                         *)
(***************************************************************************)

Later(a, b) == IF a >= b THEN a ELSE b

\* A new period starts where the old one ends, or now if it already ended.
ExtensionBase(row, t) ==
    LET end == IF row.periodEnd # None THEN row.periodEnd ELSE row.trialEnd
    IN  IF end # None THEN Later(t, end) ELSE t

Extended(row, plan, months, t) ==
    [row EXCEPT !.plan = plan,
                !.status = "active",
                !.periodEnd = ExtensionBase(row, t) + months * Month,
                !.notice = None]

(***************************************************************************)
(* Upgrade to premium inside a paid period                                 *)
(***************************************************************************)

UpgradeAvailable(row, t) ==
    /\ row.plan # "premium"
    /\ EffectiveStatus(row, t) \in {"active", "past_due"}
    /\ row.periodEnd # None

\* Mutant: an expired period is not rounded up to one month.
UpgradeMonthsOrNone(row, t) == (row.periodEnd - t + Month - 1) \div Month

\* Months still to be paid for, rounded up, never less than one.
UpgradeMonths(row, t) ==
    Later(1, (row.periodEnd - t + Month - 1) \div Month)

=============================================================================
