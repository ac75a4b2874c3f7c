------------------------------- MODULE Billing -------------------------------
(***************************************************************************)
(* The subscription of one organization and the online payments for it:    *)
(* services/billing.py, services/subscription.py, tasks/subscriptions.py   *)
(* and the routers that commit for them, with YooKassa as the external     *)
(* party.                                                                  *)
(*                                                                         *)
(* Handlers are HTTP requests and Celery tasks.  Each is one database      *)
(* transaction at READ COMMITTED, so what it writes appears when it        *)
(* commits, and an action here is the part of a handler between two points *)
(* at which another one can overtake it: a plain SELECT whose result is    *)
(* used later, a call to the provider, a wait for a row lock.  A handler   *)
(* that dies loses its transaction and its locks.                          *)
(***************************************************************************)
EXTENDS Entitlements, UnitOfWork, Functions

CONSTANTS Handlers,       \* requests and tasks that may run at one time
          Payments,       \* payments that may ever be created
          PlansOnSale,    \* plans with is_active
          BillingPeriods, \* months on sale, table billing_periods
          ExtendMonths,   \* months a super admin may extend by
          Patches,        \* bodies of PATCH .../subscription
          Operations,     \* the endpoints and tasks in use
          WrongAnswers,   \* whether the provider may answer what is rejected
          ReuseWindow,    \* _PENDING_REUSE_WINDOW, in days
          TrialDays,      \* length of the trial
          LastDay,        \* bound on time
          RefundBound,    \* bound on the refunds journalled per payment
          LastPeriod      \* bound on the period a super admin extends to

Orders == [kind : {"extend", "upgrade"}, plan : Plans, months : Nat \ {0}]

PatchBodies == [plan : OrNull(PlansOnSale), status : OrNull(StoredStatus),
                trialEnd : OrNull(Nat), periodEnd : OrNull(Nat)]

AllOperations == {"checkout", "webhook", "poll", "extend", "patch", "notify", "delete"}

ASSUME PeriodsAssumption == BillingPeriods \cup ExtendMonths \subseteq Nat \ {0}
ASSUME PlansAssumption == PlansOnSale \subseteq Plans
ASSUME PatchesAssumption == Patches \subseteq PatchBodies
ASSUME OperationsAssumption == Operations \subseteq AllOperations
ASSUME AnswersAssumption == WrongAnswers \subseteq {"mismatch"}
ASSUME WindowAssumption == ReuseWindow \in Nat /\ {TrialDays, LastDay, LastPeriod, RefundBound} \subseteq Nat
ASSUME NamesAssumption == None \notin Handlers \cup Payments

VARIABLES
    now,          \* the day
    orgDeleted,   \* organizations.is_deleted
    provider,     \* YooKassa's own state of each payment
    payment,      \* table payments
    paidEvents,   \* paid_online rows of subscription_events, per payment
    refundEvents, \* payment_refunded rows of subscription_events, per payment
    sub,          \* the organization's row of subscriptions
    subLock,      \* the handler that holds the lock of that row
    payLock,      \* the handler that holds the lock of each payment's row
    txn           \* what each handler has read and where it stands

vars == <<now, orgDeleted, provider, payment, paidEvents, refundEvents, sub,
          subLock, payLock, txn>>

PaymentStatus == {"pending", "succeeded", "canceled", "refunded"}

\* No row: the payment was not created, or its transaction never committed.
NoPayment == [status |-> "none", order |-> None, applied |-> FALSE, createdOn |-> 0]

\* A handler at rest.  row is a loaded subscription, since the day it was loaded.
Idle == [at |-> "idle", pay |-> None, order |-> None, seen |-> None,
         orgSeen |-> FALSE, answer |-> None, row |-> None, since |-> 0]

Init ==
    /\ now = 0
    /\ orgDeleted = FALSE
    /\ provider = [p \in Payments |-> "none"]
    /\ payment = [p \in Payments |-> NoPayment]
    /\ paidEvents = [p \in Payments |-> 0]
    /\ refundEvents = [p \in Payments |-> 0]
    /\ sub = [plan |-> "premium", status |-> "trialing", trialEnd |-> TrialDays,
              periodEnd |-> None, notice |-> None]
    /\ subLock = None
    /\ payLock = [p \in Payments |-> None]
    /\ txn = [h \in Handlers |-> Idle]

(***************************************************************************)
(* Transactions                                                            *)
(***************************************************************************)

Starts(h, operation) == operation \in Operations /\ txn[h].at = "idle"

\* The end of h's transaction, committed or rolled back.
Ends(h) ==
    /\ txn' = [txn EXCEPT ![h] = Idle]
    /\ subLock' = IF subLock = h THEN None ELSE subLock
    /\ payLock' = [p \in Payments |-> IF payLock[p] = h THEN None ELSE payLock[p]]

(***************************************************************************)
(* POST .../billing/checkout                                               *)
(***************************************************************************)

\* The payments that create_checkout may be asked for today.
OrdersOnSale ==
    [kind : {"extend"}, plan : PlansOnSale, months : BillingPeriods]
    \cup IF UpgradeAvailable(sub, now)
         THEN {[kind |-> "upgrade", plan |-> "premium", months |-> UpgradeMonths(sub, now)]}
         ELSE {}

Reusable(order) ==
    \E p \in Payments : /\ payment[p].status = "pending"
                        /\ payment[p].order = order
                        /\ payment[p].createdOn + ReuseWindow >= now

\* The row is flushed, not committed, when YooKassa creates the payment.
CreateCheckout(h, p) ==
    /\ Starts(h, "checkout")
    /\ ~orgDeleted
    /\ provider[p] = "none"
    /\ \E order \in OrdersOnSale :
        /\ ~Reusable(order)
        /\ txn' = [txn EXCEPT ![h] = [Idle EXCEPT !.at = "created", !.pay = p,
                                                  !.order = order, !.since = now]]
    /\ provider' = [provider EXCEPT ![p] = "pending"]
    /\ UNCHANGED <<now, orgDeleted, payment, paidEvents, refundEvents, sub, subLock, payLock>>

CommitCheckout(h) ==
    /\ txn[h].at = "created"
    /\ payment' = [payment EXCEPT ![txn[h].pay] =
                    [status |-> "pending", order |-> txn[h].order,
                     applied |-> FALSE, createdOn |-> txn[h].since]]
    /\ Ends(h)
    /\ UNCHANGED <<now, orgDeleted, provider, paidEvents, refundEvents, sub>>

(***************************************************************************)
(* YooKassa.  A notification may be delivered any number of times and at   *)
(* any time after what it tells of, so it is no state of its own.          *)
(***************************************************************************)

\* The customer pays by the link the response to the checkout carried.
CustomerPays(p) ==
    /\ provider[p] = "pending"
    /\ payment[p].status # "none"
    /\ provider' = [provider EXCEPT ![p] = "succeeded"]
    /\ UNCHANGED <<now, orgDeleted, payment, paidEvents, refundEvents, sub, subLock, payLock, txn>>

ProviderCancels(p) ==
    /\ provider[p] = "pending"
    /\ provider' = [provider EXCEPT ![p] = "canceled"]
    /\ UNCHANGED <<now, orgDeleted, payment, paidEvents, refundEvents, sub, subLock, payLock, txn>>

ProviderRefunds(p) ==
    /\ provider[p] = "succeeded"
    /\ provider' = [provider EXCEPT ![p] = "refunded"]
    /\ UNCHANGED <<now, orgDeleted, payment, paidEvents, refundEvents, sub, subLock, payLock, txn>>

\* Mutant: any payment the provider knows is taken for a paid one.
AnswerPaid(p) == "succeeded"

\* A refunded payment keeps its status at the provider, the refund is another object.
Answer(p) == IF provider[p] = "refunded" THEN "succeeded" ELSE provider[p]

Notified(p) == provider[p] \in {"succeeded", "canceled", "refunded"}

(***************************************************************************)
(* payment.succeeded and payment.canceled, and GET .../payments/{id}:      *)
(* reconcile_payment, then apply_payment or mark_payment_canceled          *)
(***************************************************************************)

\* A notification for a payment without a row is answered 200 and forgotten.
WebhookLoadsPayment(h, p) ==
    /\ Starts(h, "webhook")
    /\ Notified(p)
    /\ payment[p].status # "none"
    /\ txn' = [txn EXCEPT ![h] = [Idle EXCEPT !.at = "asks", !.pay = p,
                                              !.seen = payment[p].status]]
    /\ UNCHANGED <<now, orgDeleted, provider, payment, paidEvents, refundEvents, sub, subLock, payLock>>

\* The router has loaded the organization, which stays as it was for this request.
PollLoadsPayment(h, p) ==
    /\ Starts(h, "poll")
    /\ ~orgDeleted
    /\ payment[p].status = "pending"
    /\ txn' = [txn EXCEPT ![h] = [Idle EXCEPT !.at = "asks", !.pay = p,
                                              !.seen = "pending", !.orgSeen = TRUE]]
    /\ UNCHANGED <<now, orgDeleted, provider, payment, paidEvents, refundEvents, sub, subLock, payLock>>

\* The provider answers, perhaps with something _verify_provider_data rejects.
ProviderAnswers(h) ==
    /\ txn[h].at = "asks"
    /\ \E answer \in {Answer(txn[h].pay)} \cup WrongAnswers :
        txn' = [txn EXCEPT ![h].at = "answered", ![h].answer = answer]
    /\ UNCHANGED <<now, orgDeleted, provider, payment, paidEvents, refundEvents, sub, subLock, payLock>>

\* provider_payload is flushed, which locks the payment's row until the commit.
FlushPayload(h) ==
    /\ txn[h].at = "answered"
    /\ txn[h].answer = "succeeded"
    /\ payLock[txn[h].pay] = None
    /\ payLock' = [payLock EXCEPT ![txn[h].pay] = h]
    /\ txn' = [txn EXCEPT ![h].at = "locks"]
    /\ UNCHANGED <<now, orgDeleted, provider, payment, paidEvents, refundEvents, sub, subLock>>

\* mark_payment_canceled decides by the status this handler loaded first.
MarkPaymentCanceled(h) ==
    /\ txn[h].at = "answered"
    /\ txn[h].answer = "canceled"
    /\ payLock[txn[h].pay] = None
    /\ payment' = IF txn[h].seen = "pending"
                  THEN [payment EXCEPT ![txn[h].pay].status = "canceled"]
                  ELSE payment
    /\ Ends(h)
    /\ UNCHANGED <<now, orgDeleted, provider, paidEvents, refundEvents, sub>>

NothingToApply(h) ==
    /\ txn[h].at = "answered"
    /\ txn[h].answer \in {"pending", "mismatch"}
    /\ Ends(h)
    /\ UNCHANGED <<now, orgDeleted, provider, payment, paidEvents, refundEvents, sub>>

\* SELECT subscription FOR UPDATE, then session.refresh(payment).
AlreadyApplied(h) ==
    /\ txn[h].at = "locks"
    /\ subLock = None
    /\ payment[txn[h].pay].applied
    /\ Ends(h)
    /\ UNCHANGED <<now, orgDeleted, provider, payment, paidEvents, refundEvents, sub>>

\* Mutant: an organization the request has not loaded counts as deleted.
OrgNotLoaded(h) == ~txn[h].orgSeen

OrgGone(h) == orgDeleted /\ ~txn[h].orgSeen

KeepForDeletedOrg(h) ==
    /\ txn[h].at = "locks"
    /\ subLock = None
    /\ ~payment[txn[h].pay].applied
    /\ OrgGone(h)
    /\ payment' = [payment EXCEPT ![txn[h].pay].status = "succeeded"]
    /\ Ends(h)
    /\ UNCHANGED <<now, orgDeleted, provider, paidEvents, refundEvents, sub>>

\* Mutant: the payment is not read again once the lock is held.
LockWithoutRefresh(h) ==
    /\ txn[h].at = "locks"
    /\ subLock = None
    /\ ~OrgGone(h)
    /\ subLock' = h
    /\ txn' = [txn EXCEPT ![h].at = "applies", ![h].row = sub]
    /\ UNCHANGED <<now, orgDeleted, provider, payment, paidEvents, refundEvents, sub, payLock>>

\* Mutant: the subscription is read without FOR UPDATE.
ReadWithoutLock(h) ==
    /\ txn[h].at = "locks"
    /\ ~payment[txn[h].pay].applied
    /\ ~OrgGone(h)
    /\ txn' = [txn EXCEPT ![h].at = "applies", ![h].row = sub]
    /\ UNCHANGED <<now, orgDeleted, provider, payment, paidEvents, refundEvents, sub, subLock, payLock>>

LockSubscription(h) ==
    /\ txn[h].at = "locks"
    /\ subLock = None
    /\ ~payment[txn[h].pay].applied
    /\ ~OrgGone(h)
    /\ subLock' = h
    /\ txn' = [txn EXCEPT ![h].at = "applies", ![h].row = sub]
    /\ UNCHANGED <<now, orgDeleted, provider, payment, paidEvents, refundEvents, sub, payLock>>

Applied(row, order) ==
    IF order.kind = "extend" THEN Extended(row, order.plan, order.months, now)
    ELSE [row EXCEPT !.plan = order.plan]

ApplyPayment(h) ==
    LET p == txn[h].pay IN
    /\ txn[h].at = "applies"
    /\ sub' = Flushed(sub, txn[h].row, Applied(txn[h].row, payment[p].order))
    /\ payment' = [payment EXCEPT ![p].status = "succeeded", ![p].applied = TRUE]
    /\ paidEvents' = [paidEvents EXCEPT ![p] = @ + 1]
    /\ Ends(h)
    /\ UNCHANGED <<now, orgDeleted, provider, refundEvents>>

(***************************************************************************)
(* refund.succeeded: one locking SELECT, so one step                       *)
(***************************************************************************)

ApplyRefund(h, p) ==
    /\ Starts(h, "webhook")
    /\ provider[p] = "refunded"
    /\ payLock[p] = None
    /\ payment[p].status \notin {"none", "refunded"}
    /\ refundEvents[p] < RefundBound
    /\ payment' = [payment EXCEPT ![p].status = "refunded"]
    /\ refundEvents' = [refundEvents EXCEPT ![p] = @ + 1]
    /\ UNCHANGED <<now, orgDeleted, provider, paidEvents, sub, subLock, payLock, txn>>

(***************************************************************************)
(* The super admin: extend and patch read without a lock                   *)
(***************************************************************************)

LoadSubscription(h, operation) ==
    /\ Starts(h, operation)
    /\ ~orgDeleted
    /\ txn' = [txn EXCEPT ![h] = [Idle EXCEPT !.at = operation, !.row = sub, !.since = now]]
    /\ UNCHANGED <<now, orgDeleted, provider, payment, paidEvents, refundEvents, sub, subLock, payLock>>

\* UPDATE subscriptions and commit; it waits for whoever holds the row.
WriteSubscription(h, new) ==
    /\ subLock = None
    /\ sub' = Flushed(sub, txn[h].row, new)
    /\ Ends(h)
    /\ UNCHANGED <<now, orgDeleted, provider, payment, paidEvents, refundEvents>>

ExtendSubscription(h) ==
    /\ txn[h].at = "extend"
    /\ \E months \in ExtendMonths, plan \in PlansOnSale \cup {txn[h].row.plan} :
        /\ ExtensionBase(txn[h].row, txn[h].since) + months * Month <= LastPeriod
        /\ WriteSubscription(h, Extended(txn[h].row, plan, months, txn[h].since))

Given(value, column) == IF value = None THEN column ELSE value

Patched(row, body) ==
    [plan      |-> Given(body.plan, row.plan),
     status    |-> Given(body.status, row.status),
     trialEnd  |-> Given(body.trialEnd, row.trialEnd),
     periodEnd |-> Given(body.periodEnd, row.periodEnd),
     notice    |-> IF body.status = None /\ body.trialEnd = None /\ body.periodEnd = None
                   THEN row.notice ELSE None]

\* Mutant: only the row's new status is validated, not its date.
AnyStoredStatus(row) == row.status \in StoredStatus

\* A stored status needs the date it is measured against.
HasItsDate(row) ==
    /\ row.status = "active" => row.periodEnd # None
    /\ row.status = "trialing" => row.trialEnd # None

PatchSubscription(h) ==
    /\ txn[h].at = "patch"
    /\ \E body \in Patches :
        /\ HasItsDate(Patched(txn[h].row, body))
        /\ WriteSubscription(h, Patched(txn[h].row, body))

(***************************************************************************)
(* The daily task notify_subscription_status                               *)
(***************************************************************************)

\* The notice that is due, or the one the row remembers.
Notice(row, t) ==
    LET due == {n \in NoticeDays : DaysLeft(row, t) <= n} IN
    CASE EffectiveStatus(row, t) \in {"trialing", "active"} ->
            IF due = {} THEN None
            ELSE IF row.notice = None \/ row.notice > Min(due) THEN Min(due)
            ELSE row.notice
      [] EffectiveStatus(row, t) = "suspended" -> SuspendedNotice
      [] OTHER -> row.notice

NotifySubscriptionStatus(h) ==
    /\ txn[h].at = "notify"
    /\ WriteSubscription(h, [txn[h].row EXCEPT !.notice = Notice(txn[h].row, txn[h].since)])

(***************************************************************************)
(* The rest of the world                                                   *)
(***************************************************************************)

DeleteOrganization ==
    /\ "delete" \in Operations
    /\ ~orgDeleted
    /\ orgDeleted' = TRUE
    /\ UNCHANGED <<now, provider, payment, paidEvents, refundEvents, sub, subLock, payLock, txn>>

\* A client error, a lost connection or a killed worker: nothing is committed.
Dies(h) ==
    /\ txn[h].at # "idle"
    /\ Ends(h)
    /\ UNCHANGED <<now, orgDeleted, provider, payment, paidEvents, refundEvents, sub>>

Tick ==
    /\ now < LastDay
    /\ now' = now + 1
    /\ UNCHANGED <<orgDeleted, provider, payment, paidEvents, refundEvents, sub, subLock, payLock, txn>>

Reconcile(h) ==
    \/ ProviderAnswers(h)
    \/ FlushPayload(h)
    \/ MarkPaymentCanceled(h)
    \/ NothingToApply(h)
    \/ AlreadyApplied(h)
    \/ KeepForDeletedOrg(h)
    \/ LockSubscription(h)
    \/ ApplyPayment(h)

Manual(h) ==
    \/ \E operation \in {"extend", "patch", "notify"} : LoadSubscription(h, operation)
    \/ ExtendSubscription(h)
    \/ PatchSubscription(h)
    \/ NotifySubscriptionStatus(h)

HandlerStep(h) ==
    \/ \E p \in Payments : \/ CreateCheckout(h, p)
                           \/ WebhookLoadsPayment(h, p)
                           \/ PollLoadsPayment(h, p)
                           \/ ApplyRefund(h, p)
    \/ CommitCheckout(h)
    \/ Reconcile(h)
    \/ Manual(h)
    \/ Dies(h)

ProviderStep(p) == CustomerPays(p) \/ ProviderCancels(p) \/ ProviderRefunds(p)

Next ==
    \/ \E h \in Handlers : HandlerStep(h)
    \/ \E p \in Payments : ProviderStep(p)
    \/ DeleteOrganization
    \/ Tick

Spec == Init /\ [][Next]_vars

(***************************************************************************)
(* Fairness.  YooKassa repeats a notification until it is answered 200, and *)
(* of the attempts at a payment, by whatever handlers, not all are cut off *)
(* at the same step.  A rejected answer is answered 200 too, so what the   *)
(* fair specification promises is promised with WrongAnswers empty.        *)
(***************************************************************************)

\* Some handler, never the same one for sure, takes the notification up.
Redelivery(p) == \E h \in Handlers : WebhookLoadsPayment(h, p)

\* A handler that has started ends, be it by dying.
Proceeds(h) ==
    \/ CommitCheckout(h)
    \/ Reconcile(h)
    \/ ExtendSubscription(h)
    \/ PatchSubscription(h)
    \/ NotifySubscriptionStatus(h)
    \/ Dies(h)

\* Some attempt at p, never that of the same handler for sure, gets past a step.
GetsThrough(p, Step(_)) == \E h \in Handlers : txn[h].pay = p /\ Step(h)

FairSpec ==
    /\ Spec
    /\ \A h \in Handlers : WF_vars(Proceeds(h))
    /\ \A p \in Payments : /\ SF_vars(Redelivery(p))
                           /\ SF_vars(GetsThrough(p, ProviderAnswers))
                           /\ SF_vars(GetsThrough(p, FlushPayload))
                           /\ SF_vars(GetsThrough(p, LockSubscription))
                           /\ SF_vars(GetsThrough(p, ApplyPayment))

(***************************************************************************)
(* Properties                                                              *)
(***************************************************************************)

Steps == {"idle", "created", "asks", "answered", "locks", "applies",
          "extend", "patch", "notify"}

PaymentRow ==
    [status : PaymentStatus \cup {"none"}, order : OrNull(Orders),
     applied : BOOLEAN, createdOn : 0 .. LastDay]

HandlerState ==
    [at : Steps, pay : OrNull(Payments), order : OrNull(Orders),
     seen : OrNull(PaymentStatus), orgSeen : BOOLEAN,
     answer : OrNull({"none", "pending", "succeeded", "canceled", "mismatch"}),
     row : OrNull(SubscriptionRow), since : 0 .. LastDay]

\* Type invariant: the shape of every table and of what a handler remembers.
TypeOK ==
    /\ now \in 0 .. LastDay
    /\ orgDeleted \in BOOLEAN
    /\ provider \in [Payments -> {"none", "pending", "succeeded", "canceled", "refunded"}]
    /\ payment \in [Payments -> PaymentRow]
    /\ paidEvents \in [Payments -> Nat]
    /\ refundEvents \in [Payments -> Nat]
    /\ sub \in SubscriptionRow
    /\ subLock \in OrNull(Handlers)
    /\ payLock \in [Payments -> OrNull(Handlers)]
    /\ txn \in [Handlers -> HandlerState]

\* A payment has exactly one paid_online event once applied_at is set and none
\* before, however often the webhook and the poll work on it at the same time
\* (apply_payment, "Идемпотентность по applied_at").
AppliedExactlyOnce ==
    \A p \in Payments : paidEvents[p] = IF payment[p].applied THEN 1 ELSE 0

\* The status the super admin may leave a subscription in always has the date it
\* is measured against, although patch_subscription validates a copy that another
\* transaction may have changed since (its two checks before the flush).
StoredStatusHasItsDate ==
    /\ sub.status = "active" => sub.periodEnd # None
    /\ sub.status = "trialing" => sub.trialEnd # None

\* The daily task and a patch that names no period leave the period alone, although
\* they hold a copy of the row from before a payment moved it (the session writes
\* the changed columns only).
StalePeriodIsNotWrittenBack ==
    [][\A h \in Handlers :
        (txn[h].at \in {"notify", "patch"} /\ txn'[h].at = "idle") =>
            sub'.periodEnd \in {sub.periodEnd} \cup ({body.periodEnd : body \in Patches} \ {None})]_vars

PaidExtensions == {p \in Payments : payment[p].applied /\ payment[p].order.kind = "extend"}

PaidMonths == SumFunction([p \in PaidExtensions |-> payment[p].order.months])

\* While only online payments touch the subscription, its period covers the trial
\* and every month that was paid for: two payments applied at once both count
\* (apply_payment locks the subscription row before it reads the period).
EveryPaidMonthCounts ==
    PaidMonths > 0 => /\ sub.periodEnd # None
                      /\ sub.periodEnd >= TrialDays + PaidMonths * Month

\* An online extension starts from the period that is in the table when it
\* commits, also when the super admin works on the subscription meanwhile.
CreditedFromCommittedPeriod ==
    [][\A p \in Payments :
        (~payment[p].applied /\ payment'[p].applied /\ payment[p].order.kind = "extend") =>
            sub'.periodEnd = ExtensionBase(sub, now) + payment[p].order.months * Month]_vars

\* What the provider did with the customer's money.
Money ==
    [p \in Payments |-> CASE provider[p] = "succeeded" -> "taken"
                          [] provider[p] = "refunded"  -> "returned"
                          [] OTHER                     -> "unpaid"]

Ledger == INSTANCE PaymentLedger WITH money <- Money, credits <- paidEvents

\* Billing implements the ledger: a payment is credited at most once, and only
\* one whose money the provider has taken (reconcile_payment asks the provider).
RefinesLedger == Ledger!Spec

\* Money taken for a payment of an organization that stays is credited in the end,
\* unless it is given back first (the webhook is repeated until it is processed).
PaidIsCredited ==
    \A p \in Payments :
        provider[p] = "succeeded" ~> (payment[p].applied \/ orgDeleted \/ provider[p] = "refunded")

\* A refund is written to the journal once, however often refund.succeeded is
\* delivered (apply_refund: "идемпотентность повторного вебхука refund.succeeded").
RefundLoggedOnce == \A p \in Payments : refundEvents[p] <= 1

\* The super admin's extension starts from the later of today and the period's end
\* (the description of POST .../subscription/extend).
ExtensionAddsToCommittedPeriod ==
    [][\A h \in Handlers :
        ExtendSubscription(h) =>
            \E months \in ExtendMonths :
                sub'.periodEnd = ExtensionBase(sub, txn[h].since) + months * Month]_vars

=============================================================================
