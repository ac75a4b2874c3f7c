---------------------------- MODULE BillingProofs ----------------------------
(***************************************************************************)
(* Proofs about Billing, for any number of handlers and payments, any      *)
(* prices' periods and any dates.                                          *)
(***************************************************************************)
EXTENDS Billing, SumProofs

(***************************************************************************)
(* Lemmas about the operators of Entitlements and Billing                  *)
(***************************************************************************)

\* Min of a set of naturals is one of them: the threshold of a notice is one of
\* _EXPIRY_THRESHOLDS.
LEMMA MinIsMember == ASSUME NEW S, S \subseteq Nat, S # {} PROVE Min(S) \in S
<1> DEFINE R == {ss \in Nat \X Nat : ss[1] < ss[2]}
<1>1. IsWellFoundedOn(R, Nat)
  BY NatLessThanWellFounded, Zenon DEF OpToRel
<1>2. PICK x \in S : \A y \in S : ~(<<y, x>> \in R)
  <2> HIDE DEF R
  <2> QED BY <1>1, WFMin
<1>3. ASSUME NEW y \in S PROVE x <= y
  <2>1. ~(<<y, x>> \in R)
    BY <1>2
  <2>2. <<y, x>> \in Nat \X Nat
    OBVIOUS
  <2>3. ~(y < x)
    BY <2>1, <2>2
  <2> QED
    BY <2>3
<1> QED BY <1>3 DEF Min

\* Writing the changed columns of one row into another gives a row.
LEMMA FlushedIsRow ==
    ASSUME NEW current \in SubscriptionRow, NEW loaded, NEW new \in SubscriptionRow
    PROVE  Flushed(current, loaded, new) \in SubscriptionRow
<1>1. DOMAIN current = {"plan", "status", "trialEnd", "periodEnd", "notice"}
  BY DEF SubscriptionRow
<1> QED BY <1>1 DEF SubscriptionRow, Flushed

\* The base of an extension is a day, not before the day of the extension.
LEMMA ExtensionBaseIsDay ==
    ASSUME NEW row \in SubscriptionRow, NEW t \in Nat
    PROVE  ExtensionBase(row, t) \in Nat
BY NoneAssumption DEF ExtensionBase, Later, SubscriptionRow, OrNull

\* An extension gives an active row with a period.
LEMMA ExtendedIsRow ==
    ASSUME NEW row \in SubscriptionRow, NEW plan \in Plans,
           NEW months \in Nat \ {0}, NEW t \in Nat
    PROVE  Extended(row, plan, months, t) \in SubscriptionRow
<1>1. ExtensionBase(row, t) + months * Month \in Nat
  <2>1. months * Month \in Nat
    BY MonthAssumption
  <2> QED BY <2>1, ExtensionBaseIsDay
<1> QED BY <1>1 DEF Extended, SubscriptionRow, OrNull, StoredStatus

\* An upgrade is paid for at least one month (_build_upgrade_option).
LEMMA UpgradeMonthsPositive ==
    ASSUME NEW row \in SubscriptionRow, NEW t \in Nat, UpgradeAvailable(row, t)
    PROVE  UpgradeMonths(row, t) \in Nat \ {0}
<1>1. row.periodEnd \in Int
  BY DEF UpgradeAvailable, SubscriptionRow, OrNull
<1>2. (row.periodEnd - t + Month - 1) \div Month \in Int
  BY <1>1, MonthAssumption
<1> QED BY <1>2 DEF UpgradeMonths, Later

\* What may be ordered is an order.
LEMMA OrdersOnSaleAreOrders ==
    ASSUME sub \in SubscriptionRow, now \in Nat
    PROVE  OrdersOnSale \subseteq Orders
<1>1. [kind : {"extend"}, plan : PlansOnSale, months : BillingPeriods] \subseteq Orders
  BY PlansAssumption, PeriodsAssumption DEF Orders
<1>2. ASSUME UpgradeAvailable(sub, now)
      PROVE  [kind |-> "upgrade", plan |-> "premium", months |-> UpgradeMonths(sub, now)] \in Orders
  BY <1>2, UpgradeMonthsPositive DEF Orders, Plans
<1> QED BY <1>1, <1>2 DEF OrdersOnSale

\* Crediting an order to a row gives a row.
LEMMA AppliedIsRow ==
    ASSUME NEW row \in SubscriptionRow, NEW order \in Orders, now \in Nat
    PROVE  Applied(row, order) \in SubscriptionRow
<1>1. order.plan \in Plans /\ order.months \in Nat \ {0}
  BY DEF Orders
<1>2. CASE order.kind = "extend"
  BY <1>1, <1>2, ExtendedIsRow DEF Applied
<1>3. CASE order.kind # "extend"
  BY <1>1, <1>3 DEF Applied, SubscriptionRow
<1> QED BY <1>2, <1>3

\* A patch gives a row.
LEMMA PatchedIsRow ==
    ASSUME NEW row \in SubscriptionRow, NEW body \in Patches
    PROVE  Patched(row, body) \in SubscriptionRow
<1>1. body \in PatchBodies
  BY PatchesAssumption
<1> QED BY <1>1, PlansAssumption DEF PatchBodies, Patched, Given, SubscriptionRow, OrNull

\* The notice that is due is a threshold, the sentinel or nothing.
LEMMA NoticeIsNotice ==
    ASSUME NEW row \in SubscriptionRow, NEW t \in Nat
    PROVE  Notice(row, t) \in OrNull(NoticeDays \cup {SuspendedNotice})
<1> DEFINE due == {n \in NoticeDays : DaysLeft(row, t) <= n}
<1>1. row.notice \in OrNull(NoticeDays \cup {SuspendedNotice})
  BY DEF SubscriptionRow
<1>2. due # {} => Min(due) \in NoticeDays
  <2>1. due \subseteq Nat
    BY NoticeAssumption
  <2> QED BY <2>1, MinIsMember
<1> HIDE DEF due
<1> QED BY <1>1, <1>2 DEF Notice, OrNull, due

(***************************************************************************)
(* Type correctness.  TypeOK alone is not inductive: what a handler has    *)
(* loaded depends on where it stands, and a row of payments has an order   *)
(* once it is committed.                                                   *)
(***************************************************************************)

OnPayment == {"created", "asks", "answered", "locks", "applies"}
OnSubscription == {"applies", "extend", "patch", "notify"}

CommittedHasOrder ==
    \A p \in Payments : payment[p].status # "none" => payment[p].order \in Orders

\* A handler t is where it may be, given the committed rows of payments.
Prepared(t, rows) ==
    /\ t \in HandlerState
    /\ t.at \in OnPayment => t.pay \in Payments
    /\ t.at = "created" => t.order \in Orders
    /\ t.at \in OnPayment \ {"created"} => rows[t.pay].status # "none"
    /\ t.at \in OnSubscription => t.row \in SubscriptionRow

TypeInv ==
    /\ TypeOK
    /\ CommittedHasOrder
    /\ \A h \in Handlers : Prepared(txn[h], payment)

\* No row of payments goes away.
Kept(rows, newRows) ==
    \A p \in Payments : rows[p].status # "none" => newRows[p].status # "none"

\* A handler at rest needs nothing of the rows.
LEMMA IdleIsPrepared == ASSUME NEW rows PROVE Prepared(Idle, rows)
BY WindowAssumption DEF Prepared, Idle, HandlerState, Steps, OrNull, OnPayment, OnSubscription

\* One handler steps, the others keep what they hold.
LEMMA OneHandlerSteps ==
    ASSUME NEW states \in [Handlers -> HandlerState], NEW rows, NEW newRows, NEW h \in Handlers,
           NEW t, Prepared(t, newRows), Kept(rows, newRows),
           \A g \in Handlers : Prepared(states[g], rows)
    PROVE  /\ [states EXCEPT ![h] = t] \in [Handlers -> HandlerState]
           /\ \A g \in Handlers : Prepared([states EXCEPT ![h] = t][g], newRows)
BY DEF Prepared, Kept, OnPayment

\* A handler that ends leaves everything typed, whatever it committed.
LEMMA EndsKeepsTypes ==
    ASSUME TypeInv, NEW h \in Handlers, Ends(h), Kept(payment, payment')
    PROVE  /\ txn' \in [Handlers -> HandlerState]
           /\ \A g \in Handlers : Prepared(txn'[g], payment')
           /\ subLock' \in OrNull(Handlers)
           /\ payLock' \in [Payments -> OrNull(Handlers)]
<1>1. /\ txn' \in [Handlers -> HandlerState]
      /\ \A g \in Handlers : Prepared(txn'[g], payment')
  BY IdleIsPrepared, OneHandlerSteps DEF TypeInv, TypeOK, Ends
<1> QED BY <1>1 DEF Ends, TypeInv, TypeOK, OrNull

\* A handler that goes on and commits nothing to payments.
LEMMA StepKeepsTypes ==
    ASSUME TypeInv, NEW h \in Handlers, txn' = [txn EXCEPT ![h] = txn'[h]],
           Prepared(txn'[h], payment), UNCHANGED payment
    PROVE  /\ txn' \in [Handlers -> HandlerState]
           /\ \A g \in Handlers : Prepared(txn'[g], payment')
<1>1. Kept(payment, payment)
  BY DEF Kept
<1>2. /\ [txn EXCEPT ![h] = txn'[h]] \in [Handlers -> HandlerState]
      /\ \A g \in Handlers : Prepared([txn EXCEPT ![h] = txn'[h]][g], payment)
  BY <1>1, OneHandlerSteps DEF TypeInv, TypeOK
<1> QED BY <1>2

\* Every table and every handler starts with its shape.
LEMMA TypeInvInit == Init => TypeInv
<1> SUFFICES ASSUME Init PROVE TypeInv
  OBVIOUS
<1>1. \A h \in Handlers : txn[h] \in HandlerState /\ Prepared(txn[h], payment)
  BY IdleIsPrepared DEF Init, Prepared
<1>2. NoPayment \in PaymentRow
  BY WindowAssumption DEF NoPayment, PaymentRow, OrNull
<1>3. sub \in SubscriptionRow
  BY WindowAssumption DEF Init, SubscriptionRow, Plans, StoredStatus, OrNull
<1>4. TypeOK
  <2>1. txn \in [Handlers -> HandlerState]
    BY <1>1 DEF Init
  <2>2. payment \in [Payments -> PaymentRow]
    BY <1>2 DEF Init
  <2>3. now \in 0 .. LastDay
    BY WindowAssumption DEF Init
  <2> QED BY <1>3, <2>1, <2>2, <2>3 DEF Init, TypeOK, OrNull
<1>5. CommittedHasOrder
  BY DEF Init, CommittedHasOrder, NoPayment
<1> QED BY <1>1, <1>4, <1>5 DEF TypeInv

\* Every step keeps the shapes, one action of Next at a time.
LEMMA TypeInvNext == TypeInv /\ [Next]_vars => TypeInv'
<1> SUFFICES ASSUME TypeInv, [Next]_vars PROVE TypeInv'
  OBVIOUS
<1> USE DEF TypeInv
<1>days. now \in Nat /\ \A h \in Handlers : txn[h].since \in Nat
  BY WindowAssumption DEF TypeOK, HandlerState
<1>idle. Idle \in HandlerState
  BY IdleIsPrepared DEF Prepared
<1>1. ASSUME NEW h \in Handlers, NEW p \in Payments, CreateCheckout(h, p)
      PROVE  TypeInv'
  <2>1. PICK order \in OrdersOnSale :
          txn' = [txn EXCEPT ![h] = [Idle EXCEPT !.at = "created", !.pay = p,
                                                 !.order = order, !.since = now]]
    BY <1>1 DEF CreateCheckout
  <2>2. order \in Orders
    BY <1>days, OrdersOnSaleAreOrders DEF TypeOK
  <2>3. txn'[h] = [Idle EXCEPT !.at = "created", !.pay = p, !.order = order, !.since = now]
    BY <2>1 DEF TypeOK
  <2>4. Prepared(txn'[h], payment)
    BY <2>2, <2>3 DEF Prepared, TypeOK, HandlerState, Idle, Steps, OrNull, OnPayment, OnSubscription
  <2> QED
    BY <1>1, <2>1, <2>3, <2>4, StepKeepsTypes DEF CreateCheckout, TypeOK, CommittedHasOrder
<1>2. ASSUME NEW h \in Handlers, CommitCheckout(h)
      PROVE  TypeInv'
  <2>1. txn[h].pay \in Payments /\ txn[h].order \in Orders
    BY <1>2 DEF CommitCheckout, Prepared, OnPayment
  <2>2. /\ payment' \in [Payments -> PaymentRow]
        /\ CommittedHasOrder'
        /\ Kept(payment, payment')
    BY <1>2, <2>1 DEF CommitCheckout, TypeOK, PaymentRow, PaymentStatus, HandlerState, OrNull,
       CommittedHasOrder, Kept
  <2> QED
    BY <1>2, <2>2, EndsKeepsTypes DEF CommitCheckout, TypeOK
<1>3. ASSUME NEW p \in Payments, ProviderStep(p)
      PROVE  TypeInv'
  BY <1>3 DEF ProviderStep, CustomerPays, ProviderCancels, ProviderRefunds, TypeOK,
     CommittedHasOrder
<1>4. ASSUME NEW h \in Handlers, NEW p \in Payments, txn'[h].at = "asks", txn'[h].pay = p,
             txn' = [txn EXCEPT ![h] = txn'[h]], txn'[h] \in HandlerState,
             payment[p].status # "none",
             UNCHANGED <<now, orgDeleted, provider, payment, paidEvents, refundEvents,
                         sub, subLock, payLock>>
      PROVE  TypeInv'
  <2>1. Prepared(txn'[h], payment)
    BY <1>4 DEF Prepared, OnPayment, OnSubscription
  <2> QED
    BY <1>4, <2>1, StepKeepsTypes DEF TypeOK, CommittedHasOrder
<1>5. ASSUME NEW h \in Handlers, NEW p \in Payments, WebhookLoadsPayment(h, p)
      PROVE  TypeInv'
  <2>1. txn'[h] = [Idle EXCEPT !.at = "asks", !.pay = p, !.seen = payment[p].status]
    BY <1>5 DEF WebhookLoadsPayment, TypeOK
  <2>2. payment[p].status \in PaymentStatus
    BY <1>5 DEF WebhookLoadsPayment, TypeOK, PaymentRow
  <2>3. txn'[h] \in HandlerState
    BY <2>1, <2>2, <1>idle DEF HandlerState, Steps, OrNull
  <2>4. txn'[h].at = "asks" /\ txn'[h].pay = p
    BY <2>1 DEF Idle
  <2> QED
    BY <1>4, <1>5, <2>1, <2>3, <2>4 DEF WebhookLoadsPayment
<1>6. ASSUME NEW h \in Handlers, NEW p \in Payments, PollLoadsPayment(h, p)
      PROVE  TypeInv'
  <2>1. txn'[h] = [Idle EXCEPT !.at = "asks", !.pay = p, !.seen = "pending", !.orgSeen = TRUE]
    BY <1>6 DEF PollLoadsPayment, TypeOK
  <2>2. txn'[h] \in HandlerState
    BY <2>1, <1>idle DEF HandlerState, Steps, OrNull, PaymentStatus
  <2>3. txn'[h].at = "asks" /\ txn'[h].pay = p
    BY <2>1 DEF Idle
  <2> QED
    BY <1>4, <1>6, <2>1, <2>2, <2>3 DEF PollLoadsPayment
<1>7. ASSUME NEW h \in Handlers, NEW p \in Payments, ApplyRefund(h, p)
      PROVE  TypeInv'
  <2>1. /\ payment' \in [Payments -> PaymentRow]
        /\ CommittedHasOrder'
        /\ Kept(payment, payment')
    BY <1>7 DEF ApplyRefund, TypeOK, PaymentRow, PaymentStatus, CommittedHasOrder, Kept
  <2>2. /\ txn' = [txn EXCEPT ![h] = txn[h]]
        /\ Prepared(txn[h], payment')
    BY <1>7, <2>1 DEF ApplyRefund, TypeOK, Prepared, Kept, OnPayment
  <2>3. \A g \in Handlers : Prepared(txn'[g], payment')
    BY <1>7, <2>1, <2>2, OneHandlerSteps DEF TypeOK
  <2>4. refundEvents' \in [Payments -> Nat]
    BY <1>7 DEF ApplyRefund, TypeOK
  <2>5. TypeOK'
    BY <1>7, <2>1, <2>4 DEF ApplyRefund, TypeOK
  <2> QED
    BY <2>1, <2>3, <2>5
<1>8. ASSUME NEW h \in Handlers, ProviderAnswers(h)
      PROVE  TypeInv'
  <2>1. PICK answer \in {Answer(txn[h].pay)} \cup WrongAnswers :
          txn' = [txn EXCEPT ![h].at = "answered", ![h].answer = answer]
    BY <1>8 DEF ProviderAnswers
  <2>2. txn[h].at = "asks" /\ txn[h].pay \in Payments
    BY <1>8 DEF ProviderAnswers, Prepared, OnPayment
  <2>3. answer \in {"none", "pending", "succeeded", "canceled", "mismatch"}
    BY <2>1, <2>2, AnswersAssumption DEF Answer, TypeOK
  <2>4. txn'[h] = [txn[h] EXCEPT !.at = "answered", !.answer = answer]
    BY <2>1 DEF TypeOK
  <2>5. Prepared(txn'[h], payment)
    BY <2>2, <2>3, <2>4 DEF Prepared, HandlerState, Steps, OrNull, OnPayment, OnSubscription
  <2> QED
    BY <1>8, <2>1, <2>4, <2>5, StepKeepsTypes, ZenonT(30) DEF ProviderAnswers, TypeOK, CommittedHasOrder
<1>9. ASSUME NEW h \in Handlers, FlushPayload(h)
      PROVE  TypeInv'
  <2>1. txn[h].at = "answered" /\ txn'[h] = [txn[h] EXCEPT !.at = "locks"]
    BY <1>9 DEF FlushPayload, TypeOK
  <2>2. Prepared(txn'[h], payment)
    BY <2>1 DEF Prepared, HandlerState, Steps, OnPayment, OnSubscription
  <2>3. payLock' \in [Payments -> OrNull(Handlers)]
    BY <1>9 DEF FlushPayload, TypeOK, OrNull
  <2> QED
    BY <1>9, <2>1, <2>2, <2>3, StepKeepsTypes DEF FlushPayload, TypeOK, CommittedHasOrder
<1>10. ASSUME NEW h \in Handlers, MarkPaymentCanceled(h) \/ KeepForDeletedOrg(h)
       PROVE  TypeInv'
  <2>1. txn[h].pay \in Payments /\ payment[txn[h].pay].status # "none"
    BY <1>10 DEF MarkPaymentCanceled, KeepForDeletedOrg, Prepared, OnPayment
  <2>2. PICK status \in {payment[txn[h].pay].status, "canceled", "succeeded"} :
          payment' = [payment EXCEPT ![txn[h].pay].status = status]
    BY <1>10, <2>1 DEF MarkPaymentCanceled, KeepForDeletedOrg, TypeOK, PaymentRow
  <2>3. /\ payment' \in [Payments -> PaymentRow]
        /\ CommittedHasOrder'
        /\ Kept(payment, payment')
    BY <2>1, <2>2 DEF TypeOK, PaymentRow, PaymentStatus, CommittedHasOrder, Kept
  <2> QED
    BY <1>10, <2>3, EndsKeepsTypes DEF MarkPaymentCanceled, KeepForDeletedOrg, TypeOK
<1>11. ASSUME NEW h \in Handlers, NothingToApply(h) \/ AlreadyApplied(h) \/ Dies(h)
       PROVE  TypeInv'
  <2>1. Ends(h) /\ Kept(payment, payment')
    BY <1>11 DEF NothingToApply, AlreadyApplied, Dies, Kept
  <2> QED
    BY <1>11, <2>1, EndsKeepsTypes DEF NothingToApply, AlreadyApplied, Dies, TypeOK,
       CommittedHasOrder
<1>12. ASSUME NEW h \in Handlers, LockSubscription(h)
       PROVE  TypeInv'
  <2>1. txn[h].at = "locks" /\ txn'[h] = [txn[h] EXCEPT !.at = "applies", !.row = sub]
    BY <1>12 DEF LockSubscription, TypeOK
  <2>2. Prepared(txn'[h], payment)
    BY <2>1 DEF Prepared, TypeOK, HandlerState, Steps, OrNull, OnPayment, OnSubscription
  <2> QED
    BY <1>12, <2>1, <2>2, StepKeepsTypes DEF LockSubscription, TypeOK, CommittedHasOrder, OrNull
<1>13. ASSUME NEW h \in Handlers, ApplyPayment(h)
       PROVE  TypeInv'
  <2>1. /\ txn[h].pay \in Payments
        /\ txn[h].row \in SubscriptionRow
        /\ payment[txn[h].pay].order \in Orders
    BY <1>13 DEF ApplyPayment, Prepared, CommittedHasOrder, OnPayment, OnSubscription
  <2>2. sub' \in SubscriptionRow
    BY <1>13, <1>days, <2>1, AppliedIsRow, FlushedIsRow DEF ApplyPayment, TypeOK
  <2>3. payment' = [payment EXCEPT ![txn[h].pay].status = "succeeded",
                                   ![txn[h].pay].applied = TRUE]
    BY <1>13 DEF ApplyPayment
  <2>4. /\ payment' \in [Payments -> PaymentRow]
        /\ CommittedHasOrder'
        /\ Kept(payment, payment')
    BY <2>1, <2>3 DEF TypeOK, PaymentRow, PaymentStatus, CommittedHasOrder, Kept
  <2>5. paidEvents' \in [Payments -> Nat]
    BY <1>13, <2>1 DEF ApplyPayment, TypeOK
  <2> QED
    BY <1>13, <2>2, <2>4, <2>5, EndsKeepsTypes DEF ApplyPayment, TypeOK
<1>14. ASSUME NEW h \in Handlers, NEW operation \in {"extend", "patch", "notify"},
              LoadSubscription(h, operation)
       PROVE  TypeInv'
  <2>1. txn'[h] = [Idle EXCEPT !.at = operation, !.row = sub, !.since = now]
    BY <1>14 DEF LoadSubscription, TypeOK
  <2>2. Prepared(txn'[h], payment)
    BY <2>1 DEF Prepared, TypeOK, HandlerState, Idle, Steps, OrNull, OnPayment, OnSubscription
  <2> QED
    BY <1>14, <2>1, <2>2, StepKeepsTypes DEF LoadSubscription, TypeOK, CommittedHasOrder
<1>15. ASSUME NEW h \in Handlers, sub' \in SubscriptionRow, Ends(h),
              UNCHANGED <<now, orgDeleted, provider, payment, paidEvents, refundEvents>>
       PROVE  TypeInv'
  BY <1>15, EndsKeepsTypes DEF Kept, TypeOK, CommittedHasOrder
<1>16. ASSUME NEW h \in Handlers, ExtendSubscription(h)
       PROVE  TypeInv'
  <2>1. PICK months \in ExtendMonths, plan \in PlansOnSale \cup {txn[h].row.plan} :
          WriteSubscription(h, Extended(txn[h].row, plan, months, txn[h].since))
    BY <1>16 DEF ExtendSubscription
  <2>2. txn[h].row \in SubscriptionRow
    BY <1>16 DEF ExtendSubscription, Prepared, OnSubscription
  <2>3. plan \in Plans /\ months \in Nat \ {0}
    BY <2>2, PlansAssumption, PeriodsAssumption DEF SubscriptionRow
  <2>4. sub' \in SubscriptionRow
    BY <1>days, <2>1, <2>2, <2>3, ExtendedIsRow, FlushedIsRow DEF WriteSubscription, TypeOK
  <2> QED
    BY <1>15, <2>1, <2>4 DEF WriteSubscription
<1>17. ASSUME NEW h \in Handlers, PatchSubscription(h)
       PROVE  TypeInv'
  <2>1. PICK body \in Patches : WriteSubscription(h, Patched(txn[h].row, body))
    BY <1>17 DEF PatchSubscription
  <2>2. txn[h].row \in SubscriptionRow
    BY <1>17 DEF PatchSubscription, Prepared, OnSubscription
  <2>3. sub' \in SubscriptionRow
    BY <2>1, <2>2, PatchedIsRow, FlushedIsRow DEF WriteSubscription, TypeOK
  <2> QED
    BY <1>15, <2>1, <2>3 DEF WriteSubscription
<1>18. ASSUME NEW h \in Handlers, NotifySubscriptionStatus(h)
       PROVE  TypeInv'
  <2>1. txn[h].row \in SubscriptionRow
    BY <1>18 DEF NotifySubscriptionStatus, Prepared, OnSubscription
  <2>2. [txn[h].row EXCEPT !.notice = Notice(txn[h].row, txn[h].since)] \in SubscriptionRow
    BY <1>days, <2>1, NoticeIsNotice DEF SubscriptionRow
  <2>3. sub' \in SubscriptionRow
    BY <1>18, <2>2, FlushedIsRow DEF NotifySubscriptionStatus, WriteSubscription, TypeOK
  <2> QED
    BY <1>15, <1>18, <2>3 DEF NotifySubscriptionStatus, WriteSubscription
<1>19. CASE DeleteOrganization
  BY <1>19 DEF DeleteOrganization, TypeOK, CommittedHasOrder
<1>20. CASE Tick
  BY <1>20, WindowAssumption DEF Tick, TypeOK, CommittedHasOrder
<1>21. CASE UNCHANGED vars
  BY <1>21 DEF vars, TypeOK, CommittedHasOrder
<1> QED
  BY <1>1, <1>2, <1>3, <1>5, <1>6, <1>7, <1>8, <1>9, <1>10, <1>11, <1>12, <1>13,
     <1>14, <1>16, <1>17, <1>18, <1>19, <1>20, <1>21
     DEF Next, HandlerStep, Reconcile, Manual

\* Type correctness: every table and every handler keeps its shape.
THEOREM TypeCorrect == Spec => []TypeOK
<1>1. Spec => []TypeInv
  BY TypeInvInit, TypeInvNext, PTL DEF Spec
<1>2. TypeInv => TypeOK
  BY DEF TypeInv
<1> QED BY <1>1, <1>2, PTL

(***************************************************************************)
(* Exactly once.  A payment is applied by the handler that holds the lock  *)
(* of the subscription and read the payment after it got the lock; the     *)
(* transaction that inserts the row of a payment is the only one; and a    *)
(* handler goes on only with a payment the provider was paid for.          *)
(***************************************************************************)

PaidFor == {"succeeded", "refunded"}

\* A row of payments was created at the provider first, and starts unapplied.
RowsAreKnown ==
    \A p \in Payments : /\ payment[p].status = "none" => ~payment[p].applied
                        /\ payment[p].status # "none" => provider[p] # "none"

\* Nobody else has or creates the payment that a checkout is about to commit.
OneCreator ==
    \A h \in Handlers : txn[h].at = "created" =>
        /\ provider[txn[h].pay] # "none"
        /\ payment[txn[h].pay].status = "none"
        /\ \A g \in Handlers : (txn[g].at = "created" /\ txn[g].pay = txn[h].pay) => g = h

\* A handler that was told "succeeded" was told the truth.
ToldTheTruth ==
    \A h \in Handlers :
        (txn[h].at \in {"locks", "applies"} \/ (txn[h].at = "answered" /\ txn[h].answer = "succeeded"))
            => provider[txn[h].pay] \in PaidFor

\* What the holder of the lock read is what the tables hold.
ApplierIsAlone ==
    \A h \in Handlers : txn[h].at = "applies" =>
        /\ subLock = h
        /\ ~payment[txn[h].pay].applied
        /\ txn[h].row = sub

LedgerInv ==
    /\ AppliedExactlyOnce
    /\ RowsAreKnown
    /\ OneCreator
    /\ ToldTheTruth
    /\ ApplierIsAlone

\* At first there is no payment to credit and no lock to hold.
LEMMA LedgerInvInit == Init => LedgerInv
BY DEF Init, LedgerInv, AppliedExactlyOnce, RowsAreKnown, OneCreator, ToldTheTruth,
   ApplierIsAlone, NoPayment, Idle

\* What is left of a handler's knowledge after it ends: nothing.
LEMMA EndsIdle ==
    ASSUME TypeInv, NEW h \in Handlers, Ends(h)
    PROVE  /\ txn'[h].at = "idle"
           /\ \A g \in Handlers \ {h} : txn'[g] = txn[g]
           /\ \A g \in Handlers \ {h} : subLock = g => subLock' = g
BY DEF TypeInv, TypeOK, Ends, Idle

\* Every step keeps the discipline of the locks, the flag and the journal.
LEMMA LedgerInvNext == TypeInv /\ LedgerInv /\ [Next]_vars => LedgerInv'
<1> SUFFICES ASSUME TypeInv, LedgerInv, [Next]_vars PROVE LedgerInv'
  OBVIOUS
<1>typed. /\ TypeOK
          /\ \A h \in Handlers : txn[h].at \in OnPayment => txn[h].pay \in Payments
  BY DEF TypeInv, Prepared
<1> USE DEF LedgerInv
<1>1. ASSUME NEW h \in Handlers, NEW p \in Payments, CreateCheckout(h, p)
      PROVE  LedgerInv'
  <2>1. /\ txn'[h].at = "created" /\ txn'[h].pay = p
        /\ \A g \in Handlers \ {h} : txn'[g] = txn[g]
    BY <1>1, <1>typed DEF CreateCheckout, TypeOK, Idle
  <2>2. \A g \in Handlers : txn[g].at = "created" => txn[g].pay # p
    BY <1>1 DEF CreateCheckout, OneCreator
  <2>3. AppliedExactlyOnce' /\ RowsAreKnown'
    BY <1>1, <1>typed DEF CreateCheckout, AppliedExactlyOnce, RowsAreKnown, TypeOK
  <2>4. OneCreator'
    BY <1>1, <1>typed, <2>1, <2>2 DEF CreateCheckout, OneCreator, RowsAreKnown, TypeOK
  <2>5. ToldTheTruth'
    BY <1>1, <1>typed, <2>1 DEF CreateCheckout, ToldTheTruth, TypeOK, PaidFor
  <2>6. ApplierIsAlone'
    BY <1>1, <2>1 DEF CreateCheckout, ApplierIsAlone
  <2> QED BY <2>3, <2>4, <2>5, <2>6
<1>2. ASSUME NEW h \in Handlers, CommitCheckout(h)
      PROVE  LedgerInv'
  <2>1. Ends(h) /\ txn[h].pay \in Payments
    BY <1>2, <1>typed DEF CommitCheckout, OnPayment
  <2>2. /\ ~payment[txn[h].pay].applied /\ ~payment'[txn[h].pay].applied
        /\ payment'[txn[h].pay].status = "pending"
        /\ \A p \in Payments \ {txn[h].pay} : payment'[p] = payment[p]
    BY <1>2, <1>typed, <2>1 DEF CommitCheckout, OneCreator, RowsAreKnown, TypeOK
  <2>3. AppliedExactlyOnce' /\ RowsAreKnown'
    BY <1>2, <2>2 DEF CommitCheckout, AppliedExactlyOnce, RowsAreKnown, OneCreator
  <2>4. OneCreator'
    BY <1>2, <1>typed, <2>1, <2>2, EndsIdle DEF CommitCheckout, OneCreator, OnPayment
  <2>5. ToldTheTruth'
    BY <1>2, <2>1, EndsIdle DEF CommitCheckout, ToldTheTruth
  <2>6. ApplierIsAlone'
    BY <1>2, <1>typed, <2>1, <2>2, EndsIdle DEF CommitCheckout, ApplierIsAlone, OnPayment
  <2> QED BY <2>3, <2>4, <2>5, <2>6
<1>3. ASSUME NEW p \in Payments, ProviderStep(p)
      PROVE  LedgerInv'
  <2>1. \A q \in Payments : /\ provider[q] \in PaidFor => provider'[q] \in PaidFor
                            /\ provider[q] # "none" => provider'[q] # "none"
    BY <1>3, <1>typed DEF ProviderStep, CustomerPays, ProviderCancels, ProviderRefunds, TypeOK,
       PaidFor
  <2>2. UNCHANGED <<payment, paidEvents, sub, subLock, txn>>
    BY <1>3 DEF ProviderStep, CustomerPays, ProviderCancels, ProviderRefunds
  <2>3. OneCreator' /\ ToldTheTruth'
    BY <1>typed, <2>1, <2>2 DEF OneCreator, ToldTheTruth, OnPayment
  <2> QED
    BY <2>1, <2>2, <2>3 DEF AppliedExactlyOnce, RowsAreKnown, ApplierIsAlone
<1>4. ASSUME NEW h \in Handlers, txn'[h].at = "asks",
             \A g \in Handlers \ {h} : txn'[g] = txn[g],
             UNCHANGED <<provider, payment, paidEvents, sub, subLock>>
      PROVE  LedgerInv'
  BY <1>4 DEF AppliedExactlyOnce, RowsAreKnown, OneCreator, ToldTheTruth, ApplierIsAlone
<1>5. ASSUME NEW h \in Handlers, NEW p \in Payments,
             WebhookLoadsPayment(h, p) \/ PollLoadsPayment(h, p)
      PROVE  LedgerInv'
  <2>1. txn'[h].at = "asks" /\ \A g \in Handlers \ {h} : txn'[g] = txn[g]
    BY <1>5, <1>typed, ZenonT(30) DEF WebhookLoadsPayment, PollLoadsPayment, TypeOK, Idle
  <2> QED
    BY <1>4, <1>5, <2>1 DEF WebhookLoadsPayment, PollLoadsPayment
<1>6. ASSUME NEW h \in Handlers, NEW p \in Payments, ApplyRefund(h, p)
      PROVE  LedgerInv'
  <2>1. \A q \in Payments : /\ payment'[q].applied = payment[q].applied
                            /\ payment'[q].status = "none" <=> payment[q].status = "none"
    BY <1>6, <1>typed DEF ApplyRefund, TypeOK, PaymentRow
  <2> QED
    BY <1>6, <1>typed, <2>1 DEF ApplyRefund, OnPayment, AppliedExactlyOnce, RowsAreKnown,
       OneCreator, ToldTheTruth, ApplierIsAlone
<1>7. ASSUME NEW h \in Handlers, ProviderAnswers(h)
      PROVE  LedgerInv'
  <2>1. PICK answer \in {Answer(txn[h].pay)} \cup WrongAnswers :
          txn' = [txn EXCEPT ![h].at = "answered", ![h].answer = answer]
    BY <1>7 DEF ProviderAnswers
  <2>2. /\ txn'[h].at = "answered" /\ txn'[h].answer = answer /\ txn'[h].pay = txn[h].pay
        /\ \A g \in Handlers \ {h} : txn'[g] = txn[g]
    BY <1>typed, <2>1 DEF TypeOK, HandlerState
  <2>3. answer = "succeeded" => provider[txn[h].pay] \in PaidFor
    BY <2>1, AnswersAssumption DEF Answer, PaidFor
  <2> QED
    <3>1. AppliedExactlyOnce' /\ RowsAreKnown'
      BY <1>7 DEF ProviderAnswers, AppliedExactlyOnce, RowsAreKnown
    <3>u. UNCHANGED <<provider, payment, sub, subLock>>
      BY <1>7 DEF ProviderAnswers
    <3>2. OneCreator' /\ ApplierIsAlone'
      <4>1. OneCreator'
        BY <2>2, <3>u DEF OneCreator
      <4>2. ApplierIsAlone'
        BY <2>2, <3>u DEF ApplierIsAlone
      <4> QED BY <4>1, <4>2
    <3>3. ToldTheTruth'
      BY <1>7, <2>2, <2>3 DEF ProviderAnswers, ToldTheTruth
    <3> QED BY <3>1, <3>2, <3>3
<1>8. ASSUME NEW h \in Handlers, FlushPayload(h)
      PROVE  LedgerInv'
  <2>1. /\ txn'[h].at = "locks" /\ txn'[h].pay = txn[h].pay
        /\ \A g \in Handlers \ {h} : txn'[g] = txn[g]
    BY <1>8, <1>typed DEF FlushPayload, TypeOK, HandlerState
  <2> QED
    BY <1>8, <2>1 DEF FlushPayload, AppliedExactlyOnce, RowsAreKnown, OneCreator,
       ToldTheTruth, ApplierIsAlone
<1>9. ASSUME NEW h \in Handlers, Ends(h), UNCHANGED <<provider, paidEvents, sub>>,
             \A q \in Payments : /\ payment'[q].applied = payment[q].applied
                                 /\ payment'[q].status = "none" <=> payment[q].status = "none"
      PROVE  LedgerInv'
  <2>1. AppliedExactlyOnce' /\ RowsAreKnown'
    BY <1>9 DEF AppliedExactlyOnce, RowsAreKnown
  <2>2. OneCreator' /\ ToldTheTruth' /\ ApplierIsAlone'
    BY <1>9, <1>typed, EndsIdle DEF OneCreator, ToldTheTruth, ApplierIsAlone, OnPayment
  <2> QED BY <2>1, <2>2
<1>10. ASSUME NEW h \in Handlers,
              \/ MarkPaymentCanceled(h) \/ NothingToApply(h) \/ AlreadyApplied(h)
              \/ KeepForDeletedOrg(h) \/ Dies(h)
       PROVE  LedgerInv'
  <2>1. \A q \in Payments : /\ payment'[q].applied = payment[q].applied
                            /\ payment'[q].status = "none" <=> payment[q].status = "none"
    <3>1. CASE MarkPaymentCanceled(h) \/ KeepForDeletedOrg(h)
      <4>1. txn[h].pay \in Payments /\ payment[txn[h].pay].status # "none"
        BY <3>1 DEF MarkPaymentCanceled, KeepForDeletedOrg, TypeInv, Prepared, OnPayment
      <4>2. PICK status \in {payment[txn[h].pay].status, "canceled", "succeeded"} :
              payment' = [payment EXCEPT ![txn[h].pay].status = status]
        BY <1>typed, <3>1, <4>1 DEF MarkPaymentCanceled, KeepForDeletedOrg, TypeOK, PaymentRow
      <4> QED
        BY <1>typed, <4>1, <4>2 DEF TypeOK, PaymentRow
    <3>2. CASE UNCHANGED payment
      BY <3>2
    <3> QED
      BY <1>10, <3>1, <3>2 DEF NothingToApply, AlreadyApplied, Dies
  <2> QED
    BY <1>9, <1>10, <2>1 DEF MarkPaymentCanceled, NothingToApply, AlreadyApplied,
       KeepForDeletedOrg, Dies
<1>11. ASSUME NEW h \in Handlers, LockSubscription(h)
       PROVE  LedgerInv'
  <2>1. /\ txn'[h].at = "applies" /\ txn'[h].pay = txn[h].pay /\ txn'[h].row = sub
        /\ \A g \in Handlers \ {h} : txn'[g] = txn[g]
        /\ ~payment[txn[h].pay].applied
    BY <1>11, <1>typed DEF LockSubscription, TypeOK, HandlerState
  <2>2. \A g \in Handlers : txn[g].at # "applies"
    BY <1>11, NamesAssumption DEF LockSubscription, ApplierIsAlone
  <2> QED
    <3>1. AppliedExactlyOnce' /\ RowsAreKnown'
      BY <1>11 DEF LockSubscription, AppliedExactlyOnce, RowsAreKnown
    <3>u. txn[h].at = "locks" /\ UNCHANGED <<provider, payment>>
      BY <1>11 DEF LockSubscription
    <3>2. OneCreator' /\ ToldTheTruth'
      <4>1. OneCreator'
        BY <2>1, <3>u DEF OneCreator
      <4>2. ToldTheTruth'
        BY <2>1, <3>u DEF ToldTheTruth
      <4> QED BY <4>1, <4>2
    <3>3. ApplierIsAlone'
      BY <1>11, <2>1, <2>2 DEF LockSubscription, ApplierIsAlone
    <3> QED BY <3>1, <3>2, <3>3
<1>12. ASSUME NEW h \in Handlers, ApplyPayment(h)
       PROVE  LedgerInv'
  <2> DEFINE p == txn[h].pay
  <2>1. p \in Payments /\ Ends(h) /\ ~payment[p].applied /\ subLock = h
    BY <1>12, <1>typed DEF ApplyPayment, ApplierIsAlone, OnPayment
  <2>2. payment[p].status # "none" /\ provider[p] # "none"
    BY <1>12, <2>1 DEF ApplyPayment, TypeInv, Prepared, RowsAreKnown, OnPayment
  <2>3. /\ payment'[p].applied /\ payment'[p].status = "succeeded"
        /\ paidEvents'[p] = paidEvents[p] + 1
        /\ \A q \in Payments \ {p} : payment'[q] = payment[q] /\ paidEvents'[q] = paidEvents[q]
    BY <1>12, <1>typed, <2>1 DEF ApplyPayment, TypeOK, PaymentRow
  <2>4. AppliedExactlyOnce' /\ RowsAreKnown'
    <3>1. paidEvents[p] = 0
      BY <2>1 DEF AppliedExactlyOnce
    <3>2. UNCHANGED provider
      BY <1>12 DEF ApplyPayment
    <3> HIDE DEF p
    <3> QED
      BY <2>2, <2>3, <3>1, <3>2 DEF AppliedExactlyOnce, RowsAreKnown
  <2>5. \A g \in Handlers \ {h} : txn[g].at # "applies"
    BY <2>1 DEF ApplierIsAlone
  <2>6. OneCreator' /\ ToldTheTruth' /\ ApplierIsAlone'
    <3>1. UNCHANGED provider
      BY <1>12 DEF ApplyPayment
    <3>2. txn'[h].at = "idle" /\ \A g \in Handlers \ {h} : txn'[g] = txn[g]
      BY <2>1, EndsIdle
    <3>3. \A g \in Handlers : txn[g].at = "created" => txn[g].pay # p
      BY <2>2 DEF OneCreator
    <3>4. OneCreator'
      BY <1>typed, <2>3, <3>1, <3>2, <3>3 DEF OneCreator, OnPayment
    <3>5. ToldTheTruth'
      BY <3>1, <3>2 DEF ToldTheTruth
    <3>6. ApplierIsAlone'
      BY <2>5, <3>2 DEF ApplierIsAlone
    <3> QED BY <3>4, <3>5, <3>6
  <2> QED BY <2>4, <2>6
<1>13. ASSUME NEW h \in Handlers, NEW operation \in {"extend", "patch", "notify"},
              LoadSubscription(h, operation)
       PROVE  LedgerInv'
  <2>1. /\ txn'[h].at = operation
        /\ \A g \in Handlers \ {h} : txn'[g] = txn[g]
    BY <1>13, <1>typed DEF LoadSubscription, TypeOK, Idle
  <2> QED
    BY <1>13, <2>1 DEF LoadSubscription, AppliedExactlyOnce, RowsAreKnown, OneCreator,
       ToldTheTruth, ApplierIsAlone
<1>14. ASSUME NEW h \in Handlers,
              ExtendSubscription(h) \/ PatchSubscription(h) \/ NotifySubscriptionStatus(h)
       PROVE  LedgerInv'
  <2>1. /\ subLock = None /\ Ends(h)
        /\ UNCHANGED <<provider, payment, paidEvents>>
    BY <1>14 DEF ExtendSubscription, PatchSubscription, NotifySubscriptionStatus, WriteSubscription
  <2>2. \A g \in Handlers : txn[g].at # "applies"
    BY <2>1, NamesAssumption DEF ApplierIsAlone
  <2>3. AppliedExactlyOnce' /\ RowsAreKnown'
    BY <2>1 DEF AppliedExactlyOnce, RowsAreKnown
  <2>4. OneCreator' /\ ToldTheTruth' /\ ApplierIsAlone'
    BY <2>1, <2>2, EndsIdle DEF OneCreator, ToldTheTruth, ApplierIsAlone
  <2> QED BY <2>3, <2>4
<1>15. CASE DeleteOrganization \/ Tick \/ UNCHANGED vars
  BY <1>15 DEF DeleteOrganization, Tick, vars, AppliedExactlyOnce, RowsAreKnown, OneCreator,
     ToldTheTruth, ApplierIsAlone
<1> QED
  BY <1>1, <1>2, <1>3, <1>5, <1>6, <1>7, <1>8, <1>10, <1>11, <1>12, <1>13, <1>14, <1>15
     DEF Next, HandlerStep, Reconcile, Manual

\* Both invariants hold in every reachable state.
LEMMA InvariantHolds == Spec => [](TypeInv /\ LedgerInv)
<1>1. Init => TypeInv /\ LedgerInv
  BY TypeInvInit, LedgerInvInit
<1>2. TypeInv /\ LedgerInv /\ [Next]_vars => (TypeInv /\ LedgerInv)'
  BY TypeInvNext, LedgerInvNext
<1> QED BY <1>1, <1>2, PTL DEF Spec

\* A payment is written to the journal exactly once, when it is applied.
THEOREM ExactlyOnce == Spec => []AppliedExactlyOnce
<1>1. LedgerInv => AppliedExactlyOnce
  BY DEF LedgerInv
<1> QED BY <1>1, InvariantHolds, PTL

(***************************************************************************)
(* The ledger                                                              *)
(***************************************************************************)

\* A step that moves neither the provider nor the journal is a stutter of the ledger.
LEMMA LedgerStutters ==
    ASSUME UNCHANGED <<provider, paidEvents>>
    PROVE  UNCHANGED Ledger!ledgerVars
BY DEF Money, Ledger!ledgerVars

\* Every step of Billing is a step of the ledger or leaves the ledger alone.
LEMMA StepImplementsLedger ==
    ASSUME TypeInv, LedgerInv, [Next]_vars
    PROVE  [Ledger!Next]_(Ledger!ledgerVars)
<1>typed. /\ TypeOK
          /\ \A h \in Handlers : txn[h].at \in OnPayment => txn[h].pay \in Payments
  BY DEF TypeInv, Prepared
<1>1. ASSUME NEW h \in Handlers, NEW p \in Payments, CreateCheckout(h, p)
      PROVE  UNCHANGED Ledger!ledgerVars
  <2>1. \A q \in Payments : Money'[q] = Money[q]
    BY <1>1, <1>typed DEF CreateCheckout, Money, TypeOK
  <2> QED
    BY <1>1, <2>1 DEF CreateCheckout, Money, Ledger!ledgerVars
<1>2. ASSUME NEW p \in Payments, CustomerPays(p)
      PROVE  Ledger!Take(p)
  BY <1>2, <1>typed DEF CustomerPays, Money, TypeOK, Ledger!Take
<1>3. ASSUME NEW p \in Payments, ProviderCancels(p)
      PROVE  UNCHANGED Ledger!ledgerVars
  BY <1>3, <1>typed DEF ProviderCancels, Money, TypeOK, Ledger!ledgerVars
<1>4. ASSUME NEW p \in Payments, ProviderRefunds(p)
      PROVE  Ledger!GiveBack(p)
  BY <1>4, <1>typed DEF ProviderRefunds, Money, TypeOK, Ledger!GiveBack
<1>5. ASSUME NEW h \in Handlers, ApplyPayment(h)
      PROVE  Ledger!Credit(txn[h].pay) /\ txn[h].pay \in Payments
  <2>1. /\ txn[h].pay \in Payments
        /\ ~payment[txn[h].pay].applied
        /\ provider[txn[h].pay] \in PaidFor
    BY <1>5, <1>typed DEF ApplyPayment, LedgerInv, ApplierIsAlone, ToldTheTruth, OnPayment
  <2>2. paidEvents[txn[h].pay] = 0
    BY <2>1 DEF LedgerInv, AppliedExactlyOnce
  <2>3. paidEvents' = [paidEvents EXCEPT ![txn[h].pay] = 1]
    BY <1>5, <2>2 DEF ApplyPayment
  <2>4. Money[txn[h].pay] # "unpaid"
    BY <2>1 DEF Money, PaidFor
  <2>5. UNCHANGED Money
    BY <1>5 DEF ApplyPayment, Money
  <2> QED
    BY <2>1, <2>2, <2>3, <2>4, <2>5 DEF Ledger!Credit
<1>6. ASSUME NEW h \in Handlers, NEW p \in Payments,
             WebhookLoadsPayment(h, p) \/ PollLoadsPayment(h, p) \/ ApplyRefund(h, p)
      PROVE  UNCHANGED Ledger!ledgerVars
  BY <1>6, LedgerStutters DEF WebhookLoadsPayment, PollLoadsPayment, ApplyRefund
<1>7. ASSUME NEW h \in Handlers,
             \/ CommitCheckout(h) \/ ProviderAnswers(h) \/ FlushPayload(h)
             \/ MarkPaymentCanceled(h) \/ NothingToApply(h) \/ AlreadyApplied(h)
             \/ KeepForDeletedOrg(h) \/ LockSubscription(h) \/ Manual(h) \/ Dies(h)
      PROVE  UNCHANGED Ledger!ledgerVars
  <2>1. UNCHANGED <<provider, paidEvents>>
    BY <1>7 DEF CommitCheckout, ProviderAnswers, FlushPayload, MarkPaymentCanceled,
       NothingToApply, AlreadyApplied, KeepForDeletedOrg, LockSubscription, Manual,
       LoadSubscription, ExtendSubscription, PatchSubscription, NotifySubscriptionStatus,
       WriteSubscription, Dies
  <2> QED BY <2>1, LedgerStutters
<1>8. CASE DeleteOrganization \/ Tick \/ UNCHANGED vars
  BY <1>8, LedgerStutters DEF DeleteOrganization, Tick, vars
<1> QED
  BY <1>1, <1>2, <1>3, <1>4, <1>5, <1>6, <1>7, <1>8
     DEF Next, HandlerStep, ProviderStep, Reconcile, Ledger!Next

\* Billing implements the ledger: a payment is credited at most once, and only
\* one whose money the provider has taken.
THEOREM ImplementsLedger == Spec => RefinesLedger
<1>1. Init => Ledger!Init
  BY DEF Init, Ledger!Init, Money
<1>2. TypeInv /\ LedgerInv /\ [Next]_vars => [Ledger!Next]_(Ledger!ledgerVars)
  BY StepImplementsLedger
<1> QED
  BY <1>1, <1>2, InvariantHolds, PTL DEF Spec, RefinesLedger, Ledger!Spec

(***************************************************************************)
(* The period                                                              *)
(***************************************************************************)

\* An online extension starts from the committed period: the row that the holder
\* of the lock changes is the row of the table.
THEOREM CreditsCommittedPeriod == Spec => CreditedFromCommittedPeriod
<1> DEFINE Credited ==
      \A p \in Payments :
        (~payment[p].applied /\ payment'[p].applied /\ payment[p].order.kind = "extend") =>
            sub'.periodEnd = ExtensionBase(sub, now) + payment[p].order.months * Month
<1>1. ASSUME TypeInv, LedgerInv, [Next]_vars PROVE Credited
  <2> SUFFICES ASSUME NEW p \in Payments, ~payment[p].applied, payment'[p].applied,
                      payment[p].order.kind = "extend"
               PROVE  sub'.periodEnd = ExtensionBase(sub, now) + payment[p].order.months * Month
    OBVIOUS
  <2>typed. /\ TypeOK
            /\ \A h \in Handlers : txn[h].at \in OnPayment => txn[h].pay \in Payments
    BY <1>1 DEF TypeInv, Prepared
  <2>1. PICK h \in Handlers : ApplyPayment(h)
    <3>1. ASSUME NEW h \in Handlers, CommitCheckout(h) PROVE FALSE
      BY <2>typed, <3>1 DEF CommitCheckout, TypeOK, OnPayment
    <3>2. ASSUME NEW h \in Handlers, MarkPaymentCanceled(h) \/ KeepForDeletedOrg(h) PROVE FALSE
      BY <2>typed, <3>2 DEF MarkPaymentCanceled, KeepForDeletedOrg, TypeOK, PaymentRow, OnPayment
    <3>3. ASSUME NEW h \in Handlers, NEW q \in Payments, ApplyRefund(h, q) PROVE FALSE
      BY <2>typed, <3>3 DEF ApplyRefund, TypeOK, PaymentRow
    <3>4. payment' # payment
      OBVIOUS
    <3> QED
      BY <1>1, <3>1, <3>2, <3>3, <3>4 DEF Next, HandlerStep, ProviderStep, Reconcile, Manual, vars,
         CreateCheckout, CustomerPays, ProviderCancels, ProviderRefunds, WebhookLoadsPayment,
         PollLoadsPayment, ProviderAnswers, FlushPayload, NothingToApply, AlreadyApplied,
         LockSubscription, LoadSubscription, ExtendSubscription, PatchSubscription,
         NotifySubscriptionStatus, WriteSubscription, Dies, DeleteOrganization, Tick
  <2>2. txn[h].pay = p /\ txn[h].row = sub
    BY <1>1, <2>typed, <2>1 DEF ApplyPayment, LedgerInv, ApplierIsAlone, TypeOK, OnPayment
  <2>3. sub \in SubscriptionRow
    BY <2>typed DEF TypeOK
  <2>4. sub' = Flushed(sub, sub, Extended(sub, payment[p].order.plan, payment[p].order.months, now))
    BY <2>1, <2>2 DEF ApplyPayment, Applied
  <2>5. sub'.periodEnd
          = Extended(sub, payment[p].order.plan, payment[p].order.months, now).periodEnd
    BY <2>3, <2>4 DEF Flushed, SubscriptionRow
  <2> QED
    BY <2>3, <2>5 DEF Extended, SubscriptionRow
<1>2. TypeInv /\ LedgerInv /\ [Next]_vars => [Credited]_vars
  BY <1>1
<1> QED
  BY <1>2, InvariantHolds, PTL DEF Spec, CreditedFromCommittedPeriod

(***************************************************************************)
(* The date a stored status is measured against.  No operation clears a    *)
(* date, so the copy a handler works on has no date the table lacks.       *)
(***************************************************************************)

\* The later row has every date the earlier one has.
KeepsDates(earlier, later) ==
    /\ earlier.trialEnd # None => later.trialEnd # None
    /\ earlier.periodEnd # None => later.periodEnd # None

DateInv ==
    /\ HasItsDate(sub)
    /\ \A h \in Handlers : txn[h].at \in OnSubscription =>
        HasItsDate(txn[h].row) /\ KeepsDates(txn[h].row, sub)

\* A change made on a stale copy leaves the status with its date, and no row
\* behind, if the change itself does.
LEMMA FlushedHasItsDate ==
    ASSUME NEW current \in SubscriptionRow, NEW loaded \in SubscriptionRow,
           NEW new \in SubscriptionRow,
           HasItsDate(current), HasItsDate(new), KeepsDates(loaded, current), KeepsDates(loaded, new)
    PROVE  /\ HasItsDate(Flushed(current, loaded, new))
           /\ KeepsDates(current, Flushed(current, loaded, new))
<1>1. /\ Flushed(current, loaded, new).status
             = IF new.status = loaded.status THEN current.status ELSE new.status
      /\ Flushed(current, loaded, new).trialEnd
             = IF new.trialEnd = loaded.trialEnd THEN current.trialEnd ELSE new.trialEnd
      /\ Flushed(current, loaded, new).periodEnd
             = IF new.periodEnd = loaded.periodEnd THEN current.periodEnd ELSE new.periodEnd
  BY DEF Flushed, SubscriptionRow
<1> QED BY <1>1 DEF HasItsDate, KeepsDates

\* An extension keeps the trial's date and sets a period.
LEMMA ExtendedHasItsDate ==
    ASSUME NEW row \in SubscriptionRow, NEW plan, NEW months \in Nat \ {0}, NEW t \in Nat
    PROVE  /\ HasItsDate(Extended(row, plan, months, t))
           /\ KeepsDates(row, Extended(row, plan, months, t))
<1>1. ExtensionBase(row, t) + months * Month \in Int
  BY ExtensionBaseIsDay, MonthAssumption
<1> QED BY <1>1, NoneAssumption DEF Extended, HasItsDate, KeepsDates, SubscriptionRow

\* Every step keeps the dates, of the table and of the copies handlers hold.
LEMMA DateInvNext == TypeInv /\ DateInv /\ [Next]_vars => DateInv'
<1> SUFFICES ASSUME TypeInv, DateInv, [Next]_vars PROVE DateInv'
  OBVIOUS
<1>typed. /\ TypeOK
          /\ now \in Nat /\ \A h \in Handlers : txn[h].since \in Nat
          /\ \A h \in Handlers : txn[h].at \in OnSubscription => txn[h].row \in SubscriptionRow
  BY WindowAssumption DEF TypeInv, TypeOK, Prepared, HandlerState
<1>1. ASSUME NEW h \in Handlers, NEW new \in SubscriptionRow, txn[h].at \in OnSubscription,
             sub' = Flushed(sub, txn[h].row, new), Ends(h),
             HasItsDate(new), KeepsDates(txn[h].row, new)
      PROVE  DateInv'
  <2>1. HasItsDate(sub') /\ KeepsDates(sub, sub')
    BY <1>1, <1>typed, FlushedHasItsDate DEF DateInv, TypeOK
  <2>2. txn'[h].at = "idle" /\ \A g \in Handlers \ {h} : txn'[g] = txn[g]
    BY <1>1, EndsIdle
  <2> QED
    BY <2>1, <2>2 DEF DateInv, HasItsDate, KeepsDates, OnSubscription
<1>2. ASSUME NEW h \in Handlers, ApplyPayment(h)
      PROVE  DateInv'
  <2> DEFINE order == payment[txn[h].pay].order
             new == Applied(txn[h].row, order)
  <2>1. /\ order \in Orders /\ txn[h].at \in OnSubscription
        /\ txn[h].row \in SubscriptionRow /\ HasItsDate(txn[h].row)
    BY <1>2, <1>typed
       DEF ApplyPayment, TypeInv, Prepared, CommittedHasOrder, DateInv, OnPayment, OnSubscription
  <2>2. new \in SubscriptionRow
    BY <1>typed, <2>1, AppliedIsRow
  <2>3. HasItsDate(new) /\ KeepsDates(txn[h].row, new)
    <3>1. CASE order.kind = "extend"
      BY <1>typed, <2>1, <3>1, ExtendedHasItsDate DEF Applied, Orders
    <3>2. CASE order.kind # "extend"
      BY <2>1, <3>2 DEF Applied, HasItsDate, KeepsDates, SubscriptionRow
    <3> QED BY <3>1, <3>2
  <2>4. sub' = Flushed(sub, txn[h].row, new) /\ Ends(h)
    BY <1>2 DEF ApplyPayment
  <2> HIDE DEF new
  <2> QED BY <1>1, <2>1, <2>2, <2>3, <2>4
<1>3. ASSUME NEW h \in Handlers, ExtendSubscription(h)
      PROVE  DateInv'
  <2>1. PICK months \in ExtendMonths, plan \in PlansOnSale \cup {txn[h].row.plan} :
          WriteSubscription(h, Extended(txn[h].row, plan, months, txn[h].since))
    BY <1>3 DEF ExtendSubscription
  <2>2. txn[h].at \in OnSubscription /\ txn[h].row \in SubscriptionRow
    BY <1>3, <1>typed DEF ExtendSubscription, OnSubscription
  <2>3. plan \in Plans /\ months \in Nat \ {0}
    BY <2>2, PlansAssumption, PeriodsAssumption DEF SubscriptionRow
  <2> QED
    BY <1>1, <1>typed, <2>1, <2>2, <2>3, ExtendedIsRow, ExtendedHasItsDate DEF WriteSubscription
<1>4. ASSUME NEW h \in Handlers, PatchSubscription(h)
      PROVE  DateInv'
  <2>1. PICK body \in Patches : /\ HasItsDate(Patched(txn[h].row, body))
                                /\ WriteSubscription(h, Patched(txn[h].row, body))
    BY <1>4 DEF PatchSubscription
  <2>2. txn[h].at \in OnSubscription /\ txn[h].row \in SubscriptionRow
    BY <1>4, <1>typed DEF PatchSubscription, OnSubscription
  <2>3. KeepsDates(txn[h].row, Patched(txn[h].row, body))
    BY DEF KeepsDates, Patched, Given
  <2> QED
    BY <1>1, <2>1, <2>2, <2>3, PatchedIsRow DEF WriteSubscription
<1>5. ASSUME NEW h \in Handlers, NotifySubscriptionStatus(h)
      PROVE  DateInv'
  <2> DEFINE new == [txn[h].row EXCEPT !.notice = Notice(txn[h].row, txn[h].since)]
  <2>1. /\ txn[h].at \in OnSubscription /\ txn[h].row \in SubscriptionRow
        /\ HasItsDate(txn[h].row)
    BY <1>5, <1>typed DEF NotifySubscriptionStatus, DateInv, OnSubscription
  <2>2. new \in SubscriptionRow
    BY <1>typed, <2>1, NoticeIsNotice DEF SubscriptionRow
  <2>3. HasItsDate(new) /\ KeepsDates(txn[h].row, new)
    BY <2>1 DEF HasItsDate, KeepsDates, SubscriptionRow
  <2> QED
    BY <1>1, <1>5, <2>1, <2>2, <2>3 DEF NotifySubscriptionStatus, WriteSubscription
<1>6. ASSUME NEW h \in Handlers, UNCHANGED sub, \A g \in Handlers \ {h} : txn'[g] = txn[g],
             txn'[h].at \in OnSubscription => txn'[h] = txn[h] \/ txn'[h].row = sub
      PROVE  DateInv'
  BY <1>6 DEF DateInv, KeepsDates
<1>7. ASSUME NEW h \in Handlers, NEW p \in Payments,
             \/ CreateCheckout(h, p) \/ WebhookLoadsPayment(h, p)
             \/ PollLoadsPayment(h, p) \/ ApplyRefund(h, p)
      PROVE  DateInv'
  <2>1. CASE CreateCheckout(h, p)
    <3>1. /\ txn'[h].at = "created" /\ UNCHANGED sub
          /\ \A g \in Handlers \ {h} : txn'[g] = txn[g]
      BY <1>typed, <2>1 DEF CreateCheckout, TypeOK, Idle
    <3> QED BY <1>6, <3>1 DEF OnSubscription
  <2>2. CASE WebhookLoadsPayment(h, p) \/ PollLoadsPayment(h, p)
    <3>1. /\ txn'[h].at = "asks" /\ UNCHANGED sub
          /\ \A g \in Handlers \ {h} : txn'[g] = txn[g]
      BY <1>typed, <2>2, ZenonT(30) DEF WebhookLoadsPayment, PollLoadsPayment, TypeOK, Idle
    <3> QED BY <1>6, <3>1 DEF OnSubscription
  <2>3. CASE ApplyRefund(h, p)
    BY <1>6, <2>3 DEF ApplyRefund
  <2> QED BY <1>7, <2>1, <2>2, <2>3
<1>8. ASSUME NEW h \in Handlers,
             \/ CommitCheckout(h) \/ MarkPaymentCanceled(h) \/ NothingToApply(h)
             \/ AlreadyApplied(h) \/ KeepForDeletedOrg(h) \/ Dies(h)
      PROVE  DateInv'
  <2>1. UNCHANGED sub /\ Ends(h)
    BY <1>8 DEF CommitCheckout, MarkPaymentCanceled, NothingToApply, AlreadyApplied,
       KeepForDeletedOrg, Dies
  <2> QED
    BY <1>6, <2>1, EndsIdle DEF OnSubscription
<1>9. ASSUME NEW h \in Handlers, ProviderAnswers(h) \/ FlushPayload(h)
      PROVE  DateInv'
  <2>1. /\ UNCHANGED sub /\ txn'[h].at \in {"answered", "locks"}
        /\ \A g \in Handlers \ {h} : txn'[g] = txn[g]
    BY <1>9, <1>typed DEF ProviderAnswers, FlushPayload, TypeOK, HandlerState
  <2> QED
    BY <1>6, <2>1 DEF OnSubscription
<1>10. ASSUME NEW h \in Handlers, NEW operation \in {"extend", "patch", "notify"},
              LockSubscription(h) \/ LoadSubscription(h, operation)
      PROVE  DateInv'
  <2>1. /\ UNCHANGED sub /\ txn'[h].row = sub
        /\ \A g \in Handlers \ {h} : txn'[g] = txn[g]
    <3>1. CASE LockSubscription(h)
      BY <1>typed, <3>1 DEF LockSubscription, TypeOK, HandlerState
    <3>2. CASE LoadSubscription(h, operation)
      BY <1>typed, <3>2 DEF LoadSubscription, TypeOK, Idle
    <3> QED BY <1>10, <3>1, <3>2
  <2> QED
    BY <1>6, <2>1
<1>11. CASE UNCHANGED <<sub, txn>>
  BY <1>11 DEF DateInv
<1> QED
  BY <1>2, <1>3, <1>4, <1>5, <1>7, <1>8, <1>9, <1>10, <1>11
     DEF Next, HandlerStep, ProviderStep, Reconcile, Manual, CustomerPays, ProviderCancels,
         ProviderRefunds, DeleteOrganization, Tick, vars

\* A stored status always has the date it is measured against.
THEOREM StatusKeepsItsDate == Spec => []StoredStatusHasItsDate
<1>1. Init => TypeInv /\ DateInv
  BY TypeInvInit, WindowAssumption, NoneAssumption
     DEF Init, DateInv, HasItsDate, Idle, OnSubscription
<1>2. TypeInv /\ DateInv /\ [Next]_vars => (TypeInv /\ DateInv)'
  BY TypeInvNext, DateInvNext
<1>3. DateInv => StoredStatusHasItsDate
  BY DEF DateInv, HasItsDate, StoredStatusHasItsDate
<1> QED BY <1>1, <1>2, <1>3, PTL DEF Spec

(***************************************************************************)
(* The period that the daily task and a patch leave alone                  *)
(***************************************************************************)

PatchPeriods == {body.periodEnd : body \in Patches} \ {None}

LEMMA FlushedPeriod ==
    ASSUME NEW current \in SubscriptionRow, NEW loaded, NEW new
    PROVE  Flushed(current, loaded, new).periodEnd =
             IF new.periodEnd = loaded.periodEnd THEN current.periodEnd ELSE new.periodEnd
BY DEF Flushed, SubscriptionRow

\* A patch names the period, or leaves it.
LEMMA PatchLeavesPeriod ==
    ASSUME TypeInv, NEW h \in Handlers, PatchSubscription(h)
    PROVE  sub'.periodEnd \in {sub.periodEnd} \cup PatchPeriods
<1>1. PICK body \in Patches : sub' = Flushed(sub, txn[h].row, Patched(txn[h].row, body))
  BY DEF PatchSubscription, WriteSubscription
<1> DEFINE new == Patched(txn[h].row, body)
<1>2. new.periodEnd = IF body.periodEnd = None THEN txn[h].row.periodEnd ELSE body.periodEnd
  BY DEF Patched, Given
<1>3. sub \in SubscriptionRow
  BY DEF TypeInv, TypeOK
<1> HIDE DEF new
<1>4. sub'.periodEnd = IF new.periodEnd = txn[h].row.periodEnd THEN sub.periodEnd ELSE new.periodEnd
  BY <1>1, <1>3, FlushedPeriod DEF new
<1> QED BY <1>2, <1>4 DEF PatchPeriods

\* The daily task writes the notice only.
LEMMA NotifyLeavesPeriod ==
    ASSUME TypeInv, NEW h \in Handlers, NotifySubscriptionStatus(h)
    PROVE  sub'.periodEnd = sub.periodEnd
<1> DEFINE new == [txn[h].row EXCEPT !.notice = Notice(txn[h].row, txn[h].since)]
<1>1. sub' = Flushed(sub, txn[h].row, new)
  BY DEF NotifySubscriptionStatus, WriteSubscription
<1>2. sub \in SubscriptionRow /\ txn[h].row \in SubscriptionRow
  BY DEF TypeInv, TypeOK, NotifySubscriptionStatus, Prepared, OnSubscription
<1>3. new.periodEnd = txn[h].row.periodEnd
  BY <1>2 DEF SubscriptionRow
<1> HIDE DEF new
<1> QED BY <1>1, <1>2, <1>3, FlushedPeriod

\* Whatever was committed since they read the row: the daily task, and a patch that
\* names no period, leave the period alone (tasks/subscriptions.py, the session's
\* column-wise UPDATE).
THEOREM StalePeriodStaysOut == Spec => StalePeriodIsNotWrittenBack
<1> DEFINE Leaves == \A h \in Handlers :
        (txn[h].at \in {"notify", "patch"} /\ txn'[h].at = "idle") =>
            sub'.periodEnd \in {sub.periodEnd} \cup PatchPeriods
<1>1. ASSUME TypeInv, [Next]_vars PROVE Leaves
  <2> SUFFICES ASSUME NEW h \in Handlers, txn[h].at \in {"notify", "patch"}, txn'[h].at = "idle",
                      sub' # sub
               PROVE  sub'.periodEnd \in {sub.periodEnd} \cup PatchPeriods
    OBVIOUS
  <2>1. PICK g \in Handlers : \/ ApplyPayment(g) \/ ExtendSubscription(g)
                              \/ PatchSubscription(g) \/ NotifySubscriptionStatus(g)
    BY <1>1, Zenon
       DEF Next, HandlerStep, ProviderStep, Reconcile, Manual, vars, CreateCheckout, CommitCheckout,
           CustomerPays, ProviderCancels, ProviderRefunds, WebhookLoadsPayment, PollLoadsPayment,
           ApplyRefund, ProviderAnswers, FlushPayload, MarkPaymentCanceled, NothingToApply,
           AlreadyApplied, KeepForDeletedOrg, LockSubscription, LoadSubscription, Dies,
           DeleteOrganization, Tick
  <2>2. g = h
    <3>1. Ends(g)
      BY <2>1 DEF ApplyPayment, ExtendSubscription, PatchSubscription, NotifySubscriptionStatus, WriteSubscription
    <3>2. \A k \in Handlers \ {g} : txn'[k] = txn[k]
      BY <1>1, <3>1, EndsIdle DEF TypeInv
    <3> QED BY <3>2
  <2>3. PatchSubscription(h) \/ NotifySubscriptionStatus(h)
    BY <2>1, <2>2 DEF ApplyPayment, ExtendSubscription
  <2> QED BY <1>1, <2>3, PatchLeavesPeriod, NotifyLeavesPeriod
<1>2. TypeInv /\ [Next]_vars => [Leaves]_vars
  BY <1>1
<1> QED BY <1>2, InvariantHolds, PTL DEF Spec, StalePeriodIsNotWrittenBack, PatchPeriods

(***************************************************************************)
(* The months that were paid for.  While nobody extends or patches the     *)
(* subscription by hand, only payments move its period, each from the      *)
(* period in the table; the daily task may run meanwhile.                  *)
(***************************************************************************)

OnlineOnly == {"extend", "patch"} \cap Operations = {}

MonthsInv ==
    /\ \A h \in Handlers : txn[h].at \notin {"extend", "patch"}
    /\ sub.trialEnd = TrialDays
    /\ IsFiniteSet(PaidExtensions)
    /\ PaidExtensions # {} => sub.periodEnd # None
    /\ sub.periodEnd # None => sub.periodEnd >= TrialDays + PaidMonths * Month

LEMMA MonthsInvInit == Init => MonthsInv
<1> SUFFICES ASSUME Init PROVE MonthsInv
  OBVIOUS
<1>1. PaidExtensions = {}
  BY DEF Init, PaidExtensions, NoPayment
<1>2. IsFiniteSet(PaidExtensions)
  BY <1>1, FS_EmptySet
<1> QED BY <1>1, <1>2 DEF Init, Idle, MonthsInv

\* What one payment adds is added to the sum.
LEMMA MonthsOfOneMore ==
    ASSUME NEW S, IsFiniteSet(S), NEW p, p \notin S,
           NEW F, \A q \in S \cup {p} : F[q] \in Nat
    PROVE  SumFunctionOnSet(F, S \cup {p}) = F[p] + SumFunctionOnSet(F, S)
           /\ SumFunctionOnSet(F, S) \in Int
<1>1. Ints(F, S) /\ Ints(F, S \cup {p})
  BY DEF Ints
<1> QED BY <1>1, SumOfMore, SumIsInt

PaidMonth == [p \in Payments |-> payment[p].order.months]

LEMMA PaidMonthsAreASum ==
    ASSUME TypeInv, IsFiniteSet(PaidExtensions), RowsAreKnown
    PROVE  /\ \A p \in PaidExtensions : PaidMonth[p] \in Nat
           /\ PaidMonths = SumFunctionOnSet(PaidMonth, PaidExtensions)
           /\ PaidMonths \in Int
<1> DEFINE F == [p \in PaidExtensions |-> payment[p].order.months]
<1>1. \A p \in PaidExtensions : PaidMonth[p] \in Nat /\ F[p] = PaidMonth[p]
  BY DEF TypeInv, CommittedHasOrder, RowsAreKnown, PaidExtensions, PaidMonth, Orders
<1>2. PaidMonths = SumFunctionOnSet(F, PaidExtensions)
  BY Zenon DEF PaidMonths, SumFunction
<1>3. Ints(PaidMonth, PaidExtensions)
  BY <1>1 DEF Ints
<1> HIDE DEF F
<1>4. SumFunctionOnSet(F, PaidExtensions) = SumFunctionOnSet(PaidMonth, PaidExtensions)
  BY <1>1, <1>3, SumOfSame
<1> QED BY <1>1, <1>2, <1>3, <1>4, SumIsInt

\* Rows that keep what was applied keep the months.
LEMMA SameMonths ==
    ASSUME \A p \in Payments : /\ payment'[p].applied = payment[p].applied
                               /\ payment[p].applied => payment'[p].order = payment[p].order
    PROVE  PaidExtensions' = PaidExtensions /\ PaidMonths' = PaidMonths
<1>1. PaidExtensions' = PaidExtensions
  BY DEF PaidExtensions
<1>2. \A p \in PaidExtensions : payment'[p].order = payment[p].order
  BY DEF PaidExtensions
<1>3. [p \in PaidExtensions' |-> payment'[p].order.months]
        = [p \in PaidExtensions |-> payment[p].order.months]
  BY <1>1, <1>2
<1> QED BY <1>1, <1>3 DEF PaidMonths

\* An applied payment moves the period by its months.
LEMMA ApplyKeepsMonths ==
    ASSUME TypeInv, LedgerInv, MonthsInv, (TypeInv /\ LedgerInv)', NEW h \in Handlers, ApplyPayment(h)
    PROVE  MonthsInv'
<1> DEFINE p == txn[h].pay
           order == payment[p].order
<1>1. /\ p \in Payments /\ order \in Orders /\ now \in Nat
      /\ ~payment[p].applied /\ txn[h].row = sub /\ sub \in SubscriptionRow
  BY DEF ApplyPayment, LedgerInv, ApplierIsAlone, TypeInv, TypeOK, Prepared, OnPayment, CommittedHasOrder
<1>2. \A g \in Handlers : txn'[g].at \notin {"extend", "patch"}
  <2>1. txn'[h].at = "idle" /\ \A g \in Handlers \ {h} : txn'[g] = txn[g]
    BY EndsIdle DEF ApplyPayment
  <2> QED BY <2>1 DEF MonthsInv
<1>3. /\ payment'[p].applied /\ payment'[p].order = order
      /\ \A q \in Payments \ {p} : payment'[q] = payment[q]
  BY <1>1 DEF ApplyPayment, TypeInv, TypeOK, PaymentRow
<1>4. sub' = Flushed(sub, sub, Applied(sub, order))
  BY <1>1 DEF ApplyPayment
<1> HIDE DEF p, order
<1>5. CASE order.kind # "extend"
  <2>1. PaidExtensions' = PaidExtensions
    BY <1>1, <1>3, <1>5 DEF PaidExtensions, order
  <2>2. \A q \in PaidExtensions : payment'[q].order = payment[q].order
    BY <1>3 DEF PaidExtensions, order
  <2>3. PaidMonths' = PaidMonths
    <3>1. [q \in PaidExtensions' |-> payment'[q].order.months]
            = [q \in PaidExtensions |-> payment[q].order.months]
      BY <2>1, <2>2
    <3> QED BY <3>1 DEF PaidMonths
  <2>4. sub'.trialEnd = sub.trialEnd /\ sub'.periodEnd = sub.periodEnd
    BY <1>1, <1>4, <1>5 DEF Applied, Flushed, SubscriptionRow
  <2> QED BY <1>2, <2>1, <2>3, <2>4 DEF MonthsInv
<1>6. CASE order.kind = "extend"
  <2> DEFINE end == ExtensionBase(sub, now) + order.months * Month
  <2>1. sub'.trialEnd = sub.trialEnd /\ sub'.periodEnd = end
    BY <1>1, <1>4, <1>6 DEF Applied, Extended, Flushed, SubscriptionRow
  <2>2. PaidExtensions' = PaidExtensions \cup {p} /\ p \notin PaidExtensions
    BY <1>1, <1>3, <1>6 DEF PaidExtensions, order
  <2>3. IsFiniteSet(PaidExtensions) /\ IsFiniteSet(PaidExtensions')
    BY <2>2, FS_AddElement DEF MonthsInv
  <2>4. /\ \A q \in PaidExtensions : PaidMonth[q] \in Nat
        /\ PaidMonths = SumFunctionOnSet(PaidMonth, PaidExtensions)
        /\ PaidMonths \in Int
    BY <2>3, PaidMonthsAreASum DEF LedgerInv
  <2> DEFINE F == [q \in PaidExtensions' |-> payment'[q].order.months]
  <2>5. PaidMonths' = SumFunctionOnSet(F, PaidExtensions')
    BY Zenon DEF PaidMonths, SumFunction
  <2>6. PaidMonths' = order.months + PaidMonths
    <3>1. \A q \in PaidExtensions \cup {p} : F[q] = PaidMonth[q]
      BY <1>1, <1>3, <2>2 DEF PaidMonth, PaidExtensions, order
    <3> HIDE DEF F
    <3>2. PaidMonth[p] = order.months /\ order.months \in Nat
      BY <1>1 DEF PaidMonth, order, Orders
    <3>3. Ints(PaidMonth, PaidExtensions \cup {p})
      BY <2>4, <3>2 DEF Ints
    <3>4. SumFunctionOnSet(F, PaidExtensions \cup {p})
            = SumFunctionOnSet(PaidMonth, PaidExtensions \cup {p})
      <4>1. IsFiniteSet(PaidExtensions \cup {p})
        BY <2>2, <2>3
      <4> QED BY <3>1, <3>3, <4>1, SumOfSame
    <3>5. SumFunctionOnSet(PaidMonth, PaidExtensions \cup {p})
            = PaidMonth[p] + SumFunctionOnSet(PaidMonth, PaidExtensions)
      BY <2>2, <2>3, <2>4, <3>2, MonthsOfOneMore
    <3>6. SumFunctionOnSet(F, PaidExtensions')
            = SumFunctionOnSet(F, PaidExtensions \cup {p})
      BY <2>2
    <3> QED BY <2>4, <2>5, <3>2, <3>4, <3>5, <3>6
  <2>7. end >= TrialDays + PaidMonths' * Month /\ end # None
    <3>1. order.months \in Nat /\ Month \in Nat /\ TrialDays \in Nat /\ PaidMonths \in Int
      BY <1>1, <2>4, MonthAssumption, WindowAssumption DEF Orders
    <3>2. (order.months + PaidMonths) * Month = order.months * Month + PaidMonths * Month
      BY <3>1
    <3>3. /\ ExtensionBase(sub, now) \in Nat
          /\ ExtensionBase(sub, now) >= TrialDays + PaidMonths * Month
      <4>1. CASE sub.periodEnd # None
        <5>1. sub.periodEnd \in Nat /\ sub.periodEnd >= TrialDays + PaidMonths * Month
          BY <1>1, <4>1 DEF MonthsInv, SubscriptionRow, OrNull
        <5>2. PaidMonths * Month \in Int
          BY <3>1
        <5> QED BY <1>1, <3>1, <4>1, <5>1, <5>2 DEF ExtensionBase, Later
      <4>2. CASE sub.periodEnd = None
        <5>1. PaidExtensions = {} /\ sub.trialEnd = TrialDays
          BY <4>2 DEF MonthsInv
        <5>2. PaidMonths = 0
          BY <2>4, <5>1, SumOfNothing
        <5> QED BY <1>1, <3>1, <4>2, <5>1, <5>2, NoneAssumption DEF ExtensionBase, Later
      <4> QED BY <4>1, <4>2
    <3>4. order.months * Month \in Nat /\ PaidMonths * Month \in Int
      BY <3>1
    <3>5. end \in Nat
      BY <3>3, <3>4
    <3>6. PaidMonths' * Month = order.months * Month + PaidMonths * Month
      BY <2>6, <3>2
    <3> DEFINE a == order.months * Month
               b == PaidMonths * Month
    <3> HIDE DEF a, b
    <3>7. end >= TrialDays + (a + b)
      BY <3>1, <3>3, <3>4 DEF a, b
    <3> QED BY <3>5, <3>6, <3>7, NoneAssumption DEF a, b
  <2> HIDE DEF end
  <2> QED BY <1>2, <2>1, <2>2, <2>3, <2>7 DEF MonthsInv
<1> QED BY <1>5, <1>6

LEMMA MonthsInvNext ==
    ASSUME OnlineOnly, TypeInv, LedgerInv, MonthsInv, (TypeInv /\ LedgerInv)', [Next]_vars
    PROVE  MonthsInv'
<1>typed. /\ TypeOK
          /\ \A h \in Handlers : txn[h].at \in OnPayment => txn[h].pay \in Payments
  BY DEF TypeInv, Prepared
<1>1. ASSUME \A h \in Handlers : txn'[h].at \notin {"extend", "patch"},
             sub'.trialEnd = sub.trialEnd, sub'.periodEnd = sub.periodEnd,
             \A p \in Payments : /\ payment'[p].applied = payment[p].applied
                                 /\ payment[p].applied => payment'[p].order = payment[p].order
      PROVE  MonthsInv'
  BY <1>1, SameMonths DEF MonthsInv
<1>2. ASSUME NEW h \in Handlers, Ends(h)
      PROVE  \A g \in Handlers : txn'[g].at \notin {"extend", "patch"}
  <2>1. txn'[h].at = "idle" /\ \A g \in Handlers \ {h} : txn'[g] = txn[g]
    BY <1>2, EndsIdle
  <2> QED BY <2>1 DEF MonthsInv
<1>3. ASSUME NEW h \in Handlers, CommitCheckout(h) PROVE MonthsInv'
  <2>1. /\ txn[h].pay \in Payments /\ ~payment[txn[h].pay].applied
        /\ payment[txn[h].pay].status = "none"
    BY <1>3, <1>typed DEF CommitCheckout, LedgerInv, OneCreator, RowsAreKnown, OnPayment
  <2>2. \A p \in Payments : /\ payment'[p].applied = payment[p].applied
                            /\ payment[p].applied => payment'[p].order = payment[p].order
    BY <1>3, <1>typed, <2>1 DEF CommitCheckout, TypeOK, PaymentRow
  <2> QED BY <1>1, <1>2, <1>3, <2>2 DEF CommitCheckout
<1>4. ASSUME NEW h \in Handlers, MarkPaymentCanceled(h) \/ KeepForDeletedOrg(h) PROVE MonthsInv'
  <2>1. txn[h].pay \in Payments
    BY <1>4, <1>typed DEF MarkPaymentCanceled, KeepForDeletedOrg, OnPayment
  <2>2. \A p \in Payments : /\ payment'[p].applied = payment[p].applied
                            /\ payment[p].applied => payment'[p].order = payment[p].order
    BY <1>4, <1>typed, <2>1 DEF MarkPaymentCanceled, KeepForDeletedOrg, TypeOK, PaymentRow
  <2> QED BY <1>1, <1>2, <1>4, <2>2 DEF MarkPaymentCanceled, KeepForDeletedOrg
<1>5. ASSUME NEW h \in Handlers, NEW p \in Payments, ApplyRefund(h, p) PROVE MonthsInv'
  <2>1. \A q \in Payments : /\ payment'[q].applied = payment[q].applied
                            /\ payment[q].applied => payment'[q].order = payment[q].order
    BY <1>5, <1>typed DEF ApplyRefund, TypeOK, PaymentRow
  <2> QED BY <1>1, <1>5, <2>1 DEF ApplyRefund, MonthsInv
<1>6. ASSUME NEW h \in Handlers, NotifySubscriptionStatus(h) PROVE MonthsInv'
  <2> DEFINE new == [txn[h].row EXCEPT !.notice = Notice(txn[h].row, txn[h].since)]
  <2>1. sub \in SubscriptionRow /\ txn[h].row \in SubscriptionRow
    BY <1>6 DEF TypeInv, TypeOK, NotifySubscriptionStatus, Prepared, OnSubscription
  <2>2. new.trialEnd = txn[h].row.trialEnd
    BY <2>1 DEF SubscriptionRow
  <2>3. sub' = Flushed(sub, txn[h].row, new)
    BY <1>6 DEF NotifySubscriptionStatus, WriteSubscription
  <2> HIDE DEF new
  <2>4. sub'.trialEnd = sub.trialEnd
    BY <2>1, <2>2, <2>3 DEF Flushed, SubscriptionRow
  <2>5. Ends(h) /\ UNCHANGED payment
    BY <1>6 DEF NotifySubscriptionStatus, WriteSubscription
  <2>6. \A g \in Handlers : txn'[g].at \notin {"extend", "patch"}
    BY <1>2, <2>5
  <2>7. sub'.periodEnd = sub.periodEnd
    BY <1>6, NotifyLeavesPeriod
  <2> QED BY <1>1, <2>4, <2>5, <2>6, <2>7
<1>7. ASSUME NEW h \in Handlers, NEW operation \in {"extend", "patch", "notify"},
             LoadSubscription(h, operation)
      PROVE  MonthsInv'
  <2>1. operation = "notify"
    BY <1>7 DEF LoadSubscription, Starts, OnlineOnly
  <2>2. txn'[h].at = operation /\ \A g \in Handlers \ {h} : txn'[g] = txn[g]
    BY <1>7, <1>typed DEF LoadSubscription, TypeOK, Idle
  <2>3. \A g \in Handlers : txn'[g].at \notin {"extend", "patch"}
    BY <2>1, <2>2 DEF MonthsInv
  <2> QED BY <1>1, <1>7, <2>3 DEF LoadSubscription
<1>8. ASSUME NEW h \in Handlers, NEW p \in Payments,
             CreateCheckout(h, p) \/ WebhookLoadsPayment(h, p) \/ PollLoadsPayment(h, p)
      PROVE  MonthsInv'
  <2>1. /\ txn'[h].at \in {"created", "asks"} /\ \A g \in Handlers \ {h} : txn'[g] = txn[g]
    <3>1. ASSUME CreateCheckout(h, p)
          PROVE  txn'[h].at = "created" /\ \A g \in Handlers \ {h} : txn'[g] = txn[g]
      BY <1>typed, <3>1 DEF CreateCheckout, TypeOK, Idle
    <3>2. ASSUME WebhookLoadsPayment(h, p) \/ PollLoadsPayment(h, p)
          PROVE  txn'[h].at = "asks" /\ \A g \in Handlers \ {h} : txn'[g] = txn[g]
      BY <1>typed, <3>2 DEF WebhookLoadsPayment, PollLoadsPayment, TypeOK, Idle
    <3> QED BY <1>8, <3>1, <3>2
  <2>2. \A g \in Handlers : txn'[g].at \notin {"extend", "patch"}
    BY <2>1 DEF MonthsInv
  <2> QED BY <1>1, <1>8, <2>2 DEF CreateCheckout, WebhookLoadsPayment, PollLoadsPayment
<1>9. ASSUME NEW h \in Handlers, ProviderAnswers(h) \/ FlushPayload(h) \/ LockSubscription(h)
      PROVE  MonthsInv'
  <2>1. /\ txn'[h].at \in {"answered", "locks", "applies"}
        /\ \A g \in Handlers \ {h} : txn'[g] = txn[g]
    BY <1>9, <1>typed DEF ProviderAnswers, FlushPayload, LockSubscription, TypeOK, HandlerState
  <2>2. \A g \in Handlers : txn'[g].at \notin {"extend", "patch"}
    BY <2>1 DEF MonthsInv
  <2> QED BY <1>1, <1>9, <2>2 DEF ProviderAnswers, FlushPayload, LockSubscription
<1>10. ASSUME NEW h \in Handlers, NothingToApply(h) \/ AlreadyApplied(h) \/ Dies(h) PROVE MonthsInv'
  BY <1>1, <1>2, <1>10 DEF NothingToApply, AlreadyApplied, Dies
<1>11. ASSUME NEW h \in Handlers, ExtendSubscription(h) \/ PatchSubscription(h) PROVE FALSE
  BY <1>11 DEF ExtendSubscription, PatchSubscription, MonthsInv
<1>12. ASSUME NEW p \in Payments, ProviderStep(p) PROVE MonthsInv'
  BY <1>1, <1>12 DEF ProviderStep, CustomerPays, ProviderCancels, ProviderRefunds, MonthsInv
<1>13. CASE DeleteOrganization \/ Tick \/ UNCHANGED vars
  BY <1>1, <1>13 DEF DeleteOrganization, Tick, vars, MonthsInv
<1> QED
  BY ApplyKeepsMonths, <1>3, <1>4, <1>5, <1>6, <1>7, <1>8, <1>9, <1>10, <1>11, <1>12, <1>13
     DEF Next, HandlerStep, Reconcile, Manual

\* While nobody extends or patches the subscription by hand, its period covers the
\* trial and every month paid for online, however many payments are applied at once
\* (apply_payment locks the subscription row before it reads the period).
THEOREM PaidMonthsCount ==
    ASSUME {"extend", "patch"} \cap Operations = {}
    PROVE  Spec => []EveryPaidMonthCounts
<1>1. Init => MonthsInv
  BY MonthsInvInit
<1>2. TypeInv /\ LedgerInv /\ MonthsInv /\ (TypeInv /\ LedgerInv)' /\ [Next]_vars => MonthsInv'
  BY MonthsInvNext DEF OnlineOnly
<1>3. TypeInv /\ LedgerInv /\ MonthsInv => EveryPaidMonthCounts
  <2> SUFFICES ASSUME TypeInv, LedgerInv, MonthsInv, PaidMonths > 0 PROVE EveryPaidMonthCounts
    BY DEF EveryPaidMonthCounts
  <2>1. PaidMonths = SumFunctionOnSet(PaidMonth, PaidExtensions)
    BY PaidMonthsAreASum DEF LedgerInv, MonthsInv
  <2>2. PaidExtensions # {}
    BY <2>1, SumOfNothing
  <2> QED BY <2>2 DEF MonthsInv, EveryPaidMonthCounts
<1> QED BY <1>1, <1>2, <1>3, InvariantHolds, PTL DEF Spec

==============================================================================
