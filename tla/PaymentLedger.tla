---------------------------- MODULE PaymentLedger ----------------------------
(***************************************************************************)
(* What online billing promises, whatever it does inside: money is taken   *)
(* by the provider and may be given back, and a payment is credited to the *)
(* subscription at most once and only after its money was taken.           *)
(***************************************************************************)
EXTENDS Naturals

CONSTANT Payments

VARIABLES money,     \* where the customer's money of a payment is
          credits    \* how often a payment was credited to the subscription

ledgerVars == <<money, credits>>

Init ==
    /\ money = [p \in Payments |-> "unpaid"]
    /\ credits = [p \in Payments |-> 0]

Take(p) ==
    /\ money[p] = "unpaid"
    /\ money' = [money EXCEPT ![p] = "taken"]
    /\ UNCHANGED credits

GiveBack(p) ==
    /\ money[p] = "taken"
    /\ money' = [money EXCEPT ![p] = "returned"]
    /\ UNCHANGED credits

Credit(p) ==
    /\ money[p] # "unpaid"
    /\ credits[p] = 0
    /\ credits' = [credits EXCEPT ![p] = 1]
    /\ UNCHANGED money

Next == \E p \in Payments : Take(p) \/ GiveBack(p) \/ Credit(p)

Spec == Init /\ [][Next]_ledgerVars

=============================================================================
