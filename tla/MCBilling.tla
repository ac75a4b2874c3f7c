----------------------------- MODULE MCBilling -----------------------------
(***************************************************************************)
(* Instances of Billing for TLC: a month of two days, one day of grace and *)
(* notices on the last two days.                                           *)
(***************************************************************************)
EXTENDS Billing, TLC

CONSTANTS h1, h2, p1, p2

Symmetry == Permutations(Handlers) \cup Permutations(Payments)

NoChange == [plan |-> None, status |-> None, trialEnd |-> None, periodEnd |-> None]

\* Cancel, make active again, or set the period of whatever state it is in.
SomePatches ==
    {[NoChange EXCEPT !.status = "canceled"],
     [NoChange EXCEPT !.status = "active"],
     [NoChange EXCEPT !.periodEnd = 1]}

=============================================================================
