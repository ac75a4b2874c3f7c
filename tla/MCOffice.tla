------------------------------ MODULE MCOffice ------------------------------
(***************************************************************************)
(* An instance of Office for TLC: two requests at a time, days of four     *)
(* units and weeks of two days, a schedule by day and one over midnight,   *)
(* clocks that are set forward or back, and one employee's rules.          *)
(***************************************************************************)
EXTENDS Office, TLC

CONSTANTS h1, h2, q1, r1, l1, l2, s1, s2, f1, f2

ByDayOrNight == {<<1, 3>>, <<2, 1>>}

BackOrForward == {-1, 0, 1}

ByDistance == (l1 :> 1) @@ (l2 :> 2)

AllowedOrShared ==
    {[mine |-> "allow", role |-> None, allMembers |-> FALSE],
     [mine |-> None, role |-> "deny", allMembers |-> TRUE],
     [mine |-> None, role |-> None, allMembers |-> TRUE]}

=============================================================================
