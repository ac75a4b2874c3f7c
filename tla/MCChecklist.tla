---------------------------- MODULE MCChecklist ----------------------------
(***************************************************************************)
(* Instances of Checklist for TLC: the opening checklist has an item to    *)
(* sweep and one to count the till, which needs a photo; tidy belongs to   *)
(* an extra checklist.                                                     *)
(***************************************************************************)
EXTENDS Checklist, TLC

CONSTANTS h1, h2, opening, extra, sweep, till, tidy, p1, p2

InstanceOfItem == [x \in Items |-> IF x = tidy THEN extra ELSE opening]

NoPhotos == [x \in Items |-> "none"]

PolicyOfItem == [x \in Items |-> IF x = till THEN "required" ELSE IF x = tidy THEN "optional" ELSE "none"]

Symmetry == Permutations(Handlers)

=============================================================================
