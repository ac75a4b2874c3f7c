------------------------------ MODULE MCShift ------------------------------
(***************************************************************************)
(* Instances of Shift for TLC: a few ticks, a schedule that ends one tick  *)
(* after the start and a clock skew of one tick.                           *)
(***************************************************************************)
EXTENDS Shift, TLC

CONSTANTS h1, h2

NoneOrOne == {{}, {<<0, 1>>}}

Symmetry == Permutations(Handlers)

=============================================================================
