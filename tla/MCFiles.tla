------------------------------- MODULE MCFiles -------------------------------
(***************************************************************************)
(* An instance of Files for TLC: two requests at a time and two files.     *)
(***************************************************************************)
EXTENDS Files

CONSTANTS h1, h2, f1, f2

=============================================================================
