----------------------------- MODULE UnitOfWork -----------------------------
(***************************************************************************)
(* What a SQLAlchemy session does with a mapped row it has loaded: a flush *)
(* writes the columns whose value differs from the loaded one, whatever    *)
(* another transaction has committed since.                                *)
(***************************************************************************)

\* Mutant: an UPDATE writes the whole row back.
FlushedWhole(current, loaded, new) == new

\* An UPDATE of a mapped row writes the columns that differ from what was loaded.
Flushed(current, loaded, new) ==
    [c \in DOMAIN current |-> IF new[c] = loaded[c] THEN current[c] ELSE new[c]]

\* The same for one column.
Written(current, loaded, new) == IF new = loaded THEN current ELSE new

=============================================================================
