------------------------------ MODULE MCWindow ------------------------------
(***************************************************************************)
(* An instance of ScheduleWindow for TLC: days of four units, weeks of two *)
(* days, and a schedule by day or over midnight.                           *)
(***************************************************************************)
EXTENDS ScheduleWindow

ByDayOrNight == {<<1, 3>>, <<2, 1>>}

=============================================================================
