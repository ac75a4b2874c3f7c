--------------------------- MODULE ScheduleWindow ---------------------------
(***************************************************************************)
(* A work schedule with its weekly rules and the planned window it gives   *)
(* to a shift: compute_scheduled_window_with_weekly_rules and the          *)
(* operations that pin a window, in services/work_schedule.py,             *)
(* services/shift.py and services/manual_shift.py.                         *)
(*                                                                         *)
(* Moments are those of UTC, in coarse units.  The clock of the            *)
(* organization is ahead of UTC by `gap` from the moment Transition on,    *)
(* so that a positive gap skips local times and a negative one repeats     *)
(* them; ZoneInfo reads either kind with the offset from before.           *)
(***************************************************************************)
EXTENDS Integers

CONSTANTS Day,          \* units of a day
          Week,         \* days after which the weekly rules repeat
          Times,        \* pairs <<start_time, end_time>> of a schedule or a rule
          Gaps,         \* changes of the offset to UTC
          Transition,   \* the moment of the change
          Early,        \* early_start_minutes
          LastMoment,   \* bound on time
          MaxEdits,     \* bound on the edits of the schedule and its rules
          None          \* no row, or a column that is NULL

\* What the code takes for granted about the constants: times are those of one day, no
\* change of the clocks is longer than a day, and early_start_minutes are 240 at most.
ClockAssumption ==
    /\ Day \in Nat \ {0} /\ Week \in Nat \ {0}
    /\ Times # {} /\ Times \subseteq (0 .. Day - 1) \X (0 .. Day - 1)
    /\ Gaps # {} /\ Gaps \subseteq -Day .. Day
    /\ Transition \in Int /\ Early \in 0 .. Day
    /\ LastMoment \in Nat /\ MaxEdits \in Nat
    /\ None \notin Int /\ None \notin [start : Int, end : Int]

VARIABLES now, gap, schedule, rules, shift, edits

windowVars == <<now, gap, schedule, rules, shift, edits>>

Weekdays == 0 .. Week - 1

\* The times of a row that is not enabled.
Disabled == <<>>

\* A weekday without a row, with a row that is disabled, or with its own times.
WeeklyRules == [Weekdays -> Times \cup {None, Disabled}]

(***************************************************************************)
(* The window                                                              *)
(***************************************************************************)

Later(a, b) == IF a < b THEN b ELSE a

Distance(a, b) == IF a < b THEN b - a ELSE a - b

\* A schedule that ends before it starts runs past midnight.
Duration(times) == IF times[2] > times[1] THEN times[2] - times[1] ELSE Day - (times[1] - times[2])

LocalDate(moment) == (IF moment < Transition THEN moment ELSE moment + gap) \div Day

ToUtc(local) == IF local < Transition + Later(gap, 0) THEN local ELSE local - gap

WindowAt(date, times) ==
    [start |-> ToUtc(date * Day + times[1]), end |-> ToUtc(date * Day + times[1] + Duration(times))]

Runs(date) == rules[date % Week] # Disabled

WeeklyWindowFor(date) == IF rules[date % Week] = None THEN schedule ELSE rules[date % Week]

\* Mutant: only the date of the start and the next ones are candidates.
NoEarlierDates == 0 .. 2

Offsets == -2 .. 2

Candidates(moment) ==
    {WindowAt(date, WeeklyWindowFor(date)) : date \in {d \in {LocalDate(moment) + o : o \in Offsets} : Runs(d)}}

Containing(windows, moment) == {w \in windows : w.start <= moment /\ moment <= w.end}

LastStarted(windows) == CHOOSE w \in windows : \A v \in windows : v.start <= w.start

\* Mutant: a window that is over may be the nearest.
AnyWindow(windows, moment) == windows

Future(windows, moment) == {w \in windows : w.end > moment}

Nearest(windows, moment) ==
    CHOOSE w \in windows : \A v \in windows : Distance(moment, w.start) <= Distance(moment, v.start)

\* The window that contains the moment, else the next one; None on a disabled day.
Window(moment) ==
    LET candidates == Candidates(moment)
        containing == Containing(candidates, moment)
        future     == Future(candidates, moment)
    IN  IF containing # {} THEN LastStarted(containing)
        ELSE IF ~Runs(LocalDate(moment)) \/ future = {} THEN None
        ELSE Nearest(future, moment)

\* compute_scheduled_window: the times of the schedule, on every date.
PlainWindow(moment) ==
    LET at(offset) == WindowAt(LocalDate(moment) + offset, schedule)
        candidates == {at(offset) : offset \in -1 .. 1}
        containing == Containing(candidates, moment)
        future     == Future(candidates, moment)
    IN  IF containing # {} THEN LastStarted(containing)
        ELSE Nearest(IF future # {} THEN future ELSE {at(2)}, moment)

IsScheduleStartable(window) == now >= window.start - Early

Startable == Window(now) # None /\ IsScheduleStartable(Window(now))

(***************************************************************************)
(* The operations                                                          *)
(***************************************************************************)

Init ==
    /\ now = 0
    /\ gap \in Gaps
    /\ schedule \in Times
    /\ rules = [d \in Weekdays |-> None]
    /\ shift = None
    /\ edits = 0

Tick ==
    /\ now < LastMoment
    /\ now' = now + 1
    /\ UNCHANGED <<gap, schedule, rules, shift, edits>>

UpdateSchedule(times) ==
    /\ edits < MaxEdits
    /\ schedule' = times
    /\ edits' = edits + 1
    /\ UNCHANGED <<now, gap, rules, shift>>

ReplaceWeeklyRules(new) ==
    /\ edits < MaxEdits
    /\ rules' = new
    /\ edits' = edits + 1
    /\ UNCHANGED <<now, gap, schedule, shift>>

\* The employee starts on the schedule while it is startable; outside of its window
\* the shift has no plan, where the settings let it start at all.
StartShift ==
    /\ shift = None
    /\ shift' = [started |-> now, finished |-> None,
                 plan |-> IF Startable THEN Window(now) ELSE None]
    /\ UNCHANGED <<now, gap, schedule, rules, edits>>

CreateManualShift(started, finished, plan) ==
    /\ shift = None
    /\ started < finished /\ finished <= now
    /\ shift' = [started |-> started, finished |-> finished, plan |-> plan]
    /\ UNCHANGED <<now, gap, schedule, rules, edits>>

\* The plan stays where it was; an end given to an open shift finishes it.
UpdateManualShift(started, finished) ==
    /\ shift # None
    /\ shift.finished # None => finished # None
    /\ finished # None => started < finished
    /\ shift' = [shift EXCEPT !.started = started, !.finished = finished]
    /\ UNCHANGED <<now, gap, schedule, rules, edits>>

ChangeShiftSchedule ==
    /\ shift # None
    /\ \/ shift' = [shift EXCEPT !.plan = None]
       \/ /\ Window(shift.started) # None
          /\ shift' = [shift EXCEPT !.plan = Window(shift.started)]
    /\ UNCHANGED <<now, gap, schedule, rules, edits>>

FinishShift ==
    /\ shift # None /\ shift.finished = None
    /\ shift' = [shift EXCEPT !.finished = now]
    /\ UNCHANGED <<now, gap, schedule, rules, edits>>

AutoFinishStaleShifts ==
    /\ shift # None /\ shift.finished = None
    /\ shift.plan # None /\ shift.plan.end <= now
    /\ shift' = [shift EXCEPT !.finished = shift.plan.end]
    /\ UNCHANGED <<now, gap, schedule, rules, edits>>

EditSchedule ==
    \/ \E times \in Times : UpdateSchedule(times)
    \/ \E new \in WeeklyRules : ReplaceWeeklyRules(new)

Next ==
    \/ Tick
    \/ EditSchedule
    \/ StartShift
    \/ \E started, finished \in 0 .. now :
        \/ \E plan \in {None, PlainWindow(started)} : CreateManualShift(started, finished, plan)
        \/ \E end \in {None, finished} : UpdateManualShift(started, end)
    \/ ChangeShiftSchedule
    \/ FinishShift
    \/ AutoFinishStaleShifts

Spec == Init /\ [][Next]_windowVars

(***************************************************************************)
(* Properties                                                              *)
(***************************************************************************)

\* Type invariant.
TypeOK ==
    /\ now \in 0 .. LastMoment /\ gap \in Gaps /\ edits \in 0 .. MaxEdits
    /\ schedule \in Times /\ rules \in WeeklyRules
    /\ shift # None =>
        /\ shift.started \in 0 .. now /\ shift.finished \in Int \cup {None}
        /\ shift.plan # None => {shift.plan.start, shift.plan.end} \subseteq Int

\* Whatever rules, change of the clocks and moment: the plan a shift is given does
\* not end before the shift started, so auto_finish_stale_shifts cannot give it an end
\* that lies before its start (is_schedule_startable takes this for granted).
PlanEndsAfterStart ==
    [][(shift' # None /\ shift'.plan # None /\ (shift # None => shift'.plan # shift.plan))
        => shift'.plan.end >= shift'.started]_windowVars

InWindow(w) == w.start <= now /\ now <= w.end

\* A window that lies in the hour the clocks skip can be over before it starts.
EarlyFor(w) == w.start - Early <= now /\ now < w.start /\ now < w.end

\* Nobody is turned away at work time: in a window of the rules, or early for it, the
\* schedule can be started; only the early ones of a window that begins after midnight
\* wait until the disabled day before it is over.
NobodyTurnedAway ==
    \A date \in -1 .. LastMoment \div Day + 1 :
        LET w == WindowAt(date, WeeklyWindowFor(date)) IN
        Runs(date) =>
            /\ InWindow(w) => Startable
            /\ EarlyFor(w) => Startable \/ ~Runs(LocalDate(now))

\* A shift created by hand with a schedule gets the plan that changing its schedule
\* to that one would give it (the docstring of _resolve_manual_schedule).
ManualPlanIsTheSame ==
    [][(shift = None /\ shift' # None /\ shift'.finished # None)
        => shift'.plan \in {None, Window(shift'.started)}]_windowVars

=============================================================================
