------------------------------- MODULE Shift -------------------------------
(***************************************************************************)
(* The shifts of one employee, personal and in one organization, with      *)
(* their pauses: services/shift.py, services/manual_shift.py,              *)
(* tasks/shifts.py and change_shift_schedule of services/work_schedule.py. *)
(*                                                                         *)
(* No request and no task locks a shift.  Each reads rows and later writes *)
(* the columns it changed (UnitOfWork), so a handler is two steps here: it *)
(* loads the tables, and it commits what it decided from what it loaded.   *)
(* Which operation it is shows when it commits.  Time is counted in ticks. *)
(***************************************************************************)
EXTENDS Integers, FiniteSets, FiniteSetsExt, Functions, UnitOfWork

CONSTANTS Handlers,     \* requests and tasks that may run at one time
          Operations,   \* the endpoints and tasks in use
          Contexts,     \* "personal" and "org"
          ShiftBound,   \* bound on the rows of shifts
          PauseBound,   \* bound on the rows of pauses
          LastTick,     \* bound on time
          PauseLists,   \* the sets of pauses <<start, end>> a request may carry
          Windows,      \* ticks from a shift's start to the end of its schedule
          Skew,         \* CLOCK_SKEW
          MaxDuration,  \* MAX_SHIFT_DURATION
          PauseLimit,   \* max_pauses_per_shift of the organization, or None
          MaxPause,     \* max_pause_minutes of the organization, or None
          AutoFinish,   \* auto_finish_by_schedule of the organization
          None          \* a column that is NULL

OrNull(S) == S \cup {None}

ASSUME BoundsAssumption == {ShiftBound, PauseBound, LastTick, Skew, MaxDuration} \subseteq Nat
ASSUME WindowsAssumption == Windows \subseteq Nat
ASSUME SettingsAssumption == {PauseLimit, MaxPause} \subseteq OrNull(Nat) /\ AutoFinish \in BOOLEAN
ASSUME PauseListsAssumption == \A list \in PauseLists : IsFiniteSet(list) /\ list \subseteq Nat \X Nat
ASSUME ContextsAssumption == Contexts \subseteq {"personal", "org"}
ASSUME NoneAssumption == None \notin Int \cup {"personal", "org", "active", "paused", "finished"}

Shifts == 1 .. ShiftBound
Pauses == 1 .. PauseBound
Ticks == 0 .. LastTick + Skew

VARIABLES now, shift, pause,
          txn    \* the tables as a handler loaded them, None when it is at rest

vars == <<now, shift, pause, txn>>

NoShift == [context |-> None, status |-> None, started |-> 0, finished |-> None,
            scheduledEnd |-> None, deleted |-> FALSE]
NoPause == [shift |-> None, started |-> 0, finished |-> None]

Init ==
    /\ now = 0
    /\ shift = [s \in Shifts |-> NoShift]
    /\ pause = [p \in Pauses |-> NoPause]
    /\ txn = [h \in Handlers |-> None]

(***************************************************************************)
(* Transactions                                                            *)
(***************************************************************************)

LoadTables(h) ==
    /\ txn[h] = None
    /\ txn' = [txn EXCEPT ![h] = [shifts |-> shift, pauses |-> pause, since |-> now]]
    /\ UNCHANGED <<now, shift, pause>>

\* h goes for this operation.
Runs(h, operation) == operation \in Operations /\ txn[h] # None

\* An error, a lost connection or a killed worker: nothing is committed.
Dies(h) ==
    /\ txn[h] # None
    /\ txn' = [txn EXCEPT ![h] = None]
    /\ UNCHANGED <<now, shift, pause>>

\* An UPDATE of a row somebody deleted fails the whole transaction.
Commits(h, shifts, pauses) ==
    LET seen == txn[h].pauses IN
    /\ \A p \in Pauses : (seen[p] # NoPause /\ pauses[p] # seen[p]) => pause[p] # NoPause
    /\ shift' = [s \in Shifts |-> Flushed(shift[s], txn[h].shifts[s], shifts[s])]
    /\ pause' = [p \in Pauses |-> IF pauses[p] = NoPause /\ seen[p] # NoPause THEN NoPause
                                  ELSE Flushed(pause[p], seen[p], pauses[p])]
    /\ txn' = [txn EXCEPT ![h] = None]
    /\ UNCHANGED now

\* Row s for the next INSERT, which nobody has used.
IsNew(s) == shift[s] = NoShift /\ \A r \in Shifts : shift[r] = NoShift => s <= r

Free(h) == {p \in Pauses : pause[p] = NoPause /\ txn[h].pauses[p] = NoPause}

\* Rows that are free take the pauses of the set intervals, one each.
Inserted(h, pauses, s, intervals) ==
    LET row == CHOOSE row \in Injection(intervals, Free(h)) : TRUE
    IN  [p \in Pauses |->
            IF \E i \in intervals : row[i] = p
            THEN LET i == CHOOSE i \in intervals : row[i] = p
                 IN  [shift |-> s, started |-> i[1], finished |-> i[2]]
            ELSE pauses[p]]

Given(value, column) == IF value = None THEN column ELSE value

(***************************************************************************)
(* Rows                                                                    *)
(***************************************************************************)

\* Mutant: a paused shift does not count as open.
ActiveOnly(row) == row.status = "active"

Open(row) == row.status \in {"active", "paused"}

PausesOf(pauses, s) == {p \in Pauses : pauses[p].shift = s}

\* Every open pause of the shifts in S ends at the time end[s] of its shift s.
PausesClosed(pauses, S, end) ==
    [p \in Pauses |-> IF pauses[p].shift \in S /\ pauses[p].finished = None
                      THEN [pauses[p] EXCEPT !.finished = end[pauses[p].shift]]
                      ELSE pauses[p]]

\* Mutant: the end is not written.
FinishedWithoutEnd(row, t) == [row EXCEPT !.status = "finished"]

Finished(row, t) == [row EXCEPT !.status = "finished", !.finished = t]

(***************************************************************************)
(* The end of the schedule: the task auto_finish_stale_shifts, and the     *)
(* same inline before a shift starts                                       *)
(***************************************************************************)

\* Mutant: the task picks active shifts only.
StaleActive(h) ==
    {s \in Shifts : LET row == txn[h].shifts[s] IN
        /\ AutoFinish
        /\ row.context = "org" /\ row.status = "active" /\ ~row.deleted
        /\ row.scheduledEnd # None /\ row.scheduledEnd <= txn[h].since}

Stale(h) ==
    {s \in Shifts : LET row == txn[h].shifts[s] IN
        /\ AutoFinish
        /\ row.context = "org" /\ Open(row) /\ ~row.deleted
        /\ row.scheduledEnd # None /\ row.scheduledEnd <= txn[h].since}

ShiftsCut(h) ==
    [s \in Shifts |-> LET row == txn[h].shifts[s] IN
        IF s \in Stale(h) THEN Finished(row, row.scheduledEnd) ELSE row]

PausesCut(h) ==
    PausesClosed(txn[h].pauses, Stale(h), [s \in Shifts |-> txn[h].shifts[s].scheduledEnd])

AutoFinishStaleShifts(h) ==
    /\ Runs(h, "autofinish")
    /\ Stale(h) # {}
    /\ Commits(h, ShiftsCut(h), PausesCut(h))

(***************************************************************************)
(* The employee                                                            *)
(***************************************************************************)

\* The window of a schedule contains the start or has yet to begin.
StartShift(h, context) ==
    /\ Runs(h, "start")
    /\ ~\E s \in Shifts \ Stale(h) :
          LET row == txn[h].shifts[s] IN row.context = context /\ Open(row) /\ ~row.deleted
    /\ \E s \in Shifts, window \in IF context = "org" THEN OrNull(Windows) ELSE {None} :
        /\ IsNew(s)
        /\ window # None => txn[h].since + window <= LastTick
        /\ Commits(h, [ShiftsCut(h) EXCEPT ![s] =
                        [context |-> context, status |-> "active", started |-> txn[h].since,
                         finished |-> None, deleted |-> FALSE,
                         scheduledEnd |-> IF window = None THEN None
                                          ELSE txn[h].since + window]],
                   PausesCut(h))

PauseShift(h, s) ==
    LET row == txn[h].shifts[s] IN
    /\ Runs(h, "pause")
    /\ row.status = "active" /\ ~row.deleted
    /\ (row.context = "org" /\ PauseLimit # None) =>
          Cardinality(PausesOf(txn[h].pauses, s)) < PauseLimit
    /\ ExistsInjection({<<now, None>>}, Free(h))
    /\ Commits(h, [txn[h].shifts EXCEPT ![s].status = "paused"],
                  Inserted(h, txn[h].pauses, s, {<<now, None>>}))

\* The first pause that is open, if any, ends.
ResumeShift(h, s) ==
    LET row  == txn[h].shifts[s]
        open == {p \in PausesOf(txn[h].pauses, s) : txn[h].pauses[p].finished = None}
    IN
    /\ Runs(h, "resume")
    /\ row.status = "paused" /\ ~row.deleted
    /\ \E ended \in IF open = {} THEN {{}} ELSE {{p} : p \in open} :
        Commits(h, [txn[h].shifts EXCEPT ![s].status = "active"],
                   [p \in Pauses |-> IF p \in ended THEN [txn[h].pauses[p] EXCEPT !.finished = now]
                                     ELSE txn[h].pauses[p]])

FinishShift(h, s) ==
    LET row == txn[h].shifts[s] IN
    /\ Runs(h, "finish")
    /\ Open(row) /\ ~row.deleted
    /\ Commits(h, [txn[h].shifts EXCEPT ![s] = Finished(row, now)],
                  PausesClosed(txn[h].pauses, {s}, [r \in Shifts |-> now]))

(***************************************************************************)
(* The task auto_finish_stale_pauses: one pause of every shift it finds    *)
(***************************************************************************)

\* Mutant: every open pause is taken for one that is too long.
OpenPauses(h) ==
    {p \in Pauses : LET brk == txn[h].pauses[p] IN
        /\ MaxPause # None
        /\ brk # NoPause /\ brk.finished = None
        /\ LET row == txn[h].shifts[brk.shift]
           IN  row.context = "org" /\ row.status = "paused" /\ ~row.deleted}

TooLong(h) ==
    {p \in Pauses : LET brk == txn[h].pauses[p] IN
        /\ MaxPause # None
        /\ brk # NoPause /\ brk.finished = None
        /\ LET row == txn[h].shifts[brk.shift]
           IN  row.context = "org" /\ row.status = "paused" /\ ~row.deleted
        /\ txn[h].since - brk.started > MaxPause}

AutoFinishStalePauses(h) ==
    /\ Runs(h, "autoresume")
    /\ TooLong(h) # {}
    /\ \E ended \in SUBSET TooLong(h) :
        /\ \A p \in TooLong(h) : \E q \in ended : txn[h].pauses[q].shift = txn[h].pauses[p].shift
        /\ \A p, q \in ended : txn[h].pauses[q].shift = txn[h].pauses[p].shift => p = q
        /\ Commits(h, [s \in Shifts |->
                        IF \E p \in ended : txn[h].pauses[p].shift = s
                        THEN [txn[h].shifts[s] EXCEPT !.status = "active"] ELSE txn[h].shifts[s]],
                      [p \in Pauses |->
                        IF p \in ended
                        THEN [txn[h].pauses[p] EXCEPT !.finished = txn[h].pauses[p].started + MaxPause]
                        ELSE txn[h].pauses[p]])

(***************************************************************************)
(* The administrator: create, update, delete and restore by hand           *)
(***************************************************************************)

ValidInterval(h, started, finished) ==
    /\ started < finished
    /\ finished - started <= MaxDuration
    /\ started <= txn[h].since + Skew
    /\ finished <= txn[h].since + Skew

\* Mutant: a neighbour that is still open does not overlap.
OverlapsFinished(h, started, finished, without) ==
    \E s \in Shifts \ without : LET row == txn[h].shifts[s] IN
        /\ row.context = "org" /\ ~row.deleted
        /\ row.started < finished
        /\ row.finished # None /\ row.finished > started

\* Another shift in the organization overlaps; an open one has no end.
Overlaps(h, started, finished, without) ==
    \E s \in Shifts \ without : LET row == txn[h].shifts[s] IN
        /\ row.context = "org" /\ ~row.deleted
        /\ row.started < finished
        /\ row.finished = None \/ row.finished > started

\* Pauses as pairs <<start, end>>: in order, inside the shift and shorter than it.
ValidPauses(intervals, started, finished) ==
    /\ \A i \in intervals : i[1] < i[2] /\ started <= i[1] /\ i[2] <= finished
    /\ \A i, j \in intervals : i # j => i[2] <= j[1] \/ j[2] <= i[1]
    /\ MapThenSumSet(LAMBDA i : i[2] - i[1], intervals) < finished - started

\* A shift created by hand is finished: no task reads its schedule.
CreateManualShift(h) ==
    /\ Runs(h, "create")
    /\ \E s \in Shifts, started, finished \in Ticks :
        /\ IsNew(s)
        /\ ValidInterval(h, started, finished)
        /\ ~Overlaps(h, started, finished, {})
        /\ \E intervals \in PauseLists :
            /\ ValidPauses(intervals, started, finished)
            /\ ExistsInjection(intervals, Free(h))
            /\ Commits(h, [txn[h].shifts EXCEPT ![s] =
                            [context |-> "org", status |-> "finished", started |-> started,
                             finished |-> finished, deleted |-> FALSE, scheduledEnd |-> None]],
                          Inserted(h, txn[h].pauses, s, intervals))

\* Mutant: an open pause stays, wherever the new end of its shift is.
PausesKept(pauses, s, end) == pauses

\* A shift that is finished by hand: an open pause ends with it, or is deleted
\* when it started later.
PausesEnded(pauses, s, end) ==
    [p \in Pauses |->
        IF pauses[p].shift # s \/ pauses[p].finished # None THEN pauses[p]
        ELSE IF pauses[p].started < end THEN [pauses[p] EXCEPT !.finished = end]
        ELSE NoPause]

\* The pauses that an update which names none leaves, if it may.
PausesAfterUpdate(h, s, started, finished, moved) ==
    LET pauses == txn[h].pauses
        own    == {pauses[p] : p \in PausesOf(pauses, s)}
    IN  CASE Open(txn[h].shifts[s]) /\ finished # None -> {PausesEnded(pauses, s, finished)}
          [] ~Open(txn[h].shifts[s]) /\ moved ->
                IF ValidPauses({<<b.started, b.finished>> : b \in own}, started, finished)
                THEN {pauses} ELSE {}
          [] finished = None /\ moved ->
                IF \A b \in own : b.started >= started THEN {pauses} ELSE {}
          [] OTHER -> {pauses}

\* The pauses of the request replace those of the shift.
PausesReplaced(h, s, intervals) ==
    Inserted(h, [p \in Pauses |-> IF txn[h].pauses[p].shift = s THEN NoPause ELSE txn[h].pauses[p]],
             s, intervals)

UpdateManualShift(h, s) ==
    LET row == txn[h].shifts[s] IN
    /\ Runs(h, "update")
    /\ row.context = "org" /\ ~row.deleted
    /\ \E newStart, newEnd \in OrNull(Ticks) :
        LET started  == Given(newStart, row.started)
            finished == IF Open(row) THEN newEnd ELSE Given(newEnd, row.finished)
            moved    == started # row.started \/ finished # row.finished
            status   == IF finished # None THEN "finished" ELSE row.status
            Updates(pauses) ==
                Commits(h, [txn[h].shifts EXCEPT ![s] =
                             [row EXCEPT !.started = started, !.finished = finished, !.status = status]],
                           pauses)
        IN
        /\ moved => /\ IF finished # None THEN ValidInterval(h, started, finished)
                       ELSE started <= txn[h].since + Skew
                    /\ ~Overlaps(h, started, Given(finished, txn[h].since), {s})
        /\ \/ \E pauses \in PausesAfterUpdate(h, s, started, finished, moved) : Updates(pauses)
           \/ /\ finished # None
              /\ \E intervals \in PauseLists :
                  /\ ValidPauses(intervals, started, finished)
                  /\ ExistsInjection(intervals, Free(h))
                  /\ Updates(PausesReplaced(h, s, intervals))

\* A shift that is still open is finished when it is deleted.
DeleteShift(h, s) ==
    LET row == txn[h].shifts[s] IN
    /\ Runs(h, "delete")
    /\ row.context = "org" /\ ~row.deleted
    /\ IF Open(row)
       THEN Commits(h, [txn[h].shifts EXCEPT ![s] =
                         [Finished(row, txn[h].since) EXCEPT !.deleted = TRUE]],
                       PausesClosed(txn[h].pauses, {s}, [r \in Shifts |-> txn[h].since]))
       ELSE Commits(h, [txn[h].shifts EXCEPT ![s].deleted = TRUE], txn[h].pauses)

RestoreShift(h, s) ==
    LET row == txn[h].shifts[s] IN
    /\ Runs(h, "restore")
    /\ row.context = "org" /\ row.deleted
    /\ ~Overlaps(h, row.started, Given(row.finished, txn[h].since), {s})
    /\ Commits(h, [txn[h].shifts EXCEPT ![s].deleted = FALSE], txn[h].pauses)

\* The window is computed from the start of the shift, which may have moved.
ChangeShiftSchedule(h, s) ==
    LET row == txn[h].shifts[s] IN
    /\ Runs(h, "schedule")
    /\ row.context = "org" /\ ~row.deleted
    /\ \E window \in OrNull(Windows) :
        /\ window # None => row.started + window <= LastTick
        /\ Commits(h, [txn[h].shifts EXCEPT ![s].scheduledEnd =
                        IF window = None THEN None ELSE row.started + window],
                      txn[h].pauses)

(***************************************************************************)
(* The specification                                                       *)
(***************************************************************************)

Tick ==
    /\ now < LastTick
    /\ now' = now + 1
    /\ UNCHANGED <<shift, pause, txn>>

OnShift(h, s) ==
    \/ PauseShift(h, s)
    \/ ResumeShift(h, s)
    \/ FinishShift(h, s)
    \/ UpdateManualShift(h, s)
    \/ DeleteShift(h, s)
    \/ RestoreShift(h, s)
    \/ ChangeShiftSchedule(h, s)

Handler(h) ==
    \/ LoadTables(h)
    \/ Dies(h)
    \/ \E context \in Contexts : StartShift(h, context)
    \/ \E s \in Shifts : OnShift(h, s)
    \/ CreateManualShift(h)
    \/ AutoFinishStaleShifts(h)
    \/ AutoFinishStalePauses(h)

Next == Tick \/ \E h \in Handlers : Handler(h)

Spec == Init /\ [][Next]_vars

(***************************************************************************)
(* Fairness: time passes, and celery beat starts auto_finish_stale_shifts  *)
(* every minute, which some worker completes now and then.                 *)
(***************************************************************************)

FairSpec ==
    /\ Spec
    /\ WF_vars(Tick)
    /\ \A h \in Handlers : /\ WF_vars(LoadTables(h))
                           /\ WF_vars(Dies(h))
                           /\ SF_vars(AutoFinishStaleShifts(h))

(***************************************************************************)
(* Properties                                                              *)
(***************************************************************************)

ShiftRow ==
    [context : {"personal", "org"}, status : {"active", "paused", "finished"}, started : Ticks,
     finished : OrNull(Ticks), scheduledEnd : OrNull(Ticks), deleted : BOOLEAN]

PauseRow == [shift : Shifts, started : Ticks, finished : OrNull(Ticks)]

\* Type invariant: the shape of both tables.
TypeOK ==
    /\ now \in 0 .. LastTick
    /\ shift \in [Shifts -> ShiftRow \cup {NoShift}]
    /\ pause \in [Pauses -> PauseRow \cup {NoPause}]
    /\ \A h \in Handlers : txn[h] # None => txn[h].since \in 0 .. now

\* One personal shift and one shift in the organization may be open at a time
\* (start_shift, the first of its rules), whatever was deleted and restored.
OneOpenShift ==
    \A s, r \in Shifts :
        (/\ s # r /\ shift[s].context # None /\ shift[s].context = shift[r].context
         /\ ~shift[s].deleted /\ ~shift[r].deleted)
            => shift[s].status = "finished" \/ shift[r].status = "finished"

\* A shift has an end exactly when it is finished, a deleted one too: delete_shift
\* leaves none that is active for ever (the comment in delete_shift).
EndIffFinished ==
    \A s \in Shifts : shift[s] # NoShift => (shift[s].status = "finished") = (shift[s].finished # None)

\* A shift is paused exactly while one of its pauses is open, and never has two
\* (resume_shift ends the first it finds and makes the shift active).
PausedIffOnePauseOpen ==
    \A s \in Shifts : shift[s] # NoShift =>
        Cardinality({p \in Pauses : pause[p].shift = s /\ pause[p].finished = None})
            = IF shift[s].status = "paused" THEN 1 ELSE 0

\* Two shifts in the organization never cover the same time, but for the 60
\* seconds by which a manual end may lie ahead of the clock (_check_overlap).
OverlapWithinSkew ==
    \A s, r \in Shifts :
        LET end(row) == IF row.finished = None THEN now ELSE row.finished
            both == {shift[s], shift[r]}
        IN  (/\ s # r
             /\ \A row \in both : row.context = "org" /\ ~row.deleted)
                => \E row, other \in both : end(row) - other.started <= Skew

\* A shift with a schedule is finished in the end, unless the schedule is taken
\* off it or it is deleted (auto_finish_stale_shifts runs every minute).
EndsWithSchedule ==
    \A s \in Shifts :
        (shift[s].scheduledEnd # None /\ shift[s].status # "finished")
            ~> (shift[s].status = "finished" \/ shift[s].scheduledEnd = None)

=============================================================================
