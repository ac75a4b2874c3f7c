---------------------------- MODULE ShiftProofs ----------------------------
(***************************************************************************)
(* Proofs about Shift.  The tables keep their shape for any number of      *)
(* handlers.  What makes the shifts of an employee right, one of each kind *)
(* open, an end with the end, a pause open while paused and no overlap, is *)
(* proved for any employee whose requests and tasks do not overlap: nothing*)
(* is locked, and with two handlers it does not hold.                      *)
(***************************************************************************)
EXTENDS Shift, FiniteSetTheorems, TLAPS

(***************************************************************************)
(* Shape                                                                   *)
(***************************************************************************)

Table == [Shifts -> ShiftRow \cup {NoShift}]
PauseTable == [Pauses -> PauseRow \cup {NoPause}]
Loaded == [shifts : Table, pauses : PauseTable, since : 0 .. LastTick]

\* Rows of shifts never go away, so one that a handler has loaded is there.
TypeInv ==
    /\ TypeOK
    /\ txn \in [Handlers -> OrNull(Loaded)]
    /\ \A h \in Handlers, s \in Shifts :
        txn[h] # None /\ txn[h].shifts[s] # NoShift => shift[s] # NoShift

(***************************************************************************)
(* What is right about the tables of shifts and pauses                     *)
(***************************************************************************)

EndWithStatus(shifts) ==
    \A s \in Shifts :
        /\ shifts[s] # NoShift => (shifts[s].status = "finished" <=> shifts[s].finished # None)
        /\ shifts[s].deleted => shifts[s].status = "finished"

OneOpen(shifts) ==
    \A s, r \in Shifts :
        (/\ s # r /\ shifts[s].context # None /\ shifts[s].context = shifts[r].context
         /\ ~shifts[s].deleted /\ ~shifts[r].deleted)
            => shifts[s].status = "finished" \/ shifts[r].status = "finished"

OpenPausesOf(pauses, s) == {p \in Pauses : pauses[p].shift = s /\ pauses[p].finished = None}

OnePauseOpen(shifts, pauses) ==
    \A s \in Shifts :
        IF shifts[s].status = "paused" THEN \E p \in Pauses : OpenPausesOf(pauses, s) = {p}
        ELSE OpenPausesOf(pauses, s) = {}

InOrganization(row) == row.context = "org" /\ ~row.deleted

\* One of two shifts has an end, at most Skew after the start of either.
Near(a, b) == \E row, other \in {a, b} : row.finished # None /\ row.finished - other.started <= Skew

Disjoint(shifts) ==
    \A s, r \in Shifts :
        (s # r /\ InOrganization(shifts[s]) /\ InOrganization(shifts[r])) => Near(shifts[s], shifts[r])

Sound(shifts, pauses) ==
    /\ EndWithStatus(shifts)
    /\ OneOpen(shifts)
    /\ OnePauseOpen(shifts, pauses)
    /\ Disjoint(shifts)

\* No end lies more than Skew ahead of t.
EndsBy(shifts, t) == \A s \in Shifts : shifts[s].finished # None => shifts[s].finished <= t + Skew

\* A handler that is alone decides on the tables as they are.
AloneInv ==
    /\ Sound(shift, pause) /\ EndsBy(shift, now)
    /\ \A h \in Handlers : txn[h] # None =>
        txn[h].shifts = shift /\ txn[h].pauses = pause /\ EndsBy(shift, txn[h].since)

IInv == TypeInv /\ AloneInv

(***************************************************************************)
(* Rows and transactions                                                   *)
(***************************************************************************)

UpToDate(h) ==
    /\ txn[h].shifts = shift
    /\ Sound(txn[h].shifts, txn[h].pauses) /\ EndsBy(txn[h].shifts, txn[h].since)

\* What a handler may commit: tables of the right shape without a row less; if it loaded
\* sound tables and nothing was committed since, sound tables.
Decides(h, shifts, pauses) ==
    /\ shifts \in Table /\ pauses \in PauseTable
    /\ \A s \in Shifts : txn[h].shifts[s] # NoShift => shifts[s] # NoShift
    /\ UpToDate(h) => Sound(shifts, pauses) /\ EndsBy(shifts, now)

\* A column that has a value tells a row from no row.
LEMMA RowKinds ==
    ASSUME NEW row \in ShiftRow \cup {NoShift}
    PROVE  /\ row \in ShiftRow => row # NoShift /\ row.context # None
           /\ row = NoShift => row.context = None /\ row.status = None /\ row.finished = None /\ ~row.deleted
           /\ row.context = None => row = NoShift
           /\ row.context \in {"personal", "org"} => row \in ShiftRow
           /\ row.status \in {"active", "paused", "finished"} => row \in ShiftRow
BY NoneAssumption DEF ShiftRow, NoShift

LEMMA PauseKinds ==
    ASSUME NEW row \in PauseRow \cup {NoPause}
    PROVE  /\ row \in PauseRow => row # NoPause
           /\ row.shift \in Shifts => row \in PauseRow
           /\ row = NoPause => row.shift \notin Shifts /\ row.finished = None
BY NoneAssumption DEF PauseRow, NoPause, Shifts

LEMMA TicksAreIntegers ==
    /\ Shifts \subseteq Int /\ Ticks \subseteq Int /\ 0 .. LastTick \subseteq Ticks
    /\ None \notin Ticks /\ None \notin Shifts /\ Skew \in Nat /\ LastTick \in Nat
BY BoundsAssumption, NoneAssumption DEF Shifts, Ticks

\* The columns of two rows in one row.
LEMMA FlushedShift ==
    ASSUME NEW current \in ShiftRow, NEW loaded, NEW new \in ShiftRow
    PROVE  Flushed(current, loaded, new) \in ShiftRow
BY DEF Flushed, ShiftRow

LEMMA FlushedPause ==
    ASSUME NEW current \in PauseRow, NEW loaded, NEW new \in PauseRow
    PROVE  Flushed(current, loaded, new) \in PauseRow
BY DEF Flushed, PauseRow

\* Who loaded the current row, or none, writes the whole row.
LEMMA FlushedAlone ==
    /\ \A old, new \in ShiftRow \cup {NoShift} : Flushed(old, old, new) = new
    /\ \A old, new \in PauseRow \cup {NoPause} : Flushed(old, old, new) = new
BY DEF Flushed, ShiftRow, NoShift, PauseRow, NoPause

LEMMA LoadedTables ==
    ASSUME TypeInv, NEW h \in Handlers, txn[h] # None
    PROVE  /\ txn[h].shifts \in Table /\ txn[h].pauses \in PauseTable
           /\ txn[h].since \in 0 .. now /\ now \in 0 .. LastTick
           /\ \A s \in Shifts : txn[h].shifts[s] # NoShift => shift[s] # NoShift
BY DEF TypeInv, TypeOK, Loaded, OrNull

\* A commit over the tables as they are, which others may have changed, keeps their shape.
LEMMA CommitTypes ==
    ASSUME TypeInv, NEW h \in Handlers, txn[h] # None,
           NEW shifts, NEW pauses, Commits(h, shifts, pauses), Decides(h, shifts, pauses)
    PROVE  TypeInv'
<1> DEFINE S == txn[h].shifts
           P == txn[h].pauses
<1>1. /\ S \in Table /\ P \in PauseTable /\ shifts \in Table /\ pauses \in PauseTable
      /\ \A s \in Shifts : S[s] # NoShift => shift[s] # NoShift /\ shifts[s] # NoShift
      /\ shift \in Table /\ pause \in PauseTable
  BY LoadedTables DEF Decides, TypeInv, TypeOK, Table, PauseTable
<1>2. /\ shift' = [s \in Shifts |-> Flushed(shift[s], S[s], shifts[s])]
      /\ pause' = [p \in Pauses |-> IF pauses[p] = NoPause /\ P[p] # NoPause THEN NoPause
                                    ELSE Flushed(pause[p], P[p], pauses[p])]
      /\ \A p \in Pauses : (P[p] # NoPause /\ pauses[p] # P[p]) => pause[p] # NoPause
      /\ txn' = [txn EXCEPT ![h] = None]
      /\ now' = now
  BY DEF Commits
<1> HIDE DEF S, P
<1>3. ASSUME NEW s \in Shifts
      PROVE  /\ shift'[s] \in ShiftRow \cup {NoShift}
             /\ shift[s] # NoShift => shift'[s] # NoShift
  <2>1. shift'[s] = Flushed(shift[s], S[s], shifts[s])
    BY <1>2
  <2>2. shift[s] \in ShiftRow \cup {NoShift} /\ shifts[s] \in ShiftRow \cup {NoShift}
    BY <1>1 DEF Table
  <2>3. CASE shift[s] \in ShiftRow /\ shifts[s] \in ShiftRow
    BY <2>1, <2>3, FlushedShift, RowKinds
  <2>4. CASE shift[s] = NoShift
    BY <1>1, <2>1, <2>2, <2>4, FlushedAlone
  <2>5. CASE shifts[s] = NoShift
    <3>1. S[s] = NoShift
      BY <1>1, <2>5
    <3>2. Flushed(shift[s], NoShift, NoShift) = shift[s]
      BY <2>2 DEF Flushed, ShiftRow, NoShift
    <3> QED BY <2>1, <2>2, <2>5, <3>1, <3>2
  <2> QED BY <2>2, <2>3, <2>4, <2>5
<1>4. ASSUME NEW p \in Pauses PROVE pause'[p] \in PauseRow \cup {NoPause}
  <2>1. pause'[p] = IF pauses[p] = NoPause /\ P[p] # NoPause THEN NoPause
                    ELSE Flushed(pause[p], P[p], pauses[p])
    BY <1>2
  <2>2. /\ pause[p] \in PauseRow \cup {NoPause} /\ P[p] \in PauseRow \cup {NoPause}
        /\ pauses[p] \in PauseRow \cup {NoPause}
    BY <1>1 DEF PauseTable
  <2>3. CASE pause[p] \in PauseRow /\ pauses[p] \in PauseRow
    BY <2>1, <2>3, FlushedPause, PauseKinds
  <2>4. CASE pauses[p] = NoPause
    <3>1. Flushed(pause[p], NoPause, NoPause) = pause[p]
      BY <2>2 DEF Flushed, PauseRow, NoPause
    <3> QED BY <2>1, <2>2, <2>4, <3>1
  <2>5. CASE pause[p] = NoPause /\ pauses[p] \in PauseRow
    <3>1. P[p] = NoPause \/ pauses[p] = P[p]
      BY <1>2, <2>5
    <3>2. Flushed(NoPause, pauses[p], pauses[p]) = NoPause
      BY <2>2 DEF Flushed, PauseRow, NoPause
    <3> QED BY <2>1, <2>2, <2>5, <3>1, <3>2, FlushedAlone
  <2> QED BY <2>2, <2>3, <2>4, <2>5
<1>5. /\ shift' \in Table /\ pause' \in PauseTable
      /\ txn' \in [Handlers -> OrNull(Loaded)]
      /\ \A g \in Handlers : txn'[g] # None => txn'[g] = txn[g]
  BY <1>2, <1>3, <1>4 DEF Table, PauseTable, TypeInv, OrNull
<1> QED BY <1>2, <1>3, <1>5 DEF TypeInv, TypeOK, Table, PauseTable

\* A commit over the tables that were loaded puts the decided tables in their place.
LEMMA CommitAlone ==
    ASSUME IInv, \A f, g \in Handlers : f = g, NEW h \in Handlers, txn[h] # None,
           NEW shifts, NEW pauses, Commits(h, shifts, pauses), Decides(h, shifts, pauses)
    PROVE  IInv'
<1>1. TypeInv'
  BY CommitTypes DEF IInv
<1>2. txn[h].shifts = shift /\ txn[h].pauses = pause /\ EndsBy(shift, txn[h].since) /\ Sound(shift, pause)
  BY DEF IInv, AloneInv
<1>3. /\ shifts \in Table /\ pauses \in PauseTable /\ shift \in Table /\ pause \in PauseTable
      /\ Sound(shifts, pauses) /\ EndsBy(shifts, now)
  BY <1>2 DEF Decides, UpToDate, IInv, TypeInv, TypeOK, Table, PauseTable
<1>4. shift' = shifts
  BY <1>2, <1>3, FlushedAlone DEF Commits, Table
<1>5. pause' = pauses
  <2>1. pause' = [p \in Pauses |-> IF pauses[p] = NoPause /\ pause[p] # NoPause THEN NoPause
                                   ELSE Flushed(pause[p], pause[p], pauses[p])]
    BY <1>2 DEF Commits
  <2>2. \A p \in Pauses : pause'[p] = pauses[p]
    BY <1>3, <2>1, FlushedAlone DEF PauseTable
  <2> QED BY <1>3, <2>1, <2>2 DEF PauseTable
<1>6. now' = now /\ \A g \in Handlers : txn'[g] = None
  BY DEF Commits, IInv, TypeInv
<1> QED BY <1>1, <1>3, <1>4, <1>5, <1>6 DEF IInv, AloneInv, Sound, EndWithStatus, OneOpen, OnePauseOpen,
                                             OpenPausesOf, Disjoint, EndsBy

(***************************************************************************)
(* Pauses that are inserted                                                *)
(***************************************************************************)

LEMMA InsertedPauses ==
    ASSUME NEW h, NEW pauses \in PauseTable, NEW s \in Shifts, NEW intervals,
           \A i \in intervals : i[1] \in Ticks /\ i[2] \in OrNull(Ticks),
           ExistsInjection(intervals, Free(h))
    PROVE  LET after == Inserted(h, pauses, s, intervals) IN
           /\ after \in PauseTable
           /\ \A p \in Pauses : \/ after[p] = pauses[p]
                               \/ /\ p \in Free(h)
                                  /\ \E i \in intervals :
                                      after[p] = [shift |-> s, started |-> i[1], finished |-> i[2]]
<1> DEFINE row == CHOOSE f \in Injection(intervals, Free(h)) : TRUE
           after == Inserted(h, pauses, s, intervals)
<1>1. row \in [intervals -> Free(h)]
  BY DEF ExistsInjection, Injection
<1> DEFINE of(p) == CHOOSE i \in intervals : row[i] = p
<1>2. after = [p \in Pauses |-> IF \E i \in intervals : row[i] = p
                               THEN [shift |-> s, started |-> of(p)[1], finished |-> of(p)[2]]
                               ELSE pauses[p]]
  BY DEF Inserted
<1> HIDE DEF row
<1>3. ASSUME NEW p \in Pauses, \E i \in intervals : row[i] = p
      PROVE  /\ p \in Free(h) /\ of(p) \in intervals
             /\ after[p] = [shift |-> s, started |-> of(p)[1], finished |-> of(p)[2]]
             /\ after[p] \in PauseRow
  <2>1. of(p) \in intervals /\ row[of(p)] = p
    BY <1>3
  <2>2. after[p] = [shift |-> s, started |-> of(p)[1], finished |-> of(p)[2]]
    BY <1>2, <1>3
  <2> HIDE DEF of
  <2>3. after[p] \in PauseRow
    BY <2>1, <2>2 DEF PauseRow
  <2> QED BY <1>1, <2>1, <2>2, <2>3
<1> HIDE DEF of, after
<1>4. \A p \in Pauses : after[p] \in PauseRow \cup {NoPause}
  BY <1>2, <1>3 DEF PauseTable
<1>5. after \in PauseTable
  BY <1>2, <1>4 DEF PauseTable
<1>6. ASSUME NEW p \in Pauses
      PROVE  \/ after[p] = pauses[p]
             \/ /\ p \in Free(h)
                /\ \E i \in intervals : after[p] = [shift |-> s, started |-> i[1], finished |-> i[2]]
  BY <1>2, <1>3
<1> QED BY <1>5, <1>6 DEF after

\* One pause takes one free row.
LEMMA InsertedPause ==
    ASSUME NEW h, NEW pauses, NEW s, NEW i, ExistsInjection({i}, Free(h))
    PROVE  \E p \in Free(h) :
             Inserted(h, pauses, s, {i}) =
                [q \in Pauses |-> IF q = p THEN [shift |-> s, started |-> i[1], finished |-> i[2]]
                                 ELSE pauses[q]]
<1> DEFINE row == CHOOSE f \in Injection({i}, Free(h)) : TRUE
<1>1. row \in [{i} -> Free(h)]
  BY DEF ExistsInjection, Injection
<1>2. Inserted(h, pauses, s, {i}) =
        [q \in Pauses |-> IF \E j \in {i} : row[j] = q
                         THEN LET j == CHOOSE j \in {i} : row[j] = q
                              IN  [shift |-> s, started |-> j[1], finished |-> j[2]]
                         ELSE pauses[q]]
  BY DEF Inserted
<1> HIDE DEF row
<1>3. \A q \in Pauses : q = row[i] => (CHOOSE j \in {i} : row[j] = q) = i
  OBVIOUS
<1> QED BY <1>1, <1>2, <1>3

(***************************************************************************)
(* What an operation does to sound tables                                  *)
(***************************************************************************)

\* No shift starts elsewhere, none that has an end loses it and none is added.
LEMMA DisjointFollows ==
    ASSUME NEW old, NEW new, Disjoint(old),
           \A s \in Shifts : InOrganization(new[s]) =>
               /\ InOrganization(old[s]) /\ new[s].started = old[s].started
               /\ old[s].finished # None => new[s].finished = old[s].finished
    PROVE  Disjoint(new)
<1> SUFFICES ASSUME NEW s \in Shifts, NEW r \in Shifts, s # r,
                    InOrganization(new[s]), InOrganization(new[r])
             PROVE  Near(new[s], new[r])
  BY DEF Disjoint
<1>1. Near(old[s], old[r])
  BY DEF Disjoint
<1> QED BY <1>1 DEF Near

\* No shift is open that was not.
LEMMA OneOpenFollows ==
    ASSUME NEW old, NEW new, OneOpen(old),
           \A s \in Shifts : (new[s].context # None /\ new[s].status # "finished" /\ ~new[s].deleted) =>
               old[s].context = new[s].context /\ old[s].status # "finished" /\ ~old[s].deleted
    PROVE  OneOpen(new)
BY DEF OneOpen

\* The open pauses of the shifts in closed end, the others stay.
LEMMA PausesClosedAre ==
    ASSUME NEW pauses \in PauseTable, NEW closed \in SUBSET Shifts, NEW end,
           \A s \in closed : end[s] \in Ticks
    PROVE  /\ PausesClosed(pauses, closed, end) \in PauseTable
           /\ \A s \in closed : OpenPausesOf(PausesClosed(pauses, closed, end), s) = {}
           /\ \A s \in Shifts \ closed :
                OpenPausesOf(PausesClosed(pauses, closed, end), s) = OpenPausesOf(pauses, s)
<1> DEFINE after == PausesClosed(pauses, closed, end)
<1>1. ASSUME NEW p \in Pauses
      PROVE  /\ pauses[p].shift \in closed /\ pauses[p].finished = None =>
                    /\ after[p] \in PauseRow
                    /\ after[p].shift = pauses[p].shift /\ after[p].finished # None
             /\ ~(pauses[p].shift \in closed /\ pauses[p].finished = None) => after[p] = pauses[p]
  <2>1. after[p] = IF pauses[p].shift \in closed /\ pauses[p].finished = None
                   THEN [pauses[p] EXCEPT !.finished = end[pauses[p].shift]] ELSE pauses[p]
    BY DEF PausesClosed
  <2>2. CASE pauses[p].shift \in closed /\ pauses[p].finished = None
    <3>1. pauses[p] \in PauseRow
      BY <2>2, PauseKinds DEF PauseTable
    <3> QED BY <2>1, <2>2, <3>1, TicksAreIntegers DEF PauseRow, OrNull
  <2> QED BY <2>1, <2>2
<1>2. DOMAIN after = Pauses /\ after = [p \in Pauses |-> after[p]]
  BY DEF PausesClosed
<1> HIDE DEF after
<1>3. after \in PauseTable
  BY <1>1, <1>2 DEF PauseTable
<1>4. \A s \in closed : OpenPausesOf(after, s) = {}
  BY <1>1 DEF OpenPausesOf
<1>5. \A s \in Shifts \ closed : OpenPausesOf(after, s) = OpenPausesOf(pauses, s)
  BY <1>1 DEF OpenPausesOf
<1> QED BY <1>3, <1>4, <1>5 DEF after

\* One row of a table is written.
LEMMA RowWritten ==
    ASSUME TypeInv, NEW h \in Handlers, txn[h] # None, NEW s \in Shifts, NEW row \in ShiftRow
    PROVE  LET after == [txn[h].shifts EXCEPT ![s] = row] IN
           /\ after \in Table
           /\ \A r \in Shifts : after[r] = IF r = s THEN row ELSE txn[h].shifts[r]
           /\ \A r \in Shifts : txn[h].shifts[r] # NoShift => after[r] # NoShift
BY LoadedTables, RowKinds DEF Table

LEMMA EndsByLater ==
    ASSUME NEW shifts, NEW t \in Int, NEW u \in Int, t <= u, EndsBy(shifts, t),
           \A s \in Shifts : shifts[s].finished \in OrNull(Ticks)
    PROVE  EndsBy(shifts, u)
<1> SUFFICES ASSUME NEW s \in Shifts, shifts[s].finished # None
             PROVE  shifts[s].finished <= u + Skew
  BY DEF EndsBy
<1>1. shifts[s].finished \in Int /\ shifts[s].finished <= t + Skew
  BY TicksAreIntegers DEF EndsBy, OrNull
<1> QED BY <1>1, TicksAreIntegers

\* The shifts whose schedule is over, cut at its end.
LEMMA CutDecides ==
    ASSUME TypeInv, NEW h \in Handlers, txn[h] # None
    PROVE  /\ Decides(h, ShiftsCut(h), PausesCut(h))
           /\ \A s \in Shifts \ Stale(h) : ShiftsCut(h)[s] = txn[h].shifts[s]
           /\ \A s \in Stale(h) : ShiftsCut(h)[s].status = "finished" /\ ShiftsCut(h)[s] # NoShift
           /\ EndsBy(txn[h].shifts, txn[h].since) => EndsBy(ShiftsCut(h), txn[h].since)
<1> DEFINE S == txn[h].shifts
           P == txn[h].pauses
           new == ShiftsCut(h)
           end == [s \in Shifts |-> S[s].scheduledEnd]
<1>1. /\ S \in Table /\ P \in PauseTable /\ txn[h].since \in 0 .. now /\ now \in 0 .. LastTick
      /\ \A s \in Shifts : S[s] \in ShiftRow \cup {NoShift}
  BY LoadedTables DEF Table
<1>2. ASSUME NEW s \in Stale(h)
      PROVE  /\ s \in Shifts /\ S[s] \in ShiftRow /\ S[s].context = "org" /\ ~S[s].deleted
             /\ S[s].status \in {"active", "paused"}
             /\ S[s].scheduledEnd \in Ticks /\ S[s].scheduledEnd <= txn[h].since
             /\ new[s] = [S[s] EXCEPT !.status = "finished", !.finished = S[s].scheduledEnd]
  <2>1. /\ s \in Shifts /\ S[s].context = "org" /\ ~S[s].deleted /\ S[s].status \in {"active", "paused"}
        /\ S[s].scheduledEnd # None /\ S[s].scheduledEnd <= txn[h].since
        /\ new[s] = [S[s] EXCEPT !.status = "finished", !.finished = S[s].scheduledEnd]
    BY DEF Stale, Open, ShiftsCut, Finished
  <2>2. S[s] \in ShiftRow
    BY <1>1, <2>1, RowKinds
  <2> QED BY <2>1, <2>2 DEF ShiftRow, OrNull
<1>3. \A s \in Shifts \ Stale(h) : new[s] = S[s]
  BY DEF ShiftsCut
<1>4. \A s \in Stale(h) : /\ new[s] \in ShiftRow /\ new[s].status = "finished"
                          /\ new[s].finished = S[s].scheduledEnd /\ new[s].started = S[s].started
                          /\ ~new[s].deleted /\ new[s].context = "org"
  <2> SUFFICES ASSUME NEW s \in Stale(h)
               PROVE  LET row == new[s] IN
                      /\ row \in ShiftRow /\ row.status = "finished"
                      /\ row.finished = S[s].scheduledEnd /\ row.started = S[s].started
                      /\ ~row.deleted /\ row.context = "org"
    OBVIOUS
  <2>1. /\ S[s] \in ShiftRow /\ S[s].context = "org" /\ ~S[s].deleted /\ S[s].scheduledEnd \in Ticks
        /\ new[s] = [S[s] EXCEPT !.status = "finished", !.finished = S[s].scheduledEnd]
    BY <1>2
  <2> HIDE DEF new, S
  <2> QED BY <2>1 DEF ShiftRow, OrNull
<1>5. new = [s \in Shifts |-> new[s]]
  BY DEF ShiftsCut
<1> HIDE DEF new
<1>6. new \in Table /\ \A s \in Shifts : S[s] # NoShift => new[s] # NoShift
  BY <1>1, <1>3, <1>4, <1>5, RowKinds DEF Table
<1>7. /\ PausesCut(h) \in PauseTable
      /\ \A s \in Stale(h) : OpenPausesOf(PausesCut(h), s) = {}
      /\ \A s \in Shifts \ Stale(h) : OpenPausesOf(PausesCut(h), s) = OpenPausesOf(P, s)
  <2>1. Stale(h) \in SUBSET Shifts
    BY DEF Stale
  <2>2. \A s \in Stale(h) : end[s] \in Ticks
    BY <1>2
  <2> HIDE DEF end
  <2>3. PausesCut(h) = PausesClosed(P, Stale(h), end)
    BY DEF PausesCut, end
  <2> QED BY <1>1, <2>1, <2>2, <2>3, PausesClosedAre
<1>8. EndsBy(S, txn[h].since) => EndsBy(new, txn[h].since)
  <2> SUFFICES ASSUME EndsBy(S, txn[h].since), NEW s \in Shifts, new[s].finished # None
               PROVE  new[s].finished <= txn[h].since + Skew
    BY DEF EndsBy
  <2>1. CASE s \in Stale(h)
    <3>1. new[s].finished \in Int /\ new[s].finished <= txn[h].since
      BY <1>2, <1>4, <2>1, TicksAreIntegers
    <3> QED BY <1>1, <3>1, TicksAreIntegers
  <2>2. CASE s \notin Stale(h)
    BY <1>3, <2>2 DEF EndsBy
  <2> QED BY <2>1, <2>2
<1>9. ASSUME Sound(S, P), EndsBy(S, txn[h].since)
      PROVE  Sound(new, PausesCut(h)) /\ EndsBy(new, now)
  <2>1. EndWithStatus(new)
    <3> SUFFICES ASSUME NEW s \in Shifts
                 PROVE  /\ new[s] # NoShift => (new[s].status = "finished" <=> new[s].finished # None)
                        /\ new[s].deleted => new[s].status = "finished"
      BY DEF EndWithStatus
    <3>1. CASE s \in Stale(h)
      <4>1. new[s].finished # None
        <5>1. S[s].scheduledEnd \in Ticks
          BY <1>2, <3>1
        <5>2. new[s].finished = S[s].scheduledEnd
          BY <1>4, <3>1
        <5> QED BY <5>1, <5>2, TicksAreIntegers
      <4>2. new[s].status = "finished"
        BY <1>4, <3>1
      <4> QED BY <4>1, <4>2
    <3>2. CASE s \notin Stale(h)
      BY <1>3, <1>9, <3>2 DEF Sound, EndWithStatus
    <3> QED BY <3>1, <3>2
  <2>2. OneOpen(new)
    <3>1. \A s \in Shifts : (new[s].context # None /\ new[s].status # "finished" /\ ~new[s].deleted) =>
               S[s].context = new[s].context /\ S[s].status # "finished" /\ ~S[s].deleted
      BY <1>3, <1>4
    <3> HIDE DEF S
    <3> QED BY <1>9, <3>1, OneOpenFollows DEF Sound
  <2>3. OnePauseOpen(new, PausesCut(h))
    BY <1>3, <1>4, <1>7, <1>9 DEF Sound, OnePauseOpen
  <2>4. Disjoint(new)
    <3>1. \A s \in Stale(h) : S[s].finished = None
      BY <1>2, <1>9, RowKinds DEF Sound, EndWithStatus
    <3>2. \A s \in Shifts : InOrganization(new[s]) =>
               /\ InOrganization(S[s]) /\ new[s].started = S[s].started
               /\ S[s].finished # None => new[s].finished = S[s].finished
      BY <1>2, <1>3, <1>4, <3>1 DEF InOrganization
    <3> HIDE DEF S
    <3> QED BY <1>9, <3>2, DisjointFollows DEF Sound
  <2>5. EndsBy(new, now)
    <3>1. \A s \in Shifts : new[s].finished \in OrNull(Ticks)
      BY <1>6 DEF Table, ShiftRow, NoShift, OrNull
    <3> QED BY <1>1, <1>8, <1>9, <3>1, EndsByLater
  <2> QED BY <2>1, <2>2, <2>3, <2>4, <2>5 DEF Sound
<1>10. Decides(h, new, PausesCut(h))
  BY <1>6, <1>7, <1>9 DEF Decides, UpToDate
<1> QED BY <1>3, <1>4, <1>6, <1>8, <1>10, RowKinds DEF new

\* A row that may stand in place of row s.
Fits(shifts, s, row) ==
    /\ row.status = "finished" <=> row.finished # None
    /\ row.deleted => row.status = "finished"
    /\ \A r \in Shifts \ {s} :
        /\ (row.context = shifts[r].context /\ ~row.deleted /\ ~shifts[r].deleted)
              => row.status = "finished" \/ shifts[r].status = "finished"
        /\ InOrganization(row) /\ InOrganization(shifts[r]) => Near(row, shifts[r])

LEMMA NearBothWays == \A a, b : Near(a, b) => Near(b, a)
BY DEF Near

LEMMA FittingRow ==
    ASSUME NEW shifts \in Table, EndWithStatus(shifts), OneOpen(shifts), Disjoint(shifts),
           NEW t, EndsBy(shifts, t), NEW s \in Shifts, NEW row \in ShiftRow,
           Fits(shifts, s, row), row.finished # None => row.finished <= t + Skew
    PROVE  LET after == [shifts EXCEPT ![s] = row] IN
           EndWithStatus(after) /\ OneOpen(after) /\ Disjoint(after) /\ EndsBy(after, t)
<1> DEFINE after == [shifts EXCEPT ![s] = row]
<1>1. \A r \in Shifts : after[r] = IF r = s THEN row ELSE shifts[r]
  BY DEF Table
<1> HIDE DEF after
<1>2. EndWithStatus(after)
  BY <1>1 DEF EndWithStatus, Fits
<1>3. OneOpen(after)
  <2> SUFFICES ASSUME NEW q \in Shifts, NEW r \in Shifts, q # r,
                      after[q].context # None, after[q].context = after[r].context,
                      ~after[q].deleted, ~after[r].deleted
               PROVE  after[q].status = "finished" \/ after[r].status = "finished"
    BY DEF OneOpen
  <2>1. CASE q = s
    BY <1>1, <2>1 DEF Fits
  <2>2. CASE r = s
    BY <1>1, <2>2 DEF Fits
  <2>3. CASE q # s /\ r # s
    BY <1>1, <2>3 DEF OneOpen
  <2> QED BY <2>1, <2>2, <2>3
<1>4. Disjoint(after)
  <2> SUFFICES ASSUME NEW q \in Shifts, NEW r \in Shifts, q # r,
                      InOrganization(after[q]), InOrganization(after[r])
               PROVE  Near(after[q], after[r])
    BY DEF Disjoint
  <2>1. CASE q = s
    BY <1>1, <2>1 DEF Fits
  <2>2. CASE r = s
    BY <1>1, <2>2, NearBothWays DEF Fits
  <2>3. CASE q # s /\ r # s
    BY <1>1, <2>3 DEF Disjoint
  <2> QED BY <2>1, <2>2, <2>3
<1>5. EndsBy(after, t)
  BY <1>1 DEF EndsBy
<1> QED BY <1>2, <1>3, <1>4, <1>5 DEF after

\* A shift that stays where it is and is not opened fits.
LEMMA SameShiftFits ==
    ASSUME NEW shifts \in Table, OneOpen(shifts), Disjoint(shifts),
           NEW s \in Shifts, shifts[s] \in ShiftRow, ~shifts[s].deleted, NEW row \in ShiftRow,
           row.context = shifts[s].context, row.started = shifts[s].started,
           shifts[s].finished # None => row.finished = shifts[s].finished,
           shifts[s].status = "finished" => row.status = "finished",
           row.status = "finished" <=> row.finished # None,
           row.deleted => row.status = "finished"
    PROVE  Fits(shifts, s, row)
<1> SUFFICES ASSUME NEW r \in Shifts \ {s}
             PROVE  /\ (row.context = shifts[r].context /\ ~row.deleted /\ ~shifts[r].deleted)
                          => row.status = "finished" \/ shifts[r].status = "finished"
                    /\ InOrganization(row) /\ InOrganization(shifts[r]) => Near(row, shifts[r])
  BY DEF Fits
<1>1. shifts[s].context # None
  BY RowKinds
<1>2. InOrganization(row) /\ InOrganization(shifts[r]) => Near(shifts[s], shifts[r])
  BY DEF Disjoint, InOrganization
<1> QED BY <1>1, <1>2 DEF OneOpen, Near

\* An operation on one shift decides soundly when the row fits and the pauses agree.
LEMMA RowDecides ==
    ASSUME TypeInv, NEW h \in Handlers, txn[h] # None, NEW s \in Shifts, NEW row \in ShiftRow,
           NEW pauses \in PauseTable,
           UpToDate(h) =>
             /\ Fits(txn[h].shifts, s, row)
             /\ row.finished # None => row.finished <= now + Skew
             /\ OnePauseOpen([txn[h].shifts EXCEPT ![s] = row], pauses)
    PROVE  Decides(h, [txn[h].shifts EXCEPT ![s] = row], pauses)
<1> DEFINE S == txn[h].shifts
           after == [S EXCEPT ![s] = row]
<1>1. after \in Table /\ \A r \in Shifts : S[r] # NoShift => after[r] # NoShift
  BY RowWritten
<1>2. ASSUME UpToDate(h) PROVE Sound(after, pauses) /\ EndsBy(after, now)
  <2>1. S \in Table /\ txn[h].since \in Int /\ now \in Int /\ txn[h].since <= now
    BY LoadedTables, TicksAreIntegers
  <2>2. \A r \in Shifts : S[r].finished \in OrNull(Ticks)
    BY <2>1 DEF Table, ShiftRow, NoShift, OrNull
  <2>3. EndsBy(S, now)
    BY <1>2, <2>1, <2>2, EndsByLater DEF UpToDate
  <2>4. EndWithStatus(S) /\ OneOpen(S) /\ Disjoint(S)
    BY <1>2 DEF UpToDate, Sound
  <2>5. EndWithStatus(after) /\ OneOpen(after) /\ Disjoint(after) /\ EndsBy(after, now)
    BY <1>2, <2>1, <2>3, <2>4, FittingRow
  <2> QED BY <1>2, <2>5 DEF Sound
<1> QED BY <1>1, <1>2 DEF Decides

(***************************************************************************)
(* Every operation decides soundly                                         *)
(***************************************************************************)

Decided(h) ==
    /\ txn[h] # None
    /\ \E shifts, pauses : Commits(h, shifts, pauses) /\ Decides(h, shifts, pauses)

\* What is known of the row that an operation on one shift picks.
LEMMA PickedRow ==
    ASSUME TypeInv, NEW h \in Handlers, txn[h] # None, NEW s \in Shifts,
           \/ txn[h].shifts[s].status \in {"active", "paused"}
           \/ txn[h].shifts[s].context = "org"
    PROVE  /\ txn[h].shifts \in Table /\ txn[h].shifts[s] \in ShiftRow
           /\ txn[h].pauses \in PauseTable
           /\ txn[h].since \in 0 .. now /\ now \in 0 .. LastTick
           /\ UpToDate(h) => /\ OneOpen(txn[h].shifts) /\ Disjoint(txn[h].shifts)
                             /\ EndWithStatus(txn[h].shifts) /\ EndsBy(txn[h].shifts, txn[h].since)
                             /\ OnePauseOpen(txn[h].shifts, txn[h].pauses)
                             /\ txn[h].shifts[s].status = "finished" <=> txn[h].shifts[s].finished # None
<1>1. txn[h].shifts \in Table /\ txn[h].pauses \in PauseTable /\ txn[h].since \in 0 .. now /\ now \in 0 .. LastTick
  BY LoadedTables
<1>2. txn[h].shifts[s] \in ShiftRow
  BY <1>1, RowKinds DEF Table
<1>3. ASSUME UpToDate(h)
      PROVE  txn[h].shifts[s].status = "finished" <=> txn[h].shifts[s].finished # None
  BY <1>2, <1>3, RowKinds DEF UpToDate, Sound, EndWithStatus
<1> QED BY <1>1, <1>2, <1>3 DEF UpToDate, Sound

LEMMA PauseDecides ==
    ASSUME TypeInv, NEW h \in Handlers, NEW s \in Shifts, PauseShift(h, s)
    PROVE  Decided(h)
<1> DEFINE S == txn[h].shifts
           P == txn[h].pauses
           row == [S[s] EXCEPT !.status = "paused"]
           i == <<now, None>>
           new == Inserted(h, P, s, {i})
<1>1. /\ txn[h] # None /\ S[s].status = "active" /\ ~S[s].deleted
      /\ ExistsInjection({i}, Free(h))
      /\ Commits(h, [S EXCEPT ![s] = row], new)
  BY DEF PauseShift, Runs
<1>2. S \in Table /\ S[s] \in ShiftRow /\ P \in PauseTable /\ now \in Ticks
  BY <1>1, PickedRow, TicksAreIntegers
<1>3. row \in ShiftRow
  BY <1>2 DEF ShiftRow
<1>6. i[1] = now /\ i[2] = None
  OBVIOUS
<1> HIDE DEF i
<1>4. new \in PauseTable
  BY <1>1, <1>2, <1>6, InsertedPauses DEF OrNull
<1>5. ASSUME UpToDate(h)
      PROVE  /\ Fits(S, s, row)
             /\ row.finished # None => row.finished <= now + Skew
             /\ OnePauseOpen([S EXCEPT ![s] = row], new)
  <2>1. /\ OneOpen(S) /\ Disjoint(S) /\ OnePauseOpen(S, P) /\ S[s].finished = None
    BY <1>1, <1>5, PickedRow
  <2>2. /\ row.context = S[s].context /\ row.started = S[s].started /\ row.status = "paused"
        /\ row.finished = None /\ row.deleted = S[s].deleted
    BY <1>2, <2>1 DEF ShiftRow
  <2>3. Fits(S, s, row)
    BY <1>1, <1>2, <1>3, <2>1, <2>2, SameShiftFits
  <2>4. PICK p \in Free(h) :
          new = [q \in Pauses |-> IF q = p THEN [shift |-> s, started |-> now, finished |-> None] ELSE P[q]]
    <3>1. \E p \in Free(h) :
            new = [q \in Pauses |-> IF q = p THEN [shift |-> s, started |-> i[1], finished |-> i[2]] ELSE P[q]]
      BY <1>1, InsertedPause
    <3> QED BY <1>6, <3>1
  <2>5. p \in Pauses /\ P[p] = NoPause
    BY <2>4 DEF Free
  <2>6. OpenPausesOf(P, s) = {}
    BY <1>1, <2>1 DEF OnePauseOpen
  <2>7. OpenPausesOf(new, s) = {p}
    BY <2>4, <2>5, <2>6 DEF OpenPausesOf
  <2>8. \A r \in Shifts \ {s} : OpenPausesOf(new, r) = OpenPausesOf(P, r)
    BY <2>4, <2>5, TicksAreIntegers DEF OpenPausesOf, NoPause
  <2>9. OnePauseOpen([S EXCEPT ![s] = row], new)
    <3>1. \A r \in Shifts : [S EXCEPT ![s] = row][r] = IF r = s THEN row ELSE S[r]
      BY <1>2 DEF Table
    <3> QED BY <2>1, <2>2, <2>5, <2>7, <2>8, <3>1 DEF OnePauseOpen
  <2> QED BY <2>2, <2>3, <2>9
<1> HIDE DEF row, new
<1> QED BY <1>1, <1>3, <1>4, <1>5, RowDecides DEF Decided

LEMMA ResumeDecides ==
    ASSUME TypeInv, NEW h \in Handlers, NEW s \in Shifts, ResumeShift(h, s)
    PROVE  Decided(h)
<1> DEFINE S == txn[h].shifts
           P == txn[h].pauses
           row == [S[s] EXCEPT !.status = "active"]
           after(ended) == [p \in Pauses |-> IF p \in ended THEN [P[p] EXCEPT !.finished = now] ELSE P[p]]
           open == OpenPausesOf(P, s)
<1>1. txn[h] # None /\ S[s].status = "paused" /\ ~S[s].deleted
  BY DEF ResumeShift, Runs
<1>2. PICK ended \in IF open = {} THEN {{}} ELSE {{p} : p \in open} :
        Commits(h, [S EXCEPT ![s] = row], after(ended))
  <2>1. open = {p \in PausesOf(P, s) : P[p].finished = None}
    BY DEF PausesOf, OpenPausesOf
  <2> QED BY <2>1 DEF ResumeShift
<1> DEFINE new == after(ended)
<1>3. S \in Table /\ S[s] \in ShiftRow /\ P \in PauseTable /\ now \in Ticks
  BY <1>1, PickedRow, TicksAreIntegers
<1>4. row \in ShiftRow
  BY <1>3 DEF ShiftRow
<1>5. \A p \in ended : p \in Pauses /\ P[p] \in PauseRow /\ P[p].shift = s
  BY <1>2, <1>3, PauseKinds DEF OpenPausesOf, PauseTable
<1>6. \A p \in Pauses : /\ p \in ended => /\ new[p] \in PauseRow /\ new[p].shift = s
                                         /\ new[p].finished # None
                        /\ p \notin ended => new[p] = P[p]
  BY <1>3, <1>5, TicksAreIntegers DEF PauseRow, OrNull
<1>7. new \in PauseTable
  BY <1>3, <1>6 DEF PauseTable
<1>8. ASSUME UpToDate(h)
      PROVE  /\ Fits(S, s, row)
             /\ row.finished # None => row.finished <= now + Skew
             /\ OnePauseOpen([S EXCEPT ![s] = row], new)
  <2>1. /\ OneOpen(S) /\ Disjoint(S) /\ OnePauseOpen(S, P) /\ S[s].finished = None
    BY <1>1, <1>8, PickedRow
  <2>2. /\ row.context = S[s].context /\ row.started = S[s].started /\ row.status = "active"
        /\ row.finished = None /\ row.deleted = S[s].deleted
    BY <1>3, <2>1 DEF ShiftRow
  <2>3. Fits(S, s, row)
    BY <1>1, <1>3, <1>4, <2>1, <2>2, SameShiftFits
  <2>4. ended = open
    BY <1>1, <1>2, <2>1 DEF OnePauseOpen
  <2> HIDE DEF new
  <2>5. OpenPausesOf(new, s) = {}
    BY <1>6, <2>4 DEF OpenPausesOf
  <2>6. \A r \in Shifts \ {s} : OpenPausesOf(new, r) = OpenPausesOf(P, r)
    BY <1>5, <1>6 DEF OpenPausesOf
  <2>7. OnePauseOpen([S EXCEPT ![s] = row], new)
    <3>1. \A r \in Shifts : [S EXCEPT ![s] = row][r] = IF r = s THEN row ELSE S[r]
      BY <1>3 DEF Table
    <3> QED BY <2>1, <2>2, <2>5, <2>6, <3>1 DEF OnePauseOpen
  <2> QED BY <2>2, <2>3, <2>7
<1> HIDE DEF row, new
<1>9. Commits(h, [S EXCEPT ![s] = row], new)
  BY <1>2 DEF row, new
<1> QED BY <1>1, <1>4, <1>7, <1>8, <1>9, RowDecides DEF Decided

\* A shift that ends now, with its open pause.
LEMMA FinishDecides ==
    ASSUME TypeInv, NEW h \in Handlers, NEW s \in Shifts, txn[h] # None,
           Open(txn[h].shifts[s]), ~txn[h].shifts[s].deleted,
           NEW t \in 0 .. now, NEW gone \in BOOLEAN
    PROVE  Decides(h, [txn[h].shifts EXCEPT
                        ![s] = [txn[h].shifts[s] EXCEPT !.status = "finished", !.finished = t,
                                                        !.deleted = gone]],
                      PausesClosed(txn[h].pauses, {s}, [r \in Shifts |-> t]))
<1> DEFINE S == txn[h].shifts
           P == txn[h].pauses
           row == [S[s] EXCEPT !.status = "finished", !.finished = t, !.deleted = gone]
           end == [r \in Shifts |-> t]
           new == PausesClosed(P, {s}, end)
<1>1. S \in Table /\ S[s] \in ShiftRow /\ P \in PauseTable /\ now \in Int /\ t \in Ticks /\ t <= now /\ Skew \in Nat
  BY PickedRow, TicksAreIntegers DEF Open
<1>2. row \in ShiftRow
  BY <1>1 DEF ShiftRow, OrNull
<1>3. /\ row.context = S[s].context /\ row.started = S[s].started /\ row.status = "finished"
      /\ row.finished = t
  BY <1>1 DEF ShiftRow
<1>4. /\ new \in PauseTable /\ OpenPausesOf(new, s) = {}
      /\ \A r \in Shifts \ {s} : OpenPausesOf(new, r) = OpenPausesOf(P, r)
  <2> DEFINE closed == {s}
  <2>1. closed \in SUBSET Shifts /\ \A r \in closed : end[r] \in Ticks
    BY <1>1
  <2>2. P \in PauseTable
    BY <1>1
  <2> HIDE DEF end, closed, P
  <2>3. LET after == PausesClosed(P, closed, end) IN
        /\ after \in PauseTable /\ \A r \in closed : OpenPausesOf(after, r) = {}
        /\ \A r \in Shifts \ closed : OpenPausesOf(after, r) = OpenPausesOf(P, r)
    BY <2>1, <2>2, PausesClosedAre
  <2> QED BY <2>3 DEF closed
<1> HIDE DEF row, new
<1>5. ASSUME UpToDate(h)
      PROVE  /\ Fits(S, s, row)
             /\ row.finished # None => row.finished <= now + Skew
             /\ OnePauseOpen([S EXCEPT ![s] = row], new)
  <2>1. /\ OneOpen(S) /\ Disjoint(S) /\ OnePauseOpen(S, P) /\ S[s].finished = None
    BY <1>5, PickedRow DEF Open
  <2>2. row.finished # None
    BY <1>1, <1>3, TicksAreIntegers
  <2>3. Fits(S, s, row)
    BY <1>1, <1>2, <1>3, <2>1, <2>2, SameShiftFits
  <2>4. OnePauseOpen([S EXCEPT ![s] = row], new)
    <3>1. \A r \in Shifts : [S EXCEPT ![s] = row][r] = IF r = s THEN row ELSE S[r]
      BY <1>1 DEF Table
    <3> QED BY <1>3, <1>4, <2>1, <3>1 DEF OnePauseOpen
  <2> QED BY <1>1, <1>3, <2>3, <2>4, TicksAreIntegers
<1> QED BY <1>2, <1>4, <1>5, RowDecides DEF row, new

LEMMA FinishShiftDecides ==
    ASSUME TypeInv, NEW h \in Handlers, NEW s \in Shifts, FinishShift(h, s)
    PROVE  Decided(h)
<1> DEFINE S == txn[h].shifts
           row == [S[s] EXCEPT !.status = "finished", !.finished = now, !.deleted = FALSE]
           new == PausesClosed(txn[h].pauses, {s}, [r \in Shifts |-> now])
<1>1. /\ txn[h] # None /\ Open(S[s]) /\ ~S[s].deleted
      /\ Commits(h, [S EXCEPT ![s] = [S[s] EXCEPT !.status = "finished", !.finished = now]], new)
  BY DEF FinishShift, Runs, Finished
<1>2. S[s] \in ShiftRow /\ now \in 0 .. now
  BY <1>1, PickedRow DEF Open
<1>3. row = [S[s] EXCEPT !.status = "finished", !.finished = now]
  <2>1. S[s].deleted = FALSE
    BY <1>1, <1>2 DEF ShiftRow
  <2> QED BY <1>2, <2>1 DEF ShiftRow
<1>4. Decides(h, [S EXCEPT ![s] = row], new)
  BY <1>1, <1>2, FinishDecides
<1> HIDE DEF row, new
<1> QED BY <1>1, <1>3, <1>4 DEF Decided

LEMMA DeleteDecides ==
    ASSUME TypeInv, NEW h \in Handlers, NEW s \in Shifts, DeleteShift(h, s)
    PROVE  Decided(h)
<1> DEFINE S == txn[h].shifts
           P == txn[h].pauses
           t == txn[h].since
<1>1. txn[h] # None /\ S[s].context = "org" /\ ~S[s].deleted
  BY DEF DeleteShift, Runs
<1>2. S \in Table /\ S[s] \in ShiftRow /\ P \in PauseTable /\ t \in 0 .. now /\ now \in Int
  BY <1>1, PickedRow
<1>3. CASE Open(S[s])
  <2> DEFINE row == [S[s] EXCEPT !.status = "finished", !.finished = t, !.deleted = TRUE]
             new == PausesClosed(P, {s}, [r \in Shifts |-> t])
  <2>1. Commits(h, [S EXCEPT ![s] = row], new)
    <3>1. row = [[S[s] EXCEPT !.status = "finished", !.finished = t] EXCEPT !.deleted = TRUE]
      BY <1>2 DEF ShiftRow
    <3> QED BY <1>3, <3>1, Zenon DEF DeleteShift, Finished
  <2>2. Decides(h, [S EXCEPT ![s] = row], new)
    BY <1>1, <1>2, <1>3, FinishDecides
  <2> HIDE DEF row, new
  <2> QED BY <1>1, <2>1, <2>2 DEF Decided
<1>4. CASE ~Open(S[s])
  <2> DEFINE row == [S[s] EXCEPT !.deleted = TRUE]
  <2>1. Commits(h, [S EXCEPT ![s] = row], P)
    BY <1>4, Zenon DEF DeleteShift
  <2>2. /\ row \in ShiftRow /\ row.status = "finished" /\ row.context = S[s].context
        /\ row.started = S[s].started /\ row.finished = S[s].finished /\ S[s].status = "finished"
    BY <1>2, <1>4 DEF ShiftRow, Open
  <2> HIDE DEF row
  <2>3. ASSUME UpToDate(h)
        PROVE  /\ Fits(S, s, row)
               /\ row.finished # None => row.finished <= now + Skew
               /\ OnePauseOpen([S EXCEPT ![s] = row], P)
    <3>1. /\ OneOpen(S) /\ Disjoint(S) /\ OnePauseOpen(S, P) /\ S[s].finished # None /\ EndsBy(S, t)
      BY <1>1, <2>2, <2>3, PickedRow
    <3>2. Fits(S, s, row)
      BY <1>1, <1>2, <2>2, <3>1, SameShiftFits
    <3>3. row.finished <= now + Skew
      <4>1. S[s].finished \in Int
        BY <1>2, <3>1, TicksAreIntegers DEF ShiftRow, OrNull
      <4> QED BY <1>2, <2>2, <3>1, <4>1, TicksAreIntegers DEF EndsBy
    <3>4. OnePauseOpen([S EXCEPT ![s] = row], P)
      <4>1. \A r \in Shifts : [S EXCEPT ![s] = row][r] = IF r = s THEN row ELSE S[r]
        BY <1>2 DEF Table
      <4> QED BY <2>2, <3>1, <4>1 DEF OnePauseOpen
    <3> QED BY <3>2, <3>3, <3>4
  <2> QED BY <1>1, <1>2, <2>1, <2>2, <2>3, RowDecides DEF Decided
<1> QED BY <1>3, <1>4

\* Another schedule moves neither start nor end.
LEMMA ChangeScheduleDecides ==
    ASSUME TypeInv, NEW h \in Handlers, NEW s \in Shifts, ChangeShiftSchedule(h, s)
    PROVE  Decided(h)
<1> DEFINE S == txn[h].shifts
           P == txn[h].pauses
<1>1. txn[h] # None /\ S[s].context = "org" /\ ~S[s].deleted
  BY DEF ChangeShiftSchedule, Runs
<1>2. S \in Table /\ S[s] \in ShiftRow /\ P \in PauseTable /\ txn[h].since \in 0 .. now /\ now \in Int
  BY <1>1, PickedRow
<1>3. PICK end \in OrNull(Ticks) : Commits(h, [S EXCEPT ![s] = [S[s] EXCEPT !.scheduledEnd = end]], P)
  <2>1. PICK window \in OrNull(Windows) :
          /\ window # None => S[s].started + window <= LastTick
          /\ Commits(h, [S EXCEPT ![s] = [S[s] EXCEPT !.scheduledEnd =
                            IF window = None THEN None ELSE S[s].started + window]], P)
    BY Zenon DEF ChangeShiftSchedule
  <2>2. (IF window = None THEN None ELSE S[s].started + window) \in OrNull(Ticks)
    <3>1. CASE window # None
      <4>1. S[s].started \in Nat /\ window \in Nat /\ S[s].started + window <= LastTick
        BY <1>2, <2>1, <3>1, WindowsAssumption, TicksAreIntegers DEF ShiftRow, OrNull, Ticks
      <4>2. S[s].started + window \in 0 .. LastTick
        BY <4>1, TicksAreIntegers
      <4> QED BY <3>1, <4>2, TicksAreIntegers DEF OrNull
    <3> QED BY <3>1 DEF OrNull
  <2> QED BY <2>1, <2>2
<1> DEFINE row == [S[s] EXCEPT !.scheduledEnd = end]
<1>4. /\ row \in ShiftRow /\ row.status = S[s].status /\ row.context = S[s].context
      /\ row.started = S[s].started /\ row.finished = S[s].finished /\ row.deleted = S[s].deleted
  BY <1>2 DEF ShiftRow
<1> HIDE DEF row
<1>5. ASSUME UpToDate(h)
      PROVE  /\ Fits(S, s, row)
             /\ row.finished # None => row.finished <= now + Skew
             /\ OnePauseOpen([S EXCEPT ![s] = row], P)
  <2>1. /\ OneOpen(S) /\ Disjoint(S) /\ OnePauseOpen(S, P) /\ EndsBy(S, txn[h].since)
        /\ S[s].status = "finished" <=> S[s].finished # None
    BY <1>1, <1>5, PickedRow
  <2>2. Fits(S, s, row)
    BY <1>1, <1>2, <1>4, <2>1, SameShiftFits
  <2>3. row.finished # None => row.finished <= now + Skew
    <3> SUFFICES ASSUME S[s].finished # None PROVE S[s].finished <= now + Skew
      BY <1>4
    <3>1. S[s].finished \in Int
      BY <1>2, TicksAreIntegers DEF ShiftRow, OrNull
    <3> QED BY <1>2, <2>1, <3>1, TicksAreIntegers DEF EndsBy
  <2>4. OnePauseOpen([S EXCEPT ![s] = row], P)
    <3>1. \A r \in Shifts : [S EXCEPT ![s] = row][r] = IF r = s THEN row ELSE S[r]
      BY <1>2 DEF Table
    <3> QED BY <1>4, <2>1, <3>1 DEF OnePauseOpen
  <2> QED BY <2>2, <2>3, <2>4
<1>6. Commits(h, [S EXCEPT ![s] = row], P)
  BY <1>3 DEF row
<1> QED BY <1>1, <1>2, <1>4, <1>5, <1>6, RowDecides DEF Decided

LEMMA AutoFinishDecides ==
    ASSUME TypeInv, NEW h \in Handlers, AutoFinishStaleShifts(h)
    PROVE  Decided(h)
BY CutDecides DEF AutoFinishStaleShifts, Runs, Decided

\* auto_finish_stale_pauses: of every paused shift it finds, the pause that is open.
LEMMA AutoResumeDecides ==
    ASSUME TypeInv, NEW h \in Handlers, AutoFinishStalePauses(h)
    PROVE  Decided(h)
<1> DEFINE S == txn[h].shifts
           P == txn[h].pauses
           resumed(ended) == [s \in Shifts |-> IF \E p \in ended : P[p].shift = s
                                              THEN [S[s] EXCEPT !.status = "active"] ELSE S[s]]
           after(ended) == [p \in Pauses |-> IF p \in ended
                                            THEN [P[p] EXCEPT !.finished = P[p].started + MaxPause]
                                            ELSE P[p]]
<1>1. txn[h] # None
  BY DEF AutoFinishStalePauses, Runs
<1>2. PICK ended \in SUBSET TooLong(h) : Commits(h, resumed(ended), after(ended))
  BY DEF AutoFinishStalePauses
<1> DEFINE shifts == resumed(ended)
           pauses == after(ended)
<1>3. /\ S \in Table /\ P \in PauseTable /\ txn[h].since \in 0 .. now /\ now \in 0 .. LastTick
      /\ now \in Int /\ txn[h].since \in Int /\ txn[h].since <= now
  BY <1>1, LoadedTables, TicksAreIntegers
<1>4. ASSUME NEW p \in ended
      PROVE  /\ p \in Pauses /\ P[p] \in PauseRow /\ P[p].finished = None /\ P[p].shift \in Shifts
             /\ S[P[p].shift] \in ShiftRow /\ S[P[p].shift].status = "paused"
             /\ P[p].started + MaxPause \in Ticks
  <2>1. /\ p \in Pauses /\ MaxPause # None /\ P[p] # NoPause /\ P[p].finished = None
        /\ S[P[p].shift].status = "paused"
        /\ txn[h].since - P[p].started > MaxPause
    BY DEF TooLong
  <2>2. P[p] \in PauseRow
    BY <1>3, <2>1 DEF PauseTable
  <2>3. P[p].shift \in Shifts /\ P[p].started \in 0 .. LastTick + Skew
    BY <2>2 DEF PauseRow, Ticks
  <2>4. S[P[p].shift] \in ShiftRow
    BY <1>3, <2>1, <2>3, RowKinds DEF Table
  <2>5. MaxPause \in Nat
    BY <2>1, SettingsAssumption DEF OrNull
  <2>6. P[p].started + MaxPause \in Ticks
    BY <1>3, <2>1, <2>3, <2>5, TicksAreIntegers DEF Ticks
  <2> QED BY <2>1, <2>2, <2>3, <2>4, <2>6
<1>5. \A p \in Pauses : /\ p \in ended => /\ pauses[p] \in PauseRow /\ pauses[p].shift = P[p].shift
                                         /\ pauses[p].finished # None
                        /\ p \notin ended => pauses[p] = P[p]
  <2> SUFFICES ASSUME NEW p \in ended
               PROVE  LET row == [P[p] EXCEPT !.finished = P[p].started + MaxPause] IN
                      row \in PauseRow /\ row.shift = P[p].shift /\ row.finished # None
    BY <1>4
  <2>1. P[p] \in PauseRow /\ P[p].started + MaxPause \in Ticks
    BY <1>4
  <2> HIDE DEF P
  <2> QED BY <2>1, TicksAreIntegers DEF PauseRow, OrNull
<1>6. \A s \in Shifts : \/ shifts[s] = S[s]
                        \/ /\ \E p \in ended : P[p].shift = s
                           /\ shifts[s] = [S[s] EXCEPT !.status = "active"]
  OBVIOUS
<1>7. ASSUME NEW s \in Shifts, \E p \in ended : P[p].shift = s
      PROVE  /\ S[s] \in ShiftRow /\ S[s].status = "paused"
             /\ shifts[s] \in ShiftRow /\ shifts[s].status = "active"
             /\ shifts[s].context = S[s].context /\ shifts[s].started = S[s].started
             /\ shifts[s].finished = S[s].finished /\ shifts[s].deleted = S[s].deleted
  <2>1. S[s] \in ShiftRow /\ S[s].status = "paused" /\ shifts[s] = [S[s] EXCEPT !.status = "active"]
    BY <1>4, <1>7
  <2> HIDE DEF shifts, S
  <2> QED BY <2>1 DEF ShiftRow
<1>8. ASSUME NEW s \in Shifts, ~\E p \in ended : P[p].shift = s PROVE shifts[s] = S[s]
  BY <1>8
<1>9. shifts = [s \in Shifts |-> shifts[s]] /\ pauses = [p \in Pauses |-> pauses[p]]
  OBVIOUS
<1> HIDE DEF shifts, pauses, S, P
<1>10. shifts \in Table /\ pauses \in PauseTable /\ \A s \in Shifts : S[s] # NoShift => shifts[s] # NoShift
  <2>1. \A s \in Shifts : shifts[s] \in ShiftRow \cup {NoShift} /\ (S[s] # NoShift => shifts[s] # NoShift)
    BY <1>3, <1>7, <1>8, RowKinds DEF Table
  <2>2. \A p \in Pauses : pauses[p] \in PauseRow \cup {NoPause}
    BY <1>3, <1>5 DEF PauseTable
  <2> QED BY <1>9, <2>1, <2>2 DEF Table, PauseTable
<1>11. ASSUME UpToDate(h) PROVE Sound(shifts, pauses) /\ EndsBy(shifts, now)
  <2>1. Sound(S, P) /\ EndsBy(S, txn[h].since)
    BY <1>11 DEF UpToDate, S, P
  <2>2. EndWithStatus(shifts)
    <3> SUFFICES ASSUME NEW s \in Shifts
                 PROVE  /\ shifts[s] # NoShift => (shifts[s].status = "finished" <=> shifts[s].finished # None)
                        /\ shifts[s].deleted => shifts[s].status = "finished"
      BY DEF EndWithStatus
    <3>1. CASE \E p \in ended : P[p].shift = s
      BY <1>7, <2>1, <3>1, RowKinds DEF Sound, EndWithStatus
    <3> QED BY <1>8, <2>1, <3>1 DEF Sound, EndWithStatus
  <2>3. OneOpen(shifts)
    <3>1. \A s \in Shifts : (shifts[s].context # None /\ shifts[s].status # "finished" /\ ~shifts[s].deleted) =>
               S[s].context = shifts[s].context /\ S[s].status # "finished" /\ ~S[s].deleted
      BY <1>7, <1>8
    <3> QED BY <2>1, <3>1, OneOpenFollows DEF Sound
  <2>4. Disjoint(shifts)
    <3>1. \A s \in Shifts : InOrganization(shifts[s]) =>
               /\ InOrganization(S[s]) /\ shifts[s].started = S[s].started
               /\ S[s].finished # None => shifts[s].finished = S[s].finished
      BY <1>7, <1>8 DEF InOrganization
    <3> QED BY <2>1, <3>1, DisjointFollows DEF Sound
  <2>5. OnePauseOpen(shifts, pauses)
    <3> SUFFICES ASSUME NEW s \in Shifts
                 PROVE  IF shifts[s].status = "paused" THEN \E p \in Pauses : OpenPausesOf(pauses, s) = {p}
                        ELSE OpenPausesOf(pauses, s) = {}
      BY DEF OnePauseOpen
    <3>1. CASE \E p \in ended : P[p].shift = s
      <4>1. PICK p \in ended : P[p].shift = s
        BY <3>1
      <4>2. \E q \in Pauses : OpenPausesOf(P, s) = {q}
        BY <1>7, <2>1, <3>1 DEF Sound, OnePauseOpen
      <4>3. OpenPausesOf(P, s) = {p}
        BY <1>4, <4>1, <4>2 DEF OpenPausesOf
      <4>4. OpenPausesOf(pauses, s) = {}
        BY <1>5, <4>1, <4>3 DEF OpenPausesOf
      <4> QED BY <1>7, <3>1, <4>4
    <3>2. CASE ~\E p \in ended : P[p].shift = s
      <4>1. OpenPausesOf(pauses, s) = OpenPausesOf(P, s)
        BY <1>5, <3>2 DEF OpenPausesOf
      <4> QED BY <1>8, <2>1, <3>2, <4>1 DEF Sound, OnePauseOpen
    <3> QED BY <3>1, <3>2
  <2>6. EndsBy(shifts, now)
    <3>1. EndsBy(shifts, txn[h].since)
      BY <1>7, <1>8, <2>1 DEF EndsBy
    <3>2. \A s \in Shifts : shifts[s].finished \in OrNull(Ticks)
      BY <1>10 DEF Table, ShiftRow, NoShift, OrNull
    <3> QED BY <1>3, <3>1, <3>2, EndsByLater
  <2> QED BY <2>2, <2>3, <2>4, <2>5, <2>6 DEF Sound
<1>12. Decides(h, shifts, pauses)
  BY <1>10, <1>11 DEF Decides, S
<1>13. Commits(h, shifts, pauses)
  BY <1>2 DEF shifts, pauses, S, P
<1> QED BY <1>1, <1>12, <1>13 DEF Decided

\* Nobody else is open once the stale shifts are cut, and no end lies far ahead.
LEMMA StartDecides ==
    ASSUME TypeInv, NEW h \in Handlers, NEW context \in Contexts, StartShift(h, context)
    PROVE  Decided(h)
<1> DEFINE S == txn[h].shifts
           base == ShiftsCut(h)
           pauses == PausesCut(h)
           opened(s, end) == [context |-> context, status |-> "active", started |-> txn[h].since,
                              finished |-> None, deleted |-> FALSE, scheduledEnd |-> end]
<1>1. txn[h] # None /\ context \in {"personal", "org"}
  BY ContextsAssumption DEF StartShift, Runs
<1>2. /\ S \in Table /\ txn[h].since \in 0 .. now /\ now \in Int /\ txn[h].since \in Int /\ txn[h].since <= now
      /\ txn[h].since \in 0 .. LastTick /\ txn[h].since \in Ticks
      /\ \A r \in Shifts : S[r] # NoShift => shift[r] # NoShift
  BY <1>1, LoadedTables, TicksAreIntegers
<1>3. PICK s \in Shifts, end \in OrNull(Ticks) :
        IsNew(s) /\ Commits(h, [base EXCEPT ![s] = opened(s, end)], pauses)
  <2>1. PICK s \in Shifts, window \in IF context = "org" THEN OrNull(Windows) ELSE {None} :
          /\ IsNew(s)
          /\ window # None => txn[h].since + window <= LastTick
          /\ Commits(h, [base EXCEPT ![s] =
                opened(s, IF window = None THEN None ELSE txn[h].since + window)], pauses)
    BY DEF StartShift
  <2>2. (IF window = None THEN None ELSE txn[h].since + window) \in OrNull(Ticks)
    <3>1. CASE window # None
      <4>1. window \in Nat /\ txn[h].since + window \in 0 .. LastTick
        BY <1>2, <2>1, <3>1, WindowsAssumption, TicksAreIntegers DEF OrNull
      <4> QED BY <3>1, <4>1, TicksAreIntegers DEF OrNull
    <3> QED BY <3>1 DEF OrNull
  <2> QED BY <2>1, <2>2
<1> DEFINE row == opened(s, end)
           after == [base EXCEPT ![s] = row]
<1>4. /\ row \in ShiftRow /\ row.status = "active" /\ row.finished = None /\ ~row.deleted
      /\ row.context = context /\ row.started = txn[h].since
  BY <1>1, <1>2 DEF ShiftRow, OrNull
<1>5. /\ base \in Table /\ pauses \in PauseTable
      /\ \A r \in Shifts : S[r] # NoShift => base[r] # NoShift
      /\ \A r \in Shifts \ Stale(h) : base[r] = S[r]
      /\ \A r \in Stale(h) : base[r].status = "finished"
      /\ UpToDate(h) => Sound(base, pauses) /\ EndsBy(base, now) /\ EndsBy(base, txn[h].since)
  BY <1>1, CutDecides DEF Decides, UpToDate
<1>6. S[s] = NoShift /\ base[s] = NoShift
  <2>1. S[s] = NoShift
    BY <1>2, <1>3 DEF IsNew
  <2>2. s \notin Stale(h)
    BY <2>1, NoneAssumption DEF Stale, NoShift
  <2> QED BY <1>5, <2>1, <2>2
<1> HIDE DEF base, pauses, row
<1>7. after \in Table /\ \A r \in Shifts : S[r] # NoShift => after[r] # NoShift
  BY <1>4, <1>5, <1>6 DEF Table
<1>8. ASSUME UpToDate(h) PROVE Sound(after, pauses) /\ EndsBy(after, now)
  <2>1. /\ EndWithStatus(base) /\ OneOpen(base) /\ OnePauseOpen(base, pauses) /\ Disjoint(base)
        /\ EndsBy(base, now) /\ EndsBy(base, txn[h].since)
    BY <1>5, <1>8 DEF Sound
  <2>2. ASSUME NEW r \in Shifts \ {s}, base[r].context = context, ~base[r].deleted
        PROVE  base[r] \in ShiftRow /\ base[r].status = "finished"
    <3>1. base[r] \in ShiftRow
      BY <1>1, <1>5, <2>2, RowKinds DEF Table
    <3>2. CASE r \notin Stale(h)
      <4>1. ~Open(S[r]) /\ base[r] = S[r]
        BY <1>5, <2>2, <3>2 DEF StartShift
      <4> QED BY <3>1, <4>1 DEF Open, ShiftRow
    <3> QED BY <1>5, <3>1, <3>2
  <2>3. Fits(base, s, row)
    <3>1. ASSUME NEW r \in Shifts \ {s}, InOrganization(row), InOrganization(base[r])
          PROVE  Near(row, base[r])
      <4>1. base[r] \in ShiftRow /\ base[r].status = "finished"
        BY <1>4, <2>2, <3>1 DEF InOrganization
      <4>2. base[r].finished # None /\ base[r].finished <= txn[h].since + Skew
        BY <2>1, <4>1, RowKinds DEF EndWithStatus, EndsBy
      <4>3. base[r].finished \in Int
        BY <4>1, <4>2, TicksAreIntegers DEF ShiftRow, OrNull
      <4>4. base[r].finished - row.started <= Skew
        BY <1>2, <1>4, <4>2, <4>3, TicksAreIntegers
      <4> QED BY <4>2, <4>4 DEF Near
    <3> QED BY <1>4, <2>2, <3>1 DEF Fits
  <2>4. EndWithStatus(after) /\ OneOpen(after) /\ Disjoint(after) /\ EndsBy(after, now)
    BY <1>4, <1>5, <2>1, <2>3, FittingRow
  <2>5. OnePauseOpen(after, pauses)
    <3>1. \A r \in Shifts : after[r] = IF r = s THEN row ELSE base[r]
      BY <1>5 DEF Table
    <3>2. OpenPausesOf(pauses, s) = {}
      BY <1>6, <2>1, NoneAssumption DEF OnePauseOpen, NoShift
    <3> QED BY <1>4, <2>1, <3>1, <3>2 DEF OnePauseOpen
  <2> QED BY <2>4, <2>5 DEF Sound
<1>9. Decides(h, after, pauses)
  BY <1>5, <1>7, <1>8 DEF Decides
<1>10. Commits(h, after, pauses)
  BY <1>3 DEF row
<1> QED BY <1>1, <1>9, <1>10 DEF Decided

(***************************************************************************)
(* The administrator                                                       *)
(***************************************************************************)

\* A shift with an end that overlaps no other is near to every other.
LEMMA NoOverlapIsNear ==
    ASSUME NEW h, txn[h].shifts \in Table, NEW without, NEW started \in Int, NEW finished \in Int,
           ~Overlaps(h, started, finished, without), finished # None,
           NEW row, row.started = started, row.finished = finished,
           NEW r \in Shifts \ without, InOrganization(txn[h].shifts[r])
    PROVE  Near(row, txn[h].shifts[r])
<1> DEFINE other == txn[h].shifts[r]
<1>1. other \in ShiftRow
  BY RowKinds DEF InOrganization, Table
<1>2. /\ ~(other.started < finished) \/ (other.finished # None /\ ~(other.finished > started))
  BY DEF Overlaps, InOrganization
<1>3. other.started \in Int /\ (other.finished # None => other.finished \in Int)
  BY <1>1, TicksAreIntegers DEF ShiftRow, OrNull
<1> HIDE DEF other
<1>4. CASE ~(other.started < finished)
  <2>1. row.finished # None /\ row.finished - other.started <= Skew
    BY <1>3, <1>4, TicksAreIntegers
  <2> QED BY <2>1 DEF Near, other
<1>5. CASE other.finished # None /\ ~(other.finished > started)
  <2>1. other.finished # None /\ other.finished - row.started <= Skew
    BY <1>3, <1>5, TicksAreIntegers
  <2> QED BY <2>1 DEF Near, other
<1> QED BY <1>2, <1>4, <1>5

\* Pauses of a request have an end and lie within the shift.
LEMMA GivenPauses ==
    ASSUME NEW intervals \in PauseLists, NEW started \in Ticks, NEW finished \in Ticks,
           ValidPauses(intervals, started, finished)
    PROVE  \A i \in intervals : i[1] \in Ticks /\ i[2] \in Ticks
<1> SUFFICES ASSUME NEW i \in intervals PROVE i[1] \in Ticks /\ i[2] \in Ticks
  OBVIOUS
<1>1. i[1] \in Nat /\ i[2] \in Nat
  <2>1. i \in Nat \X Nat
    BY PauseListsAssumption
  <2> QED BY <2>1
<1>2. i[1] < i[2] /\ started <= i[1] /\ i[2] <= finished
  BY DEF ValidPauses
<1> QED BY <1>1, <1>2, TicksAreIntegers DEF Ticks

LEMMA InsertedWithEnds ==
    ASSUME NEW h, NEW pauses \in PauseTable, \A p \in Free(h) : pauses[p] = NoPause,
           NEW s \in Shifts, NEW intervals, \A i \in intervals : i[1] \in Ticks /\ i[2] \in Ticks,
           ExistsInjection(intervals, Free(h))
    PROVE  LET after == Inserted(h, pauses, s, intervals) IN
           /\ after \in PauseTable
           /\ \A r \in Shifts : OpenPausesOf(after, r) = OpenPausesOf(pauses, r)
<1> DEFINE after == Inserted(h, pauses, s, intervals)
<1>1. /\ after \in PauseTable
      /\ \A p \in Pauses : \/ after[p] = pauses[p]
                          \/ /\ p \in Free(h)
                             /\ \E i \in intervals :
                                 after[p] = [shift |-> s, started |-> i[1], finished |-> i[2]]
  BY InsertedPauses DEF OrNull
<1> HIDE DEF after
<1>2. \A p \in Pauses : after[p] = pauses[p] \/ (pauses[p].shift \notin Shifts /\ after[p].finished # None)
  <2> SUFFICES ASSUME NEW p \in Free(h), NEW i \in intervals,
                      after[p] = [shift |-> s, started |-> i[1], finished |-> i[2]]
               PROVE  pauses[p].shift \notin Shifts /\ after[p].finished # None
    BY <1>1
  <2>1. i[2] \in Ticks /\ after[p].finished = i[2]
    OBVIOUS
  <2>2. pauses[p].shift = None
    BY DEF NoPause
  <2> QED BY <2>1, <2>2, TicksAreIntegers
<1>3. ASSUME NEW r \in Shifts PROVE OpenPausesOf(after, r) = OpenPausesOf(pauses, r)
  BY <1>2 DEF OpenPausesOf
<1> QED BY <1>1, <1>3 DEF after

LEMMA CreateDecides ==
    ASSUME TypeInv, NEW h \in Handlers, CreateManualShift(h)
    PROVE  Decided(h)
<1> DEFINE S == txn[h].shifts
           P == txn[h].pauses
<1>1. txn[h] # None
  BY DEF CreateManualShift, Runs
<1>2. /\ S \in Table /\ P \in PauseTable /\ now \in Int /\ txn[h].since \in Int /\ txn[h].since <= now
      /\ \A r \in Shifts : S[r] # NoShift => shift[r] # NoShift
  <2>1. /\ S \in Table /\ P \in PauseTable /\ txn[h].since \in 0 .. now /\ now \in 0 .. LastTick
        /\ \A r \in Shifts : S[r] # NoShift => shift[r] # NoShift
    BY <1>1, LoadedTables
  <2>2. now \in Int /\ txn[h].since \in Int /\ txn[h].since <= now
    BY <2>1, TicksAreIntegers
  <2> QED BY <2>1, <2>2
<1>3. PICK s \in Shifts, started \in Ticks, finished \in Ticks, intervals \in PauseLists :
        /\ IsNew(s) /\ ValidInterval(h, started, finished) /\ ~Overlaps(h, started, finished, {})
        /\ ValidPauses(intervals, started, finished) /\ ExistsInjection(intervals, Free(h))
        /\ Commits(h, [S EXCEPT ![s] =
                            [context |-> "org", status |-> "finished", started |-> started,
                             finished |-> finished, deleted |-> FALSE, scheduledEnd |-> None]],
                      Inserted(h, P, s, intervals))
  BY DEF CreateManualShift
<1> DEFINE row == [context |-> "org", status |-> "finished", started |-> started,
                   finished |-> finished, deleted |-> FALSE, scheduledEnd |-> None]
           new == Inserted(h, P, s, intervals)
<1>4. /\ row \in ShiftRow /\ row.context = "org" /\ row.status = "finished" /\ row.started = started
      /\ row.finished = finished /\ ~row.deleted
  BY DEF ShiftRow, OrNull
<1>5. new \in PauseTable /\ \A r \in Shifts : OpenPausesOf(new, r) = OpenPausesOf(P, r)
  <2>1. \A i \in intervals : i[1] \in Ticks /\ i[2] \in Ticks
    BY <1>3, GivenPauses
  <2>2. \A p \in Free(h) : P[p] = NoPause
    BY DEF Free
  <2> QED BY <1>2, <1>3, <2>1, <2>2, InsertedWithEnds
<1>6. Commits(h, [S EXCEPT ![s] = row], new)
  BY <1>3
<1> HIDE DEF row, new
<1>7. ASSUME UpToDate(h)
      PROVE  /\ Fits(S, s, row)
             /\ row.finished # None => row.finished <= now + Skew
             /\ OnePauseOpen([S EXCEPT ![s] = row], new)
  <2>1. started \in Int /\ finished \in Int /\ finished # None
    BY TicksAreIntegers
  <2>2. Fits(S, s, row)
    BY <1>2, <1>3, <1>4, <2>1, NoOverlapIsNear DEF Fits
  <2>3. row.finished <= now + Skew
    BY <1>2, <1>3, <1>4, <2>1, TicksAreIntegers DEF ValidInterval
  <2>4. OnePauseOpen([S EXCEPT ![s] = row], new)
    <3>1. \A r \in Shifts : [S EXCEPT ![s] = row][r] = IF r = s THEN row ELSE S[r]
      BY <1>2 DEF Table
    <3>2. OnePauseOpen(S, P)
      BY <1>7 DEF UpToDate, Sound
    <3>3. S[s] = NoShift
      BY <1>2, <1>3 DEF IsNew
    <3>4. OpenPausesOf(P, s) = {}
      BY <3>2, <3>3, NoneAssumption DEF OnePauseOpen, NoShift
    <3> QED BY <1>4, <1>5, <3>1, <3>2, <3>4 DEF OnePauseOpen
  <2> QED BY <2>2, <2>3, <2>4
<1> QED BY <1>1, <1>4, <1>5, <1>6, <1>7, RowDecides DEF Decided

LEMMA RestoreDecides ==
    ASSUME TypeInv, NEW h \in Handlers, NEW s \in Shifts, RestoreShift(h, s)
    PROVE  Decided(h)
<1> DEFINE S == txn[h].shifts
           P == txn[h].pauses
           row == [S[s] EXCEPT !.deleted = FALSE]
<1>1. /\ txn[h] # None /\ S[s].context = "org" /\ S[s].deleted
      /\ ~Overlaps(h, S[s].started, Given(S[s].finished, txn[h].since), {s})
      /\ Commits(h, [S EXCEPT ![s] = row], P)
  BY DEF RestoreShift, Runs
<1>2. S \in Table /\ S[s] \in ShiftRow /\ P \in PauseTable /\ txn[h].since \in 0 .. now /\ now \in Int
  BY <1>1, PickedRow
<1>3. /\ row \in ShiftRow /\ row.status = S[s].status /\ row.context = "org"
      /\ row.started = S[s].started /\ row.finished = S[s].finished /\ ~row.deleted
  BY <1>1, <1>2 DEF ShiftRow
<1> HIDE DEF row
<1>4. ASSUME UpToDate(h)
      PROVE  /\ Fits(S, s, row)
             /\ row.finished # None => row.finished <= now + Skew
             /\ OnePauseOpen([S EXCEPT ![s] = row], P)
  <2>1. /\ OnePauseOpen(S, P) /\ EndsBy(S, txn[h].since)
        /\ S[s].status = "finished" /\ S[s].finished # None
    BY <1>1, <1>4, PickedRow DEF EndWithStatus
  <2>2. S[s].finished \in Int /\ S[s].started \in Int
    BY <1>2, <2>1, TicksAreIntegers DEF ShiftRow, OrNull
  <2>3. ~Overlaps(h, S[s].started, S[s].finished, {s})
    BY <1>1, <2>1 DEF Given
  <2>4. Fits(S, s, row)
    BY <1>2, <1>3, <2>1, <2>2, <2>3, NoOverlapIsNear DEF Fits
  <2>5. row.finished <= now + Skew
    BY <1>2, <1>3, <2>1, <2>2, TicksAreIntegers DEF EndsBy
  <2>6. OnePauseOpen([S EXCEPT ![s] = row], P)
    <3>1. \A r \in Shifts : [S EXCEPT ![s] = row][r] = IF r = s THEN row ELSE S[r]
      BY <1>2 DEF Table
    <3> QED BY <1>3, <2>1, <3>1 DEF OnePauseOpen
  <2> QED BY <2>4, <2>5, <2>6
<1> QED BY <1>1, <1>2, <1>3, <1>4, RowDecides DEF Decided

\* The pauses after an update that names none: an open one goes with the end of the shift.
LEMMA PausesAfterUpdateAre ==
    ASSUME NEW h, NEW s, NEW started, NEW finished, NEW moved \in BOOLEAN,
           NEW pauses \in PausesAfterUpdate(h, s, started, finished, moved)
    PROVE  IF Open(txn[h].shifts[s]) /\ finished # None
           THEN pauses = PausesEnded(txn[h].pauses, s, finished)
           ELSE pauses = txn[h].pauses
<1> DEFINE P == txn[h].pauses
           open == Open(txn[h].shifts[s])
           own == {P[p] : p \in PausesOf(P, s)}
<1>1. CASE open /\ finished # None
  <2>1. PausesAfterUpdate(h, s, started, finished, moved) = {PausesEnded(P, s, finished)}
    BY <1>1, Zenon DEF PausesAfterUpdate
  <2> QED BY <1>1, <2>1
<1>2. CASE ~(open /\ finished # None)
  <2>1. CASE ~open /\ moved
    <3>1. CASE finished = None
      <4>1. PausesAfterUpdate(h, s, started, finished, moved) \in {{P}, {}}
        BY <2>1, <3>1, Zenon DEF PausesAfterUpdate
      <4> QED BY <1>2, <4>1
    <3>2. CASE finished # None
      <4>1. PausesAfterUpdate(h, s, started, finished, moved) =
              IF ValidPauses({<<b.started, b.finished>> : b \in own}, started, finished) THEN {P} ELSE {}
        BY <2>1, <3>2, Zenon DEF PausesAfterUpdate
      <4> QED BY <1>2, <4>1
    <3> QED BY <3>1, <3>2
  <2>2. CASE open /\ finished = None /\ moved
    <3>1. PausesAfterUpdate(h, s, started, finished, moved) =
            IF \A b \in own : b.started >= started THEN {P} ELSE {}
      BY <2>2, Zenon DEF PausesAfterUpdate
    <3> QED BY <1>2, <3>1
  <2>3. CASE ~moved
    <3>1. PausesAfterUpdate(h, s, started, finished, moved) = {P}
      BY <1>2, <2>3, Zenon DEF PausesAfterUpdate
    <3> QED BY <1>2, <3>1
  <2> QED BY <1>2, <2>1, <2>2, <2>3
<1> QED BY <1>1, <1>2

LEMMA PausesEndedAre ==
    ASSUME NEW pauses \in PauseTable, NEW s \in Shifts, NEW end \in Ticks
    PROVE  LET after == PausesEnded(pauses, s, end) IN
           /\ after \in PauseTable
           /\ OpenPausesOf(after, s) = {}
           /\ \A r \in Shifts \ {s} : OpenPausesOf(after, r) = OpenPausesOf(pauses, r)
<1> DEFINE after == PausesEnded(pauses, s, end)
<1>1. ASSUME NEW p \in Pauses
      PROVE  /\ after[p] \in PauseRow \cup {NoPause}
             /\ pauses[p].shift # s \/ pauses[p].finished # None => after[p] = pauses[p]
             /\ pauses[p].shift = s /\ pauses[p].finished = None =>
                    after[p].finished # None \/ after[p] = NoPause
             /\ after[p].shift # pauses[p].shift => after[p] = NoPause
  <2>1. after[p] = IF pauses[p].shift # s \/ pauses[p].finished # None THEN pauses[p]
                   ELSE IF pauses[p].started < end THEN [pauses[p] EXCEPT !.finished = end]
                   ELSE NoPause
    BY DEF PausesEnded
  <2>2. CASE pauses[p].shift # s \/ pauses[p].finished # None
    BY <2>1, <2>2 DEF PauseTable
  <2>3. CASE pauses[p].shift = s /\ pauses[p].finished = None
    <3>1. pauses[p] \in PauseRow
      BY <2>3, PauseKinds DEF PauseTable
    <3>2. LET row == [pauses[p] EXCEPT !.finished = end] IN
          row \in PauseRow /\ row.shift = pauses[p].shift /\ row.finished # None
      BY <3>1, TicksAreIntegers DEF PauseRow, OrNull
    <3> QED BY <2>1, <2>3, <3>2
  <2> QED BY <2>2, <2>3
<1>2. after = [p \in Pauses |-> after[p]]
  BY DEF PausesEnded
<1> HIDE DEF after
<1>3. after \in PauseTable
  BY <1>1, <1>2 DEF PauseTable
<1>4. NoPause.shift \notin Shifts
  BY TicksAreIntegers DEF NoPause
<1>5. OpenPausesOf(after, s) = {}
  <2> SUFFICES ASSUME NEW p \in Pauses, after[p].shift = s, after[p].finished = None PROVE FALSE
    BY DEF OpenPausesOf
  <2> QED BY <1>1, <1>4
<1>6. ASSUME NEW r \in Shifts \ {s} PROVE OpenPausesOf(after, r) = OpenPausesOf(pauses, r)
  <2>1. ASSUME NEW p \in Pauses
        PROVE  (after[p].shift = r /\ after[p].finished = None) <=> (pauses[p].shift = r /\ pauses[p].finished = None)
    BY <1>1, <1>4
  <2> QED BY <2>1 DEF OpenPausesOf
<1> QED BY <1>3, <1>5, <1>6 DEF after

\* The pauses of the request in place of those of the shift.
LEMMA PausesReplacedAre ==
    ASSUME NEW h, txn[h].pauses \in PauseTable, NEW s \in Shifts, NEW intervals,
           \A i \in intervals : i[1] \in Ticks /\ i[2] \in Ticks, ExistsInjection(intervals, Free(h))
    PROVE  LET after == PausesReplaced(h, s, intervals) IN
           /\ after \in PauseTable
           /\ OpenPausesOf(after, s) = {}
           /\ \A r \in Shifts \ {s} : OpenPausesOf(after, r) = OpenPausesOf(txn[h].pauses, r)
<1> DEFINE P == txn[h].pauses
           base == [p \in Pauses |-> IF P[p].shift = s THEN NoPause ELSE P[p]]
           after == Inserted(h, base, s, intervals)
<1>1. base \in PauseTable
  BY DEF PauseTable
<1>2. \A p \in Free(h) : base[p] = NoPause
  BY DEF Free
<1>3. NoPause.shift \notin Shifts
  BY TicksAreIntegers DEF NoPause
<1>4. OpenPausesOf(base, s) = {} /\ \A r \in Shifts \ {s} : OpenPausesOf(base, r) = OpenPausesOf(P, r)
  BY <1>3 DEF OpenPausesOf
<1> HIDE DEF base
<1>5. after \in PauseTable /\ \A r \in Shifts : OpenPausesOf(after, r) = OpenPausesOf(base, r)
  BY <1>1, <1>2, InsertedWithEnds
<1>6. PausesReplaced(h, s, intervals) = after
  BY DEF PausesReplaced, base
<1> HIDE DEF after
<1> QED BY <1>4, <1>5, <1>6

LEMMA UpdateDecides ==
    ASSUME TypeInv, NEW h \in Handlers, NEW s \in Shifts, UpdateManualShift(h, s)
    PROVE  Decided(h)
<1> DEFINE S == txn[h].shifts
           P == txn[h].pauses
           old == S[s]
<1>1. txn[h] # None /\ old.context = "org" /\ ~old.deleted
  BY DEF UpdateManualShift, Runs
<1>2. S \in Table /\ old \in ShiftRow /\ P \in PauseTable /\ txn[h].since \in 0 .. now /\ now \in Int
  BY <1>1, PickedRow
<1>4. PICK newStart \in OrNull(Ticks), newEnd \in OrNull(Ticks) :
        LET started  == Given(newStart, old.started)
            finished == IF Open(old) THEN newEnd ELSE Given(newEnd, old.finished)
            moved    == started # old.started \/ finished # old.finished
            status   == IF finished # None THEN "finished" ELSE old.status
            row      == [old EXCEPT !.started = started, !.finished = finished, !.status = status]
        IN
        /\ moved => /\ IF finished # None THEN ValidInterval(h, started, finished)
                       ELSE started <= txn[h].since + Skew
                    /\ ~Overlaps(h, started, Given(finished, txn[h].since), {s})
        /\ \/ \E pauses \in PausesAfterUpdate(h, s, started, finished, moved) :
                Commits(h, [S EXCEPT ![s] = row], pauses)
           \/ /\ finished # None
              /\ \E intervals \in PauseLists :
                  /\ ValidPauses(intervals, started, finished)
                  /\ ExistsInjection(intervals, Free(h))
                  /\ Commits(h, [S EXCEPT ![s] = row], PausesReplaced(h, s, intervals))
  BY Zenon DEF UpdateManualShift
<1> DEFINE started  == Given(newStart, old.started)
           finished == IF Open(old) THEN newEnd ELSE Given(newEnd, old.finished)
           moved    == started # old.started \/ finished # old.finished
           status   == IF finished # None THEN "finished" ELSE old.status
           row      == [old EXCEPT !.started = started, !.finished = finished, !.status = status]
<1>5. started \in Ticks /\ finished \in OrNull(Ticks) /\ moved \in BOOLEAN
      /\ status \in {"active", "paused", "finished"}
  BY <1>2 DEF ShiftRow, Given, OrNull
<1>6. /\ moved /\ finished # None => ValidInterval(h, started, finished)
      /\ moved => ~Overlaps(h, started, Given(finished, txn[h].since), {s})
  BY <1>4, Zenon
<1>7. /\ ~moved => started = old.started /\ finished = old.finished
      /\ status = IF finished # None THEN "finished" ELSE old.status
      /\ ~Open(old) /\ old.finished # None => finished # None
  BY NoneAssumption DEF Given
<1>8. PICK pauses :
        /\ Commits(h, [S EXCEPT ![s] = row], pauses)
        /\ \/ pauses \in PausesAfterUpdate(h, s, started, finished, moved)
           \/ /\ finished # None
              /\ \E intervals \in PauseLists :
                  /\ ValidPauses(intervals, started, finished)
                  /\ ExistsInjection(intervals, Free(h))
                  /\ pauses = PausesReplaced(h, s, intervals)
  BY <1>4, Zenon
<1> HIDE DEF started, finished, moved, status
<1>9. /\ row \in ShiftRow /\ row.context = "org" /\ row.status = status /\ row.started = started
      /\ row.finished = finished /\ ~row.deleted
  BY <1>1, <1>2, <1>5 DEF ShiftRow
<1> HIDE DEF row
<1>10. /\ pauses \in PauseTable
       /\ \A r \in Shifts \ {s} : OpenPausesOf(pauses, r) = OpenPausesOf(P, r)
       /\ \/ OpenPausesOf(pauses, s) = {} /\ finished # None
          \/ OpenPausesOf(pauses, s) = OpenPausesOf(P, s) /\ ~(Open(old) /\ finished # None)
  <2>1. CASE pauses \in PausesAfterUpdate(h, s, started, finished, moved)
    <3>1. IF Open(old) /\ finished # None THEN pauses = PausesEnded(P, s, finished) ELSE pauses = P
      BY <1>5, <2>1, PausesAfterUpdateAre
    <3>2. CASE Open(old) /\ finished # None
      <4>1. finished \in Ticks /\ pauses = PausesEnded(P, s, finished)
        BY <1>5, <3>1, <3>2 DEF OrNull
      <4> QED BY <1>2, <3>2, <4>1, PausesEndedAre
    <3> QED BY <1>2, <3>1, <3>2
  <2>2. ASSUME finished # None, NEW intervals \in PauseLists, ValidPauses(intervals, started, finished),
               ExistsInjection(intervals, Free(h)), pauses = PausesReplaced(h, s, intervals)
        PROVE  /\ pauses \in PauseTable /\ OpenPausesOf(pauses, s) = {}
               /\ \A r \in Shifts \ {s} : OpenPausesOf(pauses, r) = OpenPausesOf(P, r)
    <3>1. \A i \in intervals : i[1] \in Ticks /\ i[2] \in Ticks
      BY <1>5, <2>2, GivenPauses DEF OrNull
    <3> QED BY <1>2, <2>2, <3>1, PausesReplacedAre
  <2> QED BY <1>8, <2>1, <2>2
<1>11. ASSUME UpToDate(h)
       PROVE  /\ Fits(S, s, row)
              /\ row.finished # None => row.finished <= now + Skew
              /\ OnePauseOpen([S EXCEPT ![s] = row], pauses)
  <2>1. /\ OneOpen(S) /\ Disjoint(S) /\ EndWithStatus(S) /\ OnePauseOpen(S, P) /\ EndsBy(S, txn[h].since)
        /\ old.status = "finished" <=> old.finished # None
    BY <1>1, <1>11, PickedRow
  <2>2. /\ row.status = "finished" <=> row.finished # None
        /\ row.status # "finished" => row.status = old.status
    BY <1>2, <1>7, <1>9, <2>1 DEF Open, ShiftRow
  <2>3. /\ started \in Int /\ txn[h].since \in Int /\ txn[h].since <= now
        /\ finished # None => finished \in Int
    BY <1>2, <1>5, TicksAreIntegers DEF OrNull
  <2>4. Fits(S, s, row)
    <3>1. CASE ~moved
      <4>1. row.started = old.started /\ row.finished = old.finished
        BY <1>7, <1>9, <3>1
      <4> QED BY <1>1, <1>2, <1>9, <2>1, <2>2, <4>1, SameShiftFits
    <3>2. CASE moved
      <4>1. ASSUME NEW r \in Shifts \ {s}, S[r].context = "org", ~S[r].deleted
            PROVE  row.status = "finished" \/ S[r].status = "finished"
        BY <1>1, <2>1, <2>2, <4>1, NoneAssumption DEF OneOpen
      <4>2. ASSUME NEW r \in Shifts \ {s}, InOrganization(S[r]) PROVE Near(row, S[r])
        <5>1. CASE finished # None
          <6>1. ~Overlaps(h, started, finished, {s})
            BY <1>6, <3>2, <5>1 DEF Given
          <6> QED BY <1>2, <1>9, <2>3, <4>2, <5>1, <6>1, NoOverlapIsNear
        <5>2. CASE finished = None
          <6> DEFINE other == S[r]
          <6>1. ~Overlaps(h, started, txn[h].since, {s})
            BY <1>6, <3>2, <5>2 DEF Given
          <6>2. other \in ShiftRow /\ other.status = "finished"
            BY <1>2, <1>9, <2>2, <4>1, <4>2, <5>2, RowKinds DEF InOrganization, Table
          <6>3. other.finished # None /\ other.finished <= txn[h].since + Skew
            BY <2>1, <6>2, RowKinds DEF EndWithStatus, EndsBy
          <6>4. other.finished \in Int /\ other.started \in Int
            BY <6>2, <6>3, TicksAreIntegers DEF ShiftRow, OrNull
          <6>5. ~(other.started < txn[h].since) \/ ~(other.finished > started)
            BY <4>2, <6>1, <6>3 DEF Overlaps, InOrganization
          <6> HIDE DEF other
          <6>6. other.finished - other.started <= Skew \/ other.finished - row.started <= Skew
            BY <1>9, <2>3, <6>3, <6>4, <6>5, TicksAreIntegers
          <6>7. Near(row, other)
            BY <6>3, <6>6 DEF Near
          <6> QED BY <6>7 DEF other
        <5> QED BY <5>1, <5>2
      <4> QED BY <1>9, <2>2, <4>1, <4>2 DEF Fits
    <3> QED BY <3>1, <3>2
  <2>5. ASSUME finished # None PROVE finished <= now + Skew
    <3>1. finished <= txn[h].since + Skew
      <4>1. CASE moved
        BY <1>6, <2>5, <4>1 DEF ValidInterval
      <4>2. CASE ~moved
        BY <1>7, <2>1, <2>5, <4>2 DEF EndsBy
      <4> QED BY <4>1, <4>2
    <3> HIDE DEF P
    <3> QED BY <1>2, <2>3, <2>5, <3>1, TicksAreIntegers
  <2>6. OnePauseOpen([S EXCEPT ![s] = row], pauses)
    <3>1. \A r \in Shifts : [S EXCEPT ![s] = row][r] = IF r = s THEN row ELSE S[r]
      BY <1>2 DEF Table
    <3>2. IF row.status = "paused" THEN \E p \in Pauses : OpenPausesOf(pauses, s) = {p}
          ELSE OpenPausesOf(pauses, s) = {}
      <4>1. CASE finished # None /\ OpenPausesOf(pauses, s) = {}
        BY <1>9, <2>2, <4>1
      <4>2. CASE OpenPausesOf(pauses, s) = OpenPausesOf(P, s) /\ ~(Open(old) /\ finished # None)
        <5>1. row.status = "paused" <=> old.status = "paused"
          BY <1>2, <1>7, <1>9, <2>1, <2>2, <4>2 DEF Open, ShiftRow
        <5> QED BY <2>1, <4>2, <5>1 DEF OnePauseOpen
      <4> QED BY <1>10, <4>1, <4>2
    <3> QED BY <1>10, <2>1, <3>1, <3>2 DEF OnePauseOpen
  <2> QED BY <1>9, <2>4, <2>5, <2>6
<1>12. Commits(h, [S EXCEPT ![s] = row], pauses)
  BY <1>8
<1> QED BY <1>1, <1>9, <1>10, <1>11, <1>12, RowDecides DEF Decided

(***************************************************************************)
(* Type correctness, for any number of handlers                            *)
(***************************************************************************)

\* A step commits, or leaves the tables and at most loads, drops or waits.
LEMMA Steps ==
    ASSUME TypeInv, [Next]_vars
    PROVE  \/ \E h \in Handlers : Decided(h)
           \/ \E h \in Handlers : LoadTables(h) \/ Dies(h)
           \/ Tick
           \/ UNCHANGED vars
BY StartDecides, PauseDecides, ResumeDecides, FinishShiftDecides, UpdateDecides, DeleteDecides,
   RestoreDecides, ChangeScheduleDecides, CreateDecides, AutoFinishDecides, AutoResumeDecides
   DEF Next, Handler, OnShift

LEMMA InitTypes == Init => TypeInv
<1> SUFFICES ASSUME Init PROVE TypeInv
  OBVIOUS
<1>1. now \in 0 .. LastTick
  BY TicksAreIntegers DEF Init
<1> QED BY <1>1 DEF Init, TypeInv, TypeOK, OrNull

LEMMA LoadTypes ==
    ASSUME TypeInv, NEW h \in Handlers, LoadTables(h)
    PROVE  TypeInv' /\ txn'[h] = [shifts |-> shift, pauses |-> pause, since |-> now]
           /\ \A g \in Handlers \ {h} : txn'[g] = txn[g]
<1> DEFINE c == [shifts |-> shift, pauses |-> pause, since |-> now]
<1>1. c \in Loaded /\ c.since = now /\ c.shifts = shift
  BY DEF TypeInv, TypeOK, Loaded, Table, PauseTable
<1>2. now \in 0 .. now
  BY TicksAreIntegers DEF TypeInv, TypeOK
<1>3. txn' = [txn EXCEPT ![h] = c] /\ UNCHANGED <<now, shift, pause>>
  BY DEF LoadTables
<1> HIDE DEF c
<1>4. txn' \in [Handlers -> OrNull(Loaded)] /\ \A g \in Handlers : txn'[g] = IF g = h THEN c ELSE txn[g]
  BY <1>1, <1>3 DEF TypeInv, OrNull
<1>5. TypeInv'
  BY <1>1, <1>2, <1>3, <1>4 DEF TypeInv, TypeOK
<1> QED BY <1>4, <1>5 DEF c

LEMMA NextTypes == TypeInv /\ [Next]_vars => TypeInv'
<1> SUFFICES ASSUME TypeInv, [Next]_vars PROVE TypeInv'
  OBVIOUS
<1>1. ASSUME NEW h \in Handlers, Decided(h) PROVE TypeInv'
  BY <1>1, CommitTypes DEF Decided
<1>2. ASSUME NEW h \in Handlers, Dies(h) PROVE TypeInv'
  <2>1. \A g \in Handlers : txn'[g] # None => txn'[g] = txn[g]
    BY <1>2 DEF Dies, TypeInv
  <2> QED BY <1>2, <2>1 DEF Dies, TypeInv, TypeOK, OrNull
<1>3. CASE Tick
  <2>1. now' \in 0 .. LastTick /\ 0 .. now \subseteq 0 .. now'
    BY <1>3, TicksAreIntegers DEF Tick, TypeInv, TypeOK
  <2> QED BY <1>3, <2>1 DEF Tick, TypeInv, TypeOK
<1>4. CASE UNCHANGED vars
  BY <1>4 DEF vars, TypeInv, TypeOK
<1> QED BY <1>1, <1>2, <1>3, <1>4, Steps, LoadTypes

\* However many requests and tasks write over each other, a row of a shift keeps its
\* shape, its start and its end lie within the bounds, and no handler is of the future.
THEOREM TypeCorrect == Spec => []TypeOK
<1>1. Spec => []TypeInv
  BY InitTypes, NextTypes, PTL DEF Spec
<1> QED BY <1>1, PTL DEF TypeInv

(***************************************************************************)
(* What one handler at a time keeps                                        *)
(***************************************************************************)

LEMMA InitAlone == Init => IInv
<1> SUFFICES ASSUME Init PROVE IInv
  OBVIOUS
<1>1. \A s \in Shifts : shift[s] = NoShift
  BY DEF Init
<1>2. /\ NoShift.status = None /\ NoShift.context = None /\ NoShift.finished = None /\ ~NoShift.deleted
      /\ None \notin {"org", "paused"}
  BY NoneAssumption DEF NoShift
<1>3. \A s \in Shifts : OpenPausesOf(pause, s) = {}
  BY TicksAreIntegers DEF Init, OpenPausesOf, NoPause
<1>4. EndWithStatus(shift) /\ OneOpen(shift) /\ Disjoint(shift) /\ EndsBy(shift, now)
  BY <1>1, <1>2 DEF EndWithStatus, OneOpen, Disjoint, InOrganization, EndsBy
<1>5. OnePauseOpen(shift, pause)
  BY <1>1, <1>2, <1>3 DEF OnePauseOpen
<1>6. \A h \in Handlers : txn[h] = None
  BY DEF Init
<1> QED BY <1>4, <1>5, <1>6, InitTypes DEF IInv, AloneInv, Sound

LEMMA NextAlone ==
    ASSUME \A g, h \in Handlers : g = h
    PROVE  IInv /\ [Next]_vars => IInv'
<1> SUFFICES ASSUME IInv, [Next]_vars PROVE IInv'
  OBVIOUS
<1>1. TypeInv /\ TypeInv' /\ AloneInv
  BY NextTypes DEF IInv
<1>2. ASSUME NEW h \in Handlers, Decided(h) PROVE IInv'
  BY <1>2, CommitAlone DEF Decided
<1>3. ASSUME UNCHANGED <<shift, pause>>, EndsBy(shift, now'),
             \A h \in Handlers : txn'[h] # None =>
                txn'[h].shifts = shift /\ txn'[h].pauses = pause /\ EndsBy(shift, txn'[h].since)
      PROVE  IInv'
  BY <1>1, <1>3 DEF IInv, AloneInv, Sound, EndWithStatus, OneOpen, OnePauseOpen, OpenPausesOf,
                    Disjoint, EndsBy
<1>4. ASSUME NEW h \in Handlers, LoadTables(h) PROVE IInv'
  <2>1. txn'[h] = [shifts |-> shift, pauses |-> pause, since |-> now] /\ UNCHANGED <<now, shift, pause>>
    BY <1>1, <1>4, LoadTypes DEF LoadTables
  <2> QED BY <1>1, <1>3, <2>1 DEF AloneInv
<1>5. ASSUME NEW h \in Handlers, Dies(h) PROVE IInv'
  <2>1. UNCHANGED <<now, shift, pause>> /\ txn'[h] = None
    BY <1>1, <1>5 DEF Dies, TypeInv
  <2> QED BY <1>1, <1>3, <2>1 DEF AloneInv
<1>6. CASE Tick
  <2>1. now \in Int /\ now' \in Int /\ now <= now' /\ UNCHANGED <<shift, pause, txn>>
    BY <1>1, <1>6, TicksAreIntegers DEF Tick, TypeInv, TypeOK
  <2>2. \A s \in Shifts : shift[s].finished \in OrNull(Ticks)
    BY <1>1 DEF TypeInv, TypeOK, ShiftRow, NoShift, OrNull
  <2>3. EndsBy(shift, now')
    BY <1>1, <2>1, <2>2, EndsByLater DEF AloneInv
  <2> QED BY <1>1, <1>3, <2>1, <2>3 DEF AloneInv
<1>7. CASE UNCHANGED vars
  BY <1>1, <1>3, <1>7 DEF vars, AloneInv
<1> QED BY <1>1, <1>2, <1>4, <1>5, <1>6, <1>7, Steps

THEOREM AloneInvariance ==
    ASSUME \A g, h \in Handlers : g = h
    PROVE  Spec => []IInv
<1>1. IInv /\ [Next]_vars => IInv'
  BY NextAlone
<1> QED BY <1>1, InitAlone, PTL DEF Spec

\* One at a time, requests and tasks leave one personal shift and one shift in the
\* organization open (start_shift), whatever was deleted and restored by hand.
THEOREM OneOpenAlone ==
    ASSUME \A g, h \in Handlers : g = h
    PROVE  Spec => []OneOpenShift
<1>1. IInv => OneOpenShift
  BY DEF IInv, AloneInv, Sound, OneOpen, OneOpenShift
<1> QED BY <1>1, AloneInvariance, PTL

\* One at a time, they give a shift an end exactly when they finish it (Finished, with
\* delete_shift and the manual endpoints).
THEOREM EndAlone ==
    ASSUME \A g, h \in Handlers : g = h
    PROVE  Spec => []EndIffFinished
<1>1. IInv => EndIffFinished
  <2> SUFFICES ASSUME IInv, NEW s \in Shifts, shift[s] # NoShift
               PROVE  (shift[s].status = "finished") = (shift[s].finished # None)
    BY DEF EndIffFinished
  <2>1. shift[s].status = "finished" <=> shift[s].finished # None
    BY DEF IInv, AloneInv, Sound, EndWithStatus
  <2> QED BY <2>1
<1> QED BY <1>1, AloneInvariance, PTL

\* One at a time, they keep a shift paused exactly while one of its pauses is open
\* (pause_shift, resume_shift, the tasks, and an end that takes the open pause with it).
THEOREM PausedAlone ==
    ASSUME \A g, h \in Handlers : g = h
    PROVE  Spec => []PausedIffOnePauseOpen
<1>1. IInv => PausedIffOnePauseOpen
  <2> SUFFICES ASSUME IInv, NEW s \in Shifts
               PROVE  Cardinality(OpenPausesOf(pause, s)) = IF shift[s].status = "paused" THEN 1 ELSE 0
    BY DEF PausedIffOnePauseOpen, OpenPausesOf
  <2>1. IF shift[s].status = "paused" THEN \E p \in Pauses : OpenPausesOf(pause, s) = {p}
        ELSE OpenPausesOf(pause, s) = {}
    BY DEF IInv, AloneInv, Sound, OnePauseOpen
  <2> QED BY <2>1, FS_Singleton, FS_EmptySet
<1> QED BY <1>1, AloneInvariance, PTL

\* One at a time, they leave two shifts in the organization the same time only for the
\* seconds by which a manual end lies ahead of the clock (_check_overlap, CLOCK_SKEW).
THEOREM OverlapAlone ==
    ASSUME \A g, h \in Handlers : g = h
    PROVE  Spec => []OverlapWithinSkew
<1>1. IInv => OverlapWithinSkew
  <2> SUFFICES ASSUME IInv, NEW s \in Shifts, NEW r \in Shifts, s # r,
                      \A row \in {shift[s], shift[r]} : row.context = "org" /\ ~row.deleted
               PROVE  \E row, other \in {shift[s], shift[r]} :
                        (IF row.finished = None THEN now ELSE row.finished) - other.started <= Skew
    BY DEF OverlapWithinSkew
  <2>1. Near(shift[s], shift[r])
    BY DEF IInv, AloneInv, Sound, Disjoint, InOrganization
  <2> QED BY <2>1 DEF Near
<1> QED BY <1>1, AloneInvariance, PTL

=============================================================================
