----------------------------- MODULE Checklist -----------------------------
(***************************************************************************)
(* The checklists of one shift: services/checklist_instance.py and the     *)
(* tasks of tasks/shifts.py that close them.                               *)
(*                                                                         *)
(* An instance is a snapshot of a template: its items, which of them are   *)
(* required and what photos they need never change after the start of the  *)
(* shift, so they are constants.  A request that fills an item loads and   *)
(* checks, checks the window again and flushes, locks the instance to      *)
(* recompute its status, and commits; another transaction may come between *)
(* any two of these.  What closes a shift reads it, updates the instances  *)
(* and commits.  Time is counted in ticks.                                 *)
(***************************************************************************)
EXTENDS Integers, FiniteSets, UnitOfWork

CONSTANTS Handlers,           \* requests and tasks that may run at one time
          Operations,         \* the endpoints and tasks in use
          Instances,          \* the checklists of the shift
          Items,              \* their items
          InstanceOf,         \* the instance of each item
          RequiredInstances,  \* is_required of an instance
          RequiredItems,      \* is_required of an item
          PhotoPolicy,        \* photo_requirement of each item
          Photos,             \* files the employee uploaded
          MaxPhotos,          \* checklist_max_photos_per_item
          Graces,             \* values of checklist_grace_minutes
          ScheduledEnd,       \* scheduled_end_at of the shift, or None
          LastTick,           \* bound on time
          None                \* a column that is NULL

ASSUME ItemsAssumption ==
    /\ InstanceOf \in [Items -> Instances]
    /\ RequiredInstances \subseteq Instances
    /\ RequiredItems \subseteq Items
    /\ PhotoPolicy \in [Items -> {"none", "optional", "required"}]
ASSUME TimeAssumption ==
    /\ LastTick \in Nat /\ MaxPhotos \in Nat
    /\ Graces # {} /\ Graces \subseteq Nat
    /\ ScheduledEnd \in Nat \cup {None}
ASSUME NoneAssumption == None \notin Int /\ None \notin Items /\ None \notin Photos

VARIABLES now, grace,
          shift,    \* the row of the shift
          status,   \* the status of each instance
          done,     \* is_completed of each item
          photos,   \* the photos attached to each item
          txn       \* where a handler stands and what it holds

tables == <<shift, status, done, photos>>
vars == <<now, grace, tables, txn>>

(***************************************************************************)
(* What the queries compute                                                *)
(***************************************************************************)

ItemsOf(i) == {x \in Items : InstanceOf[x] = i}

\* An item counts when it is ticked and has the photo it needs.
Satisfied(x, ticks, pictures) ==
    ticks[x] /\ (PhotoPolicy[x] = "required" => pictures[x] # {})

AllSatisfied(i, ticks, pictures) ==
    \A x \in ItemsOf(i) \cap RequiredItems : Satisfied(x, ticks, pictures)

LiveIncomplete(statuses) == \E i \in RequiredInstances : statuses[i] # "completed"

\* The shift was finalized: one required instance is incomplete.
Finalized == \E i \in RequiredInstances : status[i] = "incomplete"

\* The shift is open, or finished less than grace minutes ago and not finalized.
FillAllowed ==
    \/ shift.status # "finished"
    \/ ~Finalized /\ shift.finished # None /\ now < shift.finished + grace

(***************************************************************************)
(* Handlers and locks                                                      *)
(***************************************************************************)

Rest == [at |-> "rest"]

Fills(h) == txn[h].at \in {"loaded", "flushed", "computed"}

\* SELECT ... FOR UPDATE of an item by attach_photo, or its UPDATE by a tick.
ItemLocked(h, x) ==
    \E g \in Handlers \ {h} :
        /\ Fills(g) /\ txn[g].item = x
        /\ txn[g].op = "attach" \/ (txn[g].op = "tick" /\ txn[g].at # "loaded")

\* The INSERT or DELETE of a photo that is not committed yet.
PhotoLocked(h, p) ==
    \E g \in Handlers \ {h} : txn[g].at \in {"flushed", "computed"} /\ txn[g].photo = p

\* Mutant: the status is read without FOR UPDATE.
NeverLocked(h, i) == FALSE

InstanceLocked(h, i) ==
    \E g \in Handlers \ {h} :
        \/ txn[g].at = "computed" /\ InstanceOf[txn[g].item] = i
        \/ txn[g].at = "closed" /\ i \in txn[g].marked

Init ==
    /\ now = 0
    /\ grace \in Graces
    /\ shift = [status |-> "active", finished |-> None, incomplete |-> FALSE, deleted |-> FALSE]
    /\ done = [x \in Items |-> FALSE]
    /\ photos = [x \in Items |-> {}]
    /\ status = [i \in Instances |-> IF AllSatisfied(i, done, photos) THEN "completed" ELSE "pending"]
    /\ txn = [h \in Handlers |-> Rest]

\* An error, a lost connection or a killed worker: nothing is committed.
Dies(h) ==
    /\ txn[h] # Rest
    /\ txn' = [txn EXCEPT ![h] = Rest]
    /\ UNCHANGED <<now, grace, tables>>

(***************************************************************************)
(* The employee fills an item                                              *)
(***************************************************************************)

\* The owner's request op on item x: what it has read when its checks are done.
Loads(h, op, x, photo, value) ==
    /\ txn[h] = Rest /\ op \in Operations
    /\ ~shift.deleted /\ FillAllowed
    /\ txn' = [txn EXCEPT ![h] =
                [at |-> "loaded", op |-> op, item |-> x, photo |-> photo, value |-> value,
                 done |-> IF op = "tick" THEN done[x] ELSE FALSE,
                 status |-> status[InstanceOf[x]], incomplete |-> shift.incomplete]]
    /\ UNCHANGED <<now, grace, tables>>

LoadForUpdateItem(h, x, value) == Loads(h, "tick", x, None, value)

\* Mutant: attach_photo counts the photos without locking the item.
AttachUnlocked(h, x, p) ==
    /\ PhotoPolicy[x] # "none"
    /\ \A y \in Items : p \notin photos[y]
    /\ Cardinality(photos[x]) < MaxPhotos
    /\ Loads(h, "attach", x, p, FALSE)

LoadForAttachPhoto(h, x, p) ==
    /\ PhotoPolicy[x] # "none"
    /\ ~ItemLocked(h, x)
    /\ \A y \in Items : p \notin photos[y]
    /\ Cardinality(photos[x]) < MaxPhotos
    /\ Loads(h, "attach", x, p, FALSE)

LoadForDetachPhoto(h, x, p) == p \in photos[x] /\ Loads(h, "detach", x, p, FALSE)

\* The window is checked once more, with status and end of the shift read anew,
\* and the change is flushed.  attach_photo loads the instance again: its copy is
\* new, unless the session still holds the old one.
FlushChange(h) ==
    LET t == txn[h] IN
    /\ t.at = "loaded"
    /\ FillAllowed
    /\ t.op = "tick" => ~ItemLocked(h, t.item)
    /\ t.photo # None => ~PhotoLocked(h, t.photo)
    /\ t.op = "attach" => \A y \in Items : t.photo \notin photos[y]
    /\ \E copy \in IF t.op = "attach" THEN {t.status, status[InstanceOf[t.item]]} ELSE {t.status} :
        txn' = [txn EXCEPT ![h] =
                [at |-> "flushed", op |-> t.op, item |-> t.item, photo |-> t.photo,
                 value |-> t.value, done |-> t.done, status |-> copy,
                 incomplete |-> t.incomplete, over |-> shift.status = "finished"]]
    /\ UNCHANGED <<now, grace, tables>>

DoneAfter(t) ==
    IF t.op = "tick" THEN [done EXCEPT ![t.item] = Written(done[t.item], t.done, t.value)] ELSE done

PhotosAfter(t) ==
    CASE t.op = "attach" -> [photos EXCEPT ![t.item] = @ \cup {t.photo}]
      [] t.op = "detach" -> [photos EXCEPT ![t.item] = @ \ {t.photo}]
      [] OTHER -> photos

\* Mutant: the terminal status is not looked at after the lock.
StatusRevived(t) ==
    LET i   == InstanceOf[t.item]
        new == IF AllSatisfied(i, DoneAfter(t), PhotosAfter(t)) THEN "completed" ELSE "pending"
    IN  [status EXCEPT ![i] = Written(@, t.status, new)]

\* The status of the instance of t: the lock shows whether it is incomplete, and
\* then the copy, which was read before the lock, decides whether to write.
StatusAfter(t) ==
    LET i   == InstanceOf[t.item]
        new == IF AllSatisfied(i, DoneAfter(t), PhotosAfter(t)) THEN "completed" ELSE "pending"
    IN  [status EXCEPT ![i] = IF @ = "incomplete" THEN @ ELSE Written(@, t.status, new)]

\* has_incomplete_required_checklists is kept up to date once the shift is over:
\* the value to write, if it differs from the copy.
FlagAfter(t) ==
    IF t.over THEN {LiveIncomplete(StatusAfter(t))} \ {t.incomplete} ELSE {}

RecomputeInstanceStatus(h) ==
    /\ txn[h].at = "flushed"
    /\ ~InstanceLocked(h, InstanceOf[txn[h].item])
    /\ txn' = [txn EXCEPT ![h] =
                [at |-> "computed", op |-> @.op, item |-> @.item, photo |-> @.photo,
                 done |-> DoneAfter(@)[@.item], status |-> StatusAfter(@)[InstanceOf[@.item]],
                 flag |-> FlagAfter(@)]]
    /\ UNCHANGED <<now, grace, tables>>

CommitChange(h) ==
    LET t == txn[h] IN
    /\ t.at = "computed"
    /\ done' = [done EXCEPT ![t.item] = IF t.op = "tick" THEN t.done ELSE @]
    /\ photos' = PhotosAfter(t)
    /\ status' = [status EXCEPT ![InstanceOf[t.item]] = t.status]
    /\ shift' = [shift EXCEPT !.incomplete = IF t.flag = {} THEN @ ELSE TRUE \in t.flag]
    /\ txn' = [txn EXCEPT ![h] = Rest]
    /\ UNCHANGED <<now, grace>>

(***************************************************************************)
(* The end of the shift and of its window                                  *)
(***************************************************************************)

LoadsToClose(h, op) ==
    /\ txn[h] = Rest /\ op \in Operations
    /\ ~shift.deleted
    /\ txn' = [txn EXCEPT ![h] = [at |-> "closing", op |-> op, copy |-> shift.incomplete]]
    /\ UNCHANGED <<now, grace, tables>>

LoadForFinishShift(h) == shift.status # "finished" /\ LoadsToClose(h, "finish")

LoadForAutoFinish(h) ==
    /\ shift.status # "finished"
    /\ ScheduledEnd # None /\ ScheduledEnd <= now
    /\ LoadsToClose(h, "autofinish")

Pending == {i \in RequiredInstances : status[i] = "pending"}

Expired == shift.status = "finished" /\ shift.finished # None /\ now >= shift.finished + grace

\* Mutant: the task looks for shifts with the flag has_incomplete_required_checklists.
FinalizeFlagged(h) == shift.incomplete /\ Pending # {} /\ Expired /\ LoadsToClose(h, "finalize")

LoadForFinalize(h) == Pending # {} /\ Expired /\ LoadsToClose(h, "finalize")

\* close_shift_checklists: without a grace period, or after it, the UPDATE of the
\* pending instances, which waits for every one that is locked.
CloseShiftChecklists(h) ==
    LET final == txn[h].op = "finalize" \/ grace = 0 IN
    /\ txn[h].at = "closing"
    /\ final => \A i \in Pending : ~InstanceLocked(h, i)
    /\ txn' = [txn EXCEPT ![h] =
                [at |-> "closed", op |-> @.op, copy |-> @.copy,
                 marked |-> IF final THEN Pending ELSE {}, incomplete |-> LiveIncomplete(status)]]
    /\ UNCHANGED <<now, grace, tables>>

\* The columns that end the shift differ from the copy, which was of an open shift.
CommitClosing(h) ==
    LET t    == txn[h]
        flag == Written(shift.incomplete, t.copy, t.incomplete)
    IN
    /\ t.at = "closed"
    /\ status' = [i \in Instances |-> IF i \in t.marked THEN "incomplete" ELSE status[i]]
    /\ shift' = IF t.op = "finalize" THEN [shift EXCEPT !.incomplete = flag]
                ELSE [shift EXCEPT !.status = "finished", !.incomplete = flag,
                                   !.finished = IF t.op = "finish" THEN now ELSE ScheduledEnd]
    /\ txn' = [txn EXCEPT ![h] = Rest]
    /\ UNCHANGED <<now, grace, done, photos>>

(***************************************************************************)
(* The administrator: none of these closes the checklists of the shift     *)
(***************************************************************************)

UpdateManualShift(t) ==
    /\ "byhand" \in Operations
    /\ ~shift.deleted /\ t <= now
    /\ shift' = [shift EXCEPT !.status = "finished", !.finished = t]
    /\ UNCHANGED <<now, grace, status, done, photos, txn>>

\* Mutant: an open shift is finished without an end.
DeleteWithoutEnd ==
    /\ "delete" \in Operations
    /\ ~shift.deleted
    /\ shift' = [shift EXCEPT !.status = "finished", !.deleted = TRUE]
    /\ UNCHANGED <<now, grace, status, done, photos, txn>>

DeleteShift ==
    /\ "delete" \in Operations
    /\ ~shift.deleted
    /\ shift' = [shift EXCEPT !.status = "finished", !.deleted = TRUE,
                              !.finished = IF shift.status = "finished" THEN @ ELSE now]
    /\ UNCHANGED <<now, grace, status, done, photos, txn>>

RestoreShift ==
    /\ "restore" \in Operations
    /\ shift.deleted
    /\ shift' = [shift EXCEPT !.deleted = FALSE]
    /\ UNCHANGED <<now, grace, status, done, photos, txn>>

UpdateGrace(minutes) ==
    /\ "settings" \in Operations
    /\ minutes # grace
    /\ grace' = minutes
    /\ UNCHANGED <<now, tables, txn>>

(***************************************************************************)
(* The specification                                                       *)
(***************************************************************************)

Tick ==
    /\ now < LastTick
    /\ now' = now + 1
    /\ UNCHANGED <<grace, tables, txn>>

FillItem(h) ==
    \/ \E x \in Items, value \in BOOLEAN : LoadForUpdateItem(h, x, value)
    \/ \E x \in Items, p \in Photos : LoadForAttachPhoto(h, x, p) \/ LoadForDetachPhoto(h, x, p)
    \/ FlushChange(h)
    \/ RecomputeInstanceStatus(h)
    \/ CommitChange(h)

Close(h) ==
    \/ LoadForFinishShift(h)
    \/ LoadForAutoFinish(h)
    \/ LoadForFinalize(h)
    \/ CloseShiftChecklists(h)
    \/ CommitClosing(h)

Administer ==
    \/ \E t \in 0 .. LastTick : UpdateManualShift(t)
    \/ DeleteShift
    \/ RestoreShift
    \/ \E minutes \in Graces : UpdateGrace(minutes)

Next == Tick \/ Administer \/ \E h \in Handlers : Dies(h) \/ FillItem(h) \/ Close(h)

Spec == Init /\ [][Next]_vars

(***************************************************************************)
(* Fairness: a request that started ends, celery beat starts the task that *)
(* finalizes every minute, and the workers do not kill it at the same      *)
(* point every time.                                                       *)
(***************************************************************************)

FairSpec ==
    /\ Spec
    /\ \A h \in Handlers : WF_vars(Dies(h))
    /\ SF_vars(\E h \in Handlers : LoadForFinalize(h))
    /\ SF_vars(\E h \in Handlers : txn[h] # Rest /\ txn[h].op = "finalize" /\ CloseShiftChecklists(h))
    /\ SF_vars(\E h \in Handlers : txn[h] # Rest /\ txn[h].op = "finalize" /\ CommitClosing(h))

(***************************************************************************)
(* Properties                                                              *)
(***************************************************************************)

InstanceStatus == {"pending", "completed", "incomplete"}

ShiftRow ==
    [status : {"active", "finished"}, finished : (0 .. LastTick) \cup {None},
     incomplete : BOOLEAN, deleted : BOOLEAN]

\* Type invariant: the tables keep their shape, a finished shift has an end, and
\* only a required instance is ever incomplete.
TypeOK ==
    /\ now \in 0 .. LastTick /\ grace \in Graces
    /\ shift \in ShiftRow
    /\ shift.status = "finished" => shift.finished # None
    /\ status \in [Instances -> InstanceStatus]
    /\ \A i \in Instances \ RequiredInstances : status[i] # "incomplete"
    /\ done \in [Items -> BOOLEAN]
    /\ photos \in [Items -> SUBSET Photos]

\* However many photos are attached at once, an item never has more than
\* checklist_max_photos_per_item, and none where photos are not allowed, and a
\* file is attached once (attach_photo).
PhotoLimit ==
    /\ \A x \in Items : Cardinality(photos[x]) <= IF PhotoPolicy[x] = "none" THEN 0 ELSE MaxPhotos
    /\ \A x, y \in Items : x # y => photos[x] \cap photos[y] = {}

\* incomplete is terminal: no request that passed its checks before the shift was
\* finalized, and no longer grace period, revives the instance
\* (_recompute_instance_status: incomplete does not rise again).
IncompleteIsTerminal ==
    [][\A i \in Instances : status[i] = "incomplete" => status'[i] = "incomplete"]_vars

\* When a status is written it is true of the items as they are committed with it,
\* whatever was filled in at the same time (the lock of _recompute_instance_status).
StatusIsTrueWhenWritten ==
    [][\A i \in Instances :
        /\ (status[i] # "completed" /\ status'[i] = "completed") => AllSatisfied(i, done', photos')
        /\ (status[i] # "pending" /\ status'[i] = "pending") => ~AllSatisfied(i, done', photos')]_vars

\* When the window is over, every required instance of a shift that is not deleted
\* is completed or incomplete in the end (finalize_expired_checklist_grace_periods).
ExpiredIsFinal ==
    \A i \in RequiredInstances :
        (Expired /\ ~shift.deleted /\ status[i] = "pending")
            ~> (~Expired \/ shift.deleted \/ status[i] # "pending")


=============================================================================
