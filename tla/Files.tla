-------------------------------- MODULE Files --------------------------------
(***************************************************************************)
(* The registry of files and the objects in storage:                       *)
(* services/file_storage.py, the pages and checklist items that link files *)
(* (services/knowledge.py, services/checklist_instance.py,                 *)
(* services/shift.py) and the tasks of tasks/cleanup.py.                   *)
(*                                                                         *)
(* The database rolls back what a request or a task did not commit; what   *)
(* it did in storage stays.  A row is locked from its UPDATE, or its       *)
(* SELECT FOR UPDATE, to the end of the transaction.                       *)
(***************************************************************************)
EXTENDS FiniteSets, Integers

CONSTANTS FileIds,      \* files, by their storage_key
          Clients,      \* requests of the API that run at one time
          MaxDeletes,   \* storage_reconcile_max_deletes
          None          \* no row, no file or no holder of a lock

VARIABLES keys,     \* the files that have been uploaded: uuid4 gives a key once
          row,      \* the row of each file, or None
          linked,   \* the files with a row that refers to them (UNIQUE file_id)
          holder,   \* who has locked the row of a file
          object,   \* the files with an object in storage
          old,      \* the files older than orphan_file_ttl_hours and the retention
          job,      \* what each request is doing
          task,     \* what the worker is doing
          cut,      \* the files whose removal died after it had deleted the object
          undone    \* those whose removal was rolled back by an error instead

fileVars == <<keys, row, linked, holder, object, old, job, task, cut, undone>>

Worker == "worker"

Row == [attached : BOOLEAN, purged : BOOLEAN]

FilesAssumption ==
    /\ Worker \notin Clients
    /\ None \notin Clients \cup FileIds \cup {Worker} \cup Row

Rest == [op |-> "rest"]

Uploaded == [attached |-> FALSE, purged |-> FALSE]

Rows == {f \in FileIds : row[f] # None}

Init ==
    /\ keys = {}
    /\ row = [f \in FileIds |-> None]
    /\ linked = {}
    /\ holder = [f \in FileIds |-> None]
    /\ object = {}
    /\ old = {}
    /\ job = [h \in Clients |-> Rest]
    /\ task = Rest
    /\ cut = {}
    /\ undone = {}

Released(h) == [f \in FileIds |-> IF holder[f] = h THEN None ELSE holder[f]]

\* What a request or the task has deleted in storage but not committed.
Deleting(j) == IF j.op \in {"bind", "delete", "clean", "purge"} THEN j.gone ELSE {}

(***************************************************************************)
(* Requests                                                                *)
(***************************************************************************)

Ends(h) ==
    /\ job' = [job EXCEPT ![h] = Rest]
    /\ holder' = Released(h)

Dies(h) ==
    /\ job[h] # Rest
    /\ Ends(h)
    /\ cut' = cut \cup (Deleting(job[h]) \cap Rows)
    /\ UNCHANGED <<keys, row, linked, object, old, task, undone>>

\* upload_file: the object first; its key is a new one.
PutObject(h, f) ==
    /\ job[h] = Rest
    /\ f \notin keys
    /\ keys' = keys \cup {f}
    /\ object' = object \cup {f}
    /\ job' = [job EXCEPT ![h] = [op |-> "upload", file |-> f]]
    /\ UNCHANGED <<row, linked, holder, old, task, cut, undone>>

CommitUpload(h) ==
    /\ job[h].op = "upload"
    /\ row' = [row EXCEPT ![job[h].file] = Uploaded]
    /\ Ends(h)
    /\ UNCHANGED <<keys, linked, object, old, task, cut, undone>>

\* attach_photo and _claim_geo_fallback_photo add a file, detach_photo removes one,
\* delete_node those of a subtree, and update_node adds and removes several.
LoadForBind(h, add, remove) ==
    /\ job[h] = Rest
    /\ add \cup remove # {}
    /\ add \subseteq Rows \ linked
    /\ remove \subseteq linked
    /\ job' = [job EXCEPT ![h] = [op |-> "bind", add |-> add, remove |-> remove,
                                  added |-> {}, removed |-> {}, gone |-> {}]]
    /\ UNCHANGED <<keys, row, linked, holder, object, old, task, cut, undone>>

\* is_attached and the link, in the transaction.
AddFile(h, f) ==
    LET j == job[h] IN
    /\ j.op = "bind" /\ f \in j.add
    /\ holder[f] = None
    /\ f \in Rows \ linked
    /\ holder' = [holder EXCEPT ![f] = h]
    /\ job' = [job EXCEPT ![h].add = @ \ {f}, ![h].added = @ \cup {f}]
    /\ UNCHANGED <<keys, row, linked, object, old, task, cut, undone>>

\* The row of a file to add is gone, or the file is linked by now.
AddFails(h) ==
    LET j == job[h] IN
    /\ j.op = "bind"
    /\ \E f \in j.add : holder[f] = None /\ f \notin Rows \ linked
    /\ Ends(h)
    /\ UNCHANGED <<keys, row, linked, object, old, task, cut, undone>>

\* Mutant: the removals go first.
AnyOrder(j) == TRUE

RemovalsMayStart(j) == j.add = {}

\* One file after the other; a row that is gone is passed over.
LockRemoved(h, f) ==
    LET j == job[h] IN
    /\ j.op = "bind" /\ f \in j.remove /\ RemovalsMayStart(j)
    /\ \A g \in j.remove : holder[g] # h
    /\ holder[f] = None
    /\ IF f \in Rows
       THEN holder' = [holder EXCEPT ![f] = h] /\ UNCHANGED job
       ELSE job' = [job EXCEPT ![h].remove = @ \ {f}] /\ UNCHANGED holder
    /\ UNCHANGED <<keys, row, linked, object, old, task, cut, undone>>

\* An error of the storage is logged, and the row is removed all the same.
RemoveObject(h, f) ==
    LET j == job[h] IN
    /\ j.op = "bind" /\ f \in j.remove
    /\ holder[f] = h
    /\ \/ /\ object' = object \ {f}
          /\ job' = [job EXCEPT ![h].remove = @ \ {f}, ![h].removed = @ \cup {f},
                                ![h].gone = @ \cup {f}]
       \/ /\ job' = [job EXCEPT ![h].remove = @ \ {f}, ![h].removed = @ \cup {f}]
          /\ UNCHANGED object
    /\ UNCHANGED <<keys, row, linked, holder, old, task, cut, undone>>

\* An error behind the files: _move_node refuses the new parent (update_node), or the
\* UPDATE of a file to remove finds no row any more.  The rows come back, the objects
\* that were deleted do not.
UpdateFails(h) ==
    LET j == job[h] IN
    /\ j.op = "bind" /\ RemovalsMayStart(j)
    /\ j.remove = {} \/ ~(j.remove \subseteq Rows)
    /\ Ends(h)
    /\ undone' = undone \cup (j.gone \cap Rows)
    /\ UNCHANGED <<keys, row, linked, object, old, task, cut>>

CommitBind(h) ==
    LET j == job[h] IN
    /\ j.op = "bind" /\ j.add = {} /\ j.remove = {}
    /\ row' = [f \in FileIds |-> IF f \in j.added THEN [row[f] EXCEPT !.attached = TRUE]
                                 ELSE IF f \in j.removed THEN None
                                 ELSE row[f]]
    /\ linked' = (linked \ j.removed) \cup j.added
    /\ cut' = cut \ j.removed
    /\ undone' = undone \ j.removed
    /\ Ends(h)
    /\ UNCHANGED <<keys, object, old, task>>

\* delete_file of the API: the check is_attached, the object, the row with whatever
\* has linked it since (ON DELETE CASCADE).
LoadForDeleteFile(h, f) ==
    /\ job[h] = Rest
    /\ f \in Rows /\ ~row[f].attached
    /\ job' = [job EXCEPT ![h] = [op |-> "delete", file |-> f, asked |-> row[f].purged, gone |-> {}]]
    /\ UNCHANGED <<keys, row, linked, holder, object, old, task, cut, undone>>

DeleteFileObject(h) ==
    LET j == job[h] IN
    /\ j.op = "delete" /\ ~j.asked
    /\ \/ /\ object' = object \ {j.file}
          /\ job' = [job EXCEPT ![h].asked = TRUE, ![h].gone = {j.file}]
       \/ /\ job' = [job EXCEPT ![h].asked = TRUE]
          /\ UNCHANGED object
    /\ UNCHANGED <<keys, row, linked, holder, old, task, cut, undone>>

CommitDeleteFile(h) ==
    LET j == job[h] IN
    /\ j.op = "delete" /\ j.asked
    /\ holder[j.file] = None
    /\ row' = [row EXCEPT ![j.file] = None]
    /\ linked' = linked \ {j.file}
    /\ cut' = cut \ {j.file}
    /\ undone' = undone \ {j.file}
    /\ Ends(h)
    /\ UNCHANGED <<keys, object, old, task>>

(***************************************************************************)
(* The worker                                                              *)
(***************************************************************************)

\* A request is over long before what it uploads is old.
GrowOld(f) ==
    /\ f \in (Rows \cup object) \ old
    /\ \A h \in Clients : job[h].op = "upload" => job[h].file # f
    /\ old' = old \cup {f}
    /\ UNCHANGED <<keys, row, linked, holder, object, job, task, cut, undone>>

WorkerDies ==
    /\ task # Rest
    /\ task' = Rest
    /\ holder' = Released(Worker)
    /\ cut' = cut \cup (Deleting(task) \cap Rows)
    /\ UNCHANGED <<keys, row, linked, object, old, job, undone>>

\* Mutant: SELECT without FOR UPDATE.
LockNothing(batch) == holder

LockedByWorker(batch) == [f \in FileIds |-> IF f \in batch THEN Worker ELSE holder[f]]

Batch(op, batch) ==
    /\ task = Rest
    /\ batch # {}
    /\ holder' = LockedByWorker(batch)
    /\ task' = [op |-> op, batch |-> batch, gone |-> {}]
    /\ UNCHANGED <<keys, row, linked, object, old, job, cut, undone>>

Free == {f \in Rows \cap old : holder[f] = None}

\* cleanup_orphan_files and purge_expired_files, SKIP LOCKED
CleanupOrphanFiles == Batch("clean", {f \in Free : ~row[f].attached})

PurgeExpiredFiles == Batch("purge", {f \in Free : row[f].attached /\ ~row[f].purged})

DeleteBatchObject(f) ==
    /\ task.op \in {"clean", "purge"}
    /\ f \in task.batch \ task.gone
    /\ object' = object \ {f}
    /\ task' = [task EXCEPT !.gone = @ \cup {f}]
    /\ UNCHANGED <<keys, row, linked, holder, old, job, cut, undone>>

\* Rows whose object could not be deleted stay for the next run.
CommitBatch ==
    /\ task.op \in {"clean", "purge"}
    /\ row' = [f \in FileIds |-> IF f \notin task.gone \cap Rows THEN row[f]
                                 ELSE IF task.op = "clean" THEN None
                                 ELSE [row[f] EXCEPT !.purged = TRUE]]
    /\ linked' = IF task.op = "clean" THEN linked \ task.gone ELSE linked
    /\ cut' = cut \ task.gone
    /\ undone' = undone \ task.gone
    /\ task' = Rest
    /\ holder' = Released(Worker)
    /\ UNCHANGED <<keys, object, old, job>>

\* Mutant: only objects that outlived their purge are candidates.
OnlyPurged == {f \in object \cap old \cap Rows : row[f].purged}

Candidates == {f \in object \cap old : f \notin Rows \/ row[f].purged}

ReconcileStorageObjects ==
    /\ task = Rest
    /\ Candidates # {} /\ Cardinality(Candidates) <= MaxDeletes
    /\ task' = [op |-> "reconcile", batch |-> Candidates]
    /\ UNCHANGED <<keys, row, linked, holder, object, old, job, cut, undone>>

DeleteCandidate(f) ==
    /\ task.op = "reconcile" /\ f \in task.batch
    /\ object' = object \ {f}
    /\ task' = [task EXCEPT !.batch = @ \ {f}]
    /\ UNCHANGED <<keys, row, linked, holder, old, job, cut, undone>>

ReconcileEnds ==
    /\ task.op = "reconcile"
    /\ task' = Rest
    /\ UNCHANGED <<keys, row, linked, holder, object, old, job, cut, undone>>

(***************************************************************************)
(* The specification                                                       *)
(***************************************************************************)

Request(h) ==
    \/ Dies(h)
    \/ \E f \in FileIds : PutObject(h, f) \/ LoadForDeleteFile(h, f)
    \/ CommitUpload(h)
    \/ \E add, remove \in SUBSET FileIds : LoadForBind(h, add, remove)
    \/ \E f \in FileIds : AddFile(h, f) \/ LockRemoved(h, f) \/ RemoveObject(h, f)
    \/ AddFails(h) \/ UpdateFails(h) \/ CommitBind(h)
    \/ DeleteFileObject(h) \/ CommitDeleteFile(h)

RunTask ==
    \/ CleanupOrphanFiles \/ PurgeExpiredFiles \/ CommitBatch
    \/ ReconcileStorageObjects \/ ReconcileEnds
    \/ \E f \in FileIds : DeleteBatchObject(f) \/ DeleteCandidate(f)
    \/ WorkerDies

Next == (\E h \in Clients : Request(h)) \/ RunTask \/ \E f \in FileIds : GrowOld(f)

Spec == Init /\ [][Next]_fileVars

(***************************************************************************)
(* Fairness: files grow old, a request and a task end in one way or        *)
(* another, beat starts the reconciliation every week, and the storage     *)
(* carries out one of its deletions at times.                              *)
(***************************************************************************)

RequestEnds(h) ==
    \/ Dies(h) \/ AddFails(h) \/ UpdateFails(h)
    \/ CommitUpload(h) \/ CommitBind(h) \/ CommitDeleteFile(h)

TaskEnds == CommitBatch \/ ReconcileEnds \/ WorkerDies

Fairness ==
    /\ WF_fileVars(\E f \in FileIds : GrowOld(f))
    /\ \A h \in Clients : WF_fileVars(RequestEnds(h))
    /\ WF_fileVars(TaskEnds)
    /\ SF_fileVars(\E f \in FileIds : DeleteCandidate(f))
    /\ SF_fileVars(ReconcileStorageObjects)

FairSpec == Spec /\ Fairness

(***************************************************************************)
(* Properties                                                              *)
(***************************************************************************)

\* Type invariant: what is linked has a row that says so, and only what a request or
\* the task is working on is locked.
TypeOK ==
    /\ \A f \in Rows : row[f] \in Row
    /\ \A f \in linked : f \in Rows /\ row[f].attached
    /\ {object, old, cut, undone} \subseteq SUBSET FileIds
    /\ \A f \in FileIds : holder[f] # None =>
        IF holder[f] = Worker THEN task # Rest ELSE job[holder[f]].op = "bind"

\* The task that collects orphans never takes a file that has been linked in the
\* meantime, however late the link is committed (cleanup_orphan_files).
CleanupSparesLinked == [][task.op = "clean" /\ CommitBatch => linked' = linked]_fileVars

\* A file that is linked and not expired has its object, except while a transaction
\* that removes it is under way, or after one died or was rolled back behind the
\* deletion.  The collection of orphans, delete_file and a file that cannot be added
\* cost no linked file its object (_recompute_file_bindings: additions before removals).
LinkedHasObject ==
    \A f \in linked :
        \/ f \in object \/ row[f].purged \/ f \in cut \cup undone \/ f \in Deleting(task)
        \/ \E h \in Clients : f \in Deleting(job[h])

\* The same with nothing said of errors: "the deletion in S3, which cannot be undone, is
\* not lost by a rollback" (docs/ARCHITECTURE.md on the PATCH of a page).  The errors of
\* _move_node come behind the deletions.
RollbackKeepsObjects ==
    \A f \in linked :
        \/ f \in object \/ row[f].purged \/ f \in cut \/ f \in Deleting(task)
        \/ \E h \in Clients : f \in Deleting(job[h])

\* Objects that lost their row, or never got one, do not pile up in storage: once no
\* more files are uploaded, which FileIds bounds, all of them are removed, whatever dies
\* on the way (reconcile_storage_objects).
StorageIsCollected == []<>(object \subseteq Rows)

=============================================================================
