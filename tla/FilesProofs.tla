------------------------------ MODULE FilesProofs ------------------------------
(***************************************************************************)
(* Proofs about the files of the office: which file the collection of      *)
(* orphans may take and which file keeps its object, for any number of     *)
(* files and of requests at a time.                                        *)
(***************************************************************************)
EXTENDS Office, TLAPS

(***************************************************************************)
(* The inductive invariant                                                 *)
(***************************************************************************)

\* What a request and the worker can be in the middle of.
Upload == [op : {"upload"}, file : FileIds]

Bind == [op : {"bind"}, add : SUBSET FileIds, remove : SUBSET FileIds,
         added : SUBSET FileIds, removed : SUBSET FileIds, gone : SUBSET FileIds]

Delete == [op : {"delete"}, file : FileIds, asked : BOOLEAN, gone : SUBSET FileIds]

Batch == [op : {"clean", "purge"}, batch : SUBSET FileIds, gone : SUBSET FileIds]

Reconcile == [op : {"reconcile"}, batch : SUBSET FileIds]

TypeInv ==
    /\ row \in [FileIds -> Storage!Row \cup {None}]
    /\ holder \in [FileIds -> Handlers \cup {Storage!Worker, None}]
    /\ job \in [Handlers -> {Storage!Rest} \cup Upload \cup Bind \cup Delete]
    /\ task \in {Storage!Rest} \cup Batch \cup Reconcile
    /\ object \subseteq FileIds

Uploads(j, f) == j.op = "upload" /\ j.file = f

\* What a request read of a file before, it finds again in the file's row, or no row.
Names(j, f) ==
    \/ j.op = "bind" /\ f \in j.add \cup j.added \cup j.remove \cup j.removed
    \/ j.op = "delete" /\ j.file = f

\* A key is given once: what has a row, an object or an age, and what a request names,
\* was uploaded before.
KeyInv ==
    \A f \in FileIds :
        (\/ f \in Storage!Rows \cup old \cup object
         \/ \E h \in Handlers : Names(job[h], f)) => f \in keys

\* The file of an upload has its object, and nothing else knows it yet.
UploadInv ==
    \A h \in Handlers, f \in FileIds : Uploads(job[h], f) =>
        /\ f \in keys /\ f \in object /\ f \notin Storage!Rows /\ f \notin old
        /\ \A g \in Handlers : ~Names(job[g], f) /\ (g # h => ~Uploads(job[g], f))

LinkInv == \A f \in linked : f \in Storage!Rows /\ row[f].attached

\* A request holds the lock of what it has linked or removed, and locks what it removes
\* after the last addition only.
BindFits(h) ==
    LET j == job[h] IN
    j.op = "bind" =>
        /\ \A f \in FileIds : ~(f \in j.add \cup j.added /\ f \in j.remove \cup j.removed)
        /\ \A f \in j.added : holder[f] = h /\ f \in Storage!Rows
        /\ \A f \in j.removed : f \in Storage!Rows => holder[f] = h
        /\ \A f \in j.gone : f \in j.removed
        /\ j.add # {} => j.removed = {} /\ \A f \in j.remove : holder[f] # h

DeleteFits(h) == job[h].op = "delete" => job[h].gone \subseteq {job[h].file}

LocksFit(h) == \A f \in FileIds : holder[f] = h => job[h].op = "bind"

Fits(h) == BindFits(h) /\ DeleteFits(h) /\ LocksFit(h)

RequestInv == \A h \in Handlers : Fits(h)

\* The worker holds the lock of each row of its batch, and none of an orphan is linked.
BatchInv ==
    task.op \in {"clean", "purge"} =>
        /\ task.gone \subseteq task.batch
        /\ \A f \in task.batch : holder[f] = Storage!Worker /\ f \in old
        /\ task.op = "clean" => task.batch \cap linked = {}

\* What reconciliation deletes never gets a row that needs it.
ReconcileInv ==
    task.op = "reconcile" =>
        \A f \in task.batch : f \in old /\ (f \in Storage!Rows => row[f].purged)

\* LinkedHasObject of every file with a row, linked or not.
HasObject(f) ==
    \/ f \in object \/ row[f].purged \/ f \in cut \cup undone \/ f \in Storage!Deleting(task)
    \/ \E h \in Handlers : f \in Storage!Deleting(job[h])

ObjectInv == \A f \in Storage!Rows : HasObject(f)

IInv ==
    /\ TypeInv /\ KeyInv /\ UploadInv /\ LinkInv
    /\ RequestInv /\ BatchInv /\ ReconcileInv /\ ObjectInv

(***************************************************************************)
(* Lemmas                                                                  *)
(***************************************************************************)

Task == {Storage!Rest} \cup Batch \cup Reconcile

Job == {Storage!Rest} \cup Upload \cup Bind \cup Delete

LEMMA Apart ==
    /\ Storage!Worker \notin Handlers
    /\ None \notin Handlers /\ None \notin FileIds /\ None \notin Storage!Row
    /\ None # Storage!Worker
BY OfficeAssumption DEF Storage!FilesAssumption

\* The name of an operation says what there is to know of it.
LEMMA Kinds ==
    /\ Storage!Rest.op = "rest"
    /\ \A j \in Job :
        /\ j.op = "upload" => j \in Upload
        /\ j.op = "bind" => j \in Bind
        /\ j.op = "delete" => j \in Delete
        /\ j.op \notin {"clean", "purge", "reconcile"}
    /\ \A t \in Task :
        /\ t.op \in {"clean", "purge"} => t \in Batch
        /\ t.op = "reconcile" => t \in Reconcile
        /\ t.op \notin {"upload", "bind", "delete"}
BY DEF Storage!Rest, Job, Task, Upload, Bind, Delete, Batch, Reconcile

\* What a step of a bind writes into its record.
Adds(j, A, B, k) == k = [[j EXCEPT !.add = A] EXCEPT !.added = B]

Removes(j, A, B, C, k) ==
    \/ k = [j EXCEPT !.remove = A] /\ B = j.removed /\ C = j.gone
    \/ k = [[j EXCEPT !.remove = A] EXCEPT !.removed = B] /\ C = j.gone
    \/ k = [[[j EXCEPT !.remove = A] EXCEPT !.removed = B] EXCEPT !.gone = C]

LEMMA BindAdds ==
    ASSUME NEW j \in Bind, NEW A \in SUBSET FileIds, NEW B \in SUBSET FileIds, NEW k,
           Adds(j, A, B, k)
    PROVE  /\ k \in Bind /\ k.op = "bind" /\ k.add = A /\ k.added = B
           /\ k.remove = j.remove /\ k.removed = j.removed /\ k.gone = j.gone
<1> DEFINE i == [j EXCEPT !.add = A]
<1>1. /\ i \in Bind /\ i.op = "bind" /\ i.add = A
      /\ i.remove = j.remove /\ i.removed = j.removed /\ i.gone = j.gone
  BY DEF Bind
<1> HIDE DEF i
<1>2. k = [i EXCEPT !.added = B]
  BY DEF i, Adds
<1> QED BY <1>1, <1>2 DEF Bind

LEMMA BindRemoves ==
    ASSUME NEW j \in Bind, NEW A \in SUBSET FileIds, NEW B \in SUBSET FileIds,
           NEW C \in SUBSET FileIds, NEW k, Removes(j, A, B, C, k)
    PROVE  /\ k \in Bind /\ k.op = "bind" /\ k.add = j.add /\ k.added = j.added
           /\ k.remove = A /\ k.removed = B /\ k.gone = C
<1> DEFINE i == [j EXCEPT !.remove = A]
<1>1. /\ i \in Bind /\ i.op = "bind" /\ i.add = j.add /\ i.added = j.added
      /\ i.remove = A /\ i.removed = j.removed /\ i.gone = j.gone
  BY DEF Bind
<1>2. \/ k = i /\ B = j.removed /\ C = j.gone
      \/ k = [i EXCEPT !.removed = B] /\ C = j.gone
      \/ k = [[i EXCEPT !.removed = B] EXCEPT !.gone = C]
  BY DEF Removes
<1> HIDE DEF i
<1> DEFINE l == [i EXCEPT !.removed = B]
<1>3. /\ l \in Bind /\ l.op = "bind" /\ l.add = j.add /\ l.added = j.added
      /\ l.remove = A /\ l.removed = B /\ l.gone = j.gone
  BY <1>1 DEF Bind
<1>4. \/ k = i /\ B = j.removed /\ C = j.gone
      \/ k = l /\ C = j.gone
      \/ k = [l EXCEPT !.gone = C]
  BY <1>2
<1> HIDE DEF l
<1>5. CASE k = i /\ B = j.removed /\ C = j.gone
  BY <1>1, <1>5
<1>6. CASE k = l /\ C = j.gone
  BY <1>3, <1>6
<1>7. CASE k = [l EXCEPT !.gone = C]
  BY <1>3, <1>7 DEF Bind
<1> QED BY <1>4, <1>5, <1>6, <1>7

\* Nothing of the invariant is about a request that rests.
LEMMA InitIInv == Storage!Init => IInv
<1> SUFFICES ASSUME Storage!Init PROVE IInv
  OBVIOUS
<1>1. /\ Storage!Rows = {} /\ linked = {} /\ old = {} /\ object = {}
      /\ task.op = "rest" /\ \A h \in Handlers : job[h].op = "rest"
  BY Kinds DEF Storage!Init, Storage!Rows
<1>2. TypeInv
  BY DEF Storage!Init, TypeInv
<1>3. \A h \in Handlers : LocksFit(h)
  BY Apart DEF Storage!Init, LocksFit
<1> QED
  BY <1>1, <1>2, <1>3
     DEF IInv, KeyInv, UploadInv, LinkInv, RequestInv, Fits, BindFits, DeleteFits, BatchInv,
         ReconcileInv, ObjectInv, Names, Uploads

\* A request that does not move goes on fitting, as long as the locks it holds and the
\* rows it has locked stay, and no file it names gets a row.
LEMMA OthersFit ==
    ASSUME TypeInv, RequestInv, NEW g \in Handlers, job'[g] = job[g],
           \A f \in FileIds : holder'[f] = g <=> holder[f] = g,
           \A f \in FileIds : holder[f] = g /\ f \in Storage!Rows => f \in Storage!Rows',
           \A f \in FileIds : Names(job[g], f) /\ f \in Storage!Rows' => f \in Storage!Rows
    PROVE  Fits(g)'
<1>1. DeleteFits(g)' /\ LocksFit(g)'
  BY DEF RequestInv, Fits, DeleteFits, LocksFit
<1>2. CASE job[g].op = "bind"
  <2> DEFINE j == job[g]
  <2>1. j \in Bind
    BY <1>2, Kinds DEF TypeInv, Job
  <2>2. /\ \A f \in FileIds : ~(f \in j.add \cup j.added /\ f \in j.remove \cup j.removed)
        /\ \A f \in j.added : holder[f] = g /\ f \in Storage!Rows
        /\ \A f \in j.removed : f \in Storage!Rows => holder[f] = g
        /\ \A f \in j.gone : f \in j.removed
        /\ j.add # {} => j.removed = {} /\ \A f \in j.remove : holder[f] # g
    BY <1>2 DEF RequestInv, Fits, BindFits
  <2>3. \A f \in j.removed : f \in FileIds /\ Names(j, f)
    BY <1>2, <2>1 DEF Names, Bind
  <2>4. /\ \A f \in j.added : f \in FileIds
        /\ \A f \in j.remove : f \in FileIds
    BY <2>1 DEF Bind
  <2>5. \A f \in FileIds : Names(j, f) /\ f \in Storage!Rows' => f \in Storage!Rows
    OBVIOUS
  <2> HIDE DEF j
  <2>6. /\ \A f \in j.added : holder'[f] = g /\ f \in Storage!Rows'
        /\ \A f \in j.removed : f \in Storage!Rows' => holder'[f] = g
        /\ j.add # {} => j.removed = {} /\ \A f \in j.remove : holder'[f] # g
    BY <2>2, <2>3, <2>4, <2>5
  <2> QED
    BY <1>1, <1>2, <2>2, <2>6 DEF BindFits, Fits, j
<1>3. CASE job[g].op # "bind"
  BY <1>1, <1>3 DEF BindFits, Fits
<1> QED BY <1>1, <1>2, <1>3

\* A task that does not move keeps what it relies on.
LEMMA TaskFits ==
    ASSUME TypeInv, BatchInv, ReconcileInv, task' = task, old \subseteq old',
           \A f \in FileIds : holder[f] = Storage!Worker =>
                /\ holder'[f] = Storage!Worker
                /\ f \in linked' => f \in linked,
           \A f \in FileIds : f \in old /\ f \in Storage!Rows' =>
                f \in Storage!Rows /\ (row[f].purged => row'[f].purged)
    PROVE  BatchInv' /\ ReconcileInv'
<1>1. CASE task.op \in {"clean", "purge"}
  <2>1. task \in Batch
    BY <1>1, Kinds DEF TypeInv, Task
  <2>2. /\ task.gone \subseteq task.batch
        /\ \A f \in task.batch : f \in FileIds /\ holder[f] = Storage!Worker /\ f \in old
        /\ task.op = "clean" => task.batch \cap linked = {}
    BY <1>1, <2>1 DEF BatchInv, Batch
  <2> QED BY <1>1, <2>2 DEF BatchInv, ReconcileInv
<1>2. CASE task.op = "reconcile"
  <2>1. task \in Reconcile
    BY <1>2, Kinds DEF TypeInv, Task
  <2>2. \A f \in task.batch : f \in FileIds /\ f \in old /\ (f \in Storage!Rows => row[f].purged)
    BY <1>2, <2>1 DEF ReconcileInv, Reconcile
  <2> QED BY <1>2, <2>2 DEF BatchInv, ReconcileInv
<1>3. CASE task.op \notin {"clean", "purge", "reconcile"}
  BY <1>3 DEF BatchInv, ReconcileInv
<1> QED BY <1>1, <1>2, <1>3

(***************************************************************************)
(* Each action of a request keeps the invariant                            *)
(***************************************************************************)

\* What the end of a request releases.
LEMMA Ending ==
    ASSUME TypeInv, NEW h \in Handlers, Storage!Ends(h)
    PROVE  /\ job' \in [Handlers -> Job] /\ job'[h].op = "rest"
           /\ \A g \in Handlers : g # h => job'[g] = job[g]
           /\ holder' \in [FileIds -> Handlers \cup {Storage!Worker, None}]
           /\ \A f \in FileIds : holder[f] # h => holder'[f] = holder[f]
           /\ \A f \in FileIds : holder[f] = h => holder'[f] = None
           /\ \A f \in FileIds : holder'[f] # h
           /\ \A f \in FileIds, g \in Handlers : g # h => (holder'[f] = g <=> holder[f] = g)
<1>1. job' = [job EXCEPT ![h] = Storage!Rest]
  BY Zenon DEF Storage!Ends
<1>2. \A f \in FileIds : holder'[f] = IF holder[f] = h THEN None ELSE holder[f]
  BY DEF Storage!Ends, Storage!Released
<1>3. holder' = [f \in FileIds |-> IF holder[f] = h THEN None ELSE holder[f]]
  BY DEF Storage!Ends, Storage!Released
<1>4. None # h
  BY Apart
<1>5. \A f \in FileIds, g \in Handlers : g # h => (holder'[f] = g <=> holder[f] = g)
  BY <1>2, Apart
<1>6. \A f \in FileIds : holder'[f] # h /\ (holder[f] = h => holder'[f] = None)
  BY <1>2, <1>4
<1> QED
  BY <1>1, <1>2, <1>3, <1>5, <1>6, Kinds DEF TypeInv, Job

\* A request that ends without a commit keeps the invariant, when it leaves a mark on
\* the rows whose object it deleted.
LEMMA RollsBack ==
    ASSUME IInv, NEW h \in Handlers, Storage!Ends(h),
           UNCHANGED <<keys, row, linked, object, old, task>>,
           \A f \in FileIds : f \in cut \cup undone => f \in cut' \cup undone',
           \A f \in Storage!Deleting(job[h]) : f \in Storage!Rows => f \in cut' \cup undone'
    PROVE  IInv'
<1>2. Storage!Rows' = Storage!Rows
  BY DEF Storage!Rows
<1>3. TypeInv'
  BY Ending DEF IInv, TypeInv, Job
<1>4. KeyInv' /\ UploadInv' /\ LinkInv'
  BY <1>2, Ending DEF IInv, KeyInv, UploadInv, LinkInv, Names, Uploads
<1>5. RequestInv'
  <2>1. \A g \in Handlers : g # h => Fits(g)'
    BY <1>2, Ending, OthersFit DEF IInv
  <2>2. Fits(h)'
    BY Ending DEF IInv, Fits, BindFits, DeleteFits, LocksFit
  <2> QED BY <2>1, <2>2 DEF RequestInv
<1>6. BatchInv' /\ ReconcileInv'
  <2>1. Storage!Worker # h
    BY Apart
  <2> QED BY <1>2, <2>1, Ending, TaskFits DEF IInv
<1>7. ObjectInv'
  <2> SUFFICES ASSUME NEW f \in Storage!Rows PROVE HasObject(f)'
    BY <1>2 DEF ObjectInv
  <2>1. \A g \in Handlers : g # h => Storage!Deleting(job[g])' = Storage!Deleting(job[g])
    BY Ending DEF IInv, Storage!Deleting
  <2>2. Storage!Deleting(task)' = Storage!Deleting(task)
    BY DEF Storage!Deleting
  <2>3. f \in FileIds
    BY DEF Storage!Rows
  <2> QED BY <2>1, <2>2, <2>3 DEF IInv, ObjectInv, HasObject
<1> QED BY <1>3, <1>4, <1>5, <1>6, <1>7 DEF IInv

LEMMA DiesKeepsIInv ==
    ASSUME IInv, NEW h \in Handlers, Storage!Dies(h)
    PROVE  IInv'
<1>1. /\ cut' = cut \cup (Storage!Deleting(job[h]) \cap Storage!Rows)
      /\ UNCHANGED <<keys, row, linked, object, old, task, undone>> /\ Storage!Ends(h)
  BY Zenon DEF Storage!Dies
<1>2. /\ \A f \in FileIds : f \in cut \cup undone => f \in cut' \cup undone'
      /\ \A f \in Storage!Deleting(job[h]) : f \in Storage!Rows => f \in cut' \cup undone'
  BY <1>1
<1> QED BY <1>1, <1>2, RollsBack

\* An error behind the files: what was deleted in storage stays deleted.
LEMMA UpdateFailsKeepsIInv ==
    ASSUME IInv, NEW h \in Handlers, Storage!UpdateFails(h)
    PROVE  IInv'
<1>1. /\ job[h].op = "bind" /\ undone' = undone \cup (job[h].gone \cap Storage!Rows)
      /\ UNCHANGED <<keys, row, linked, object, old, task, cut>> /\ Storage!Ends(h)
  BY Zenon DEF Storage!UpdateFails
<1>2. Storage!Deleting(job[h]) = job[h].gone
  BY <1>1 DEF Storage!Deleting
<1>3. /\ \A f \in FileIds : f \in cut \cup undone => f \in cut' \cup undone'
      /\ \A f \in Storage!Deleting(job[h]) : f \in Storage!Rows => f \in cut' \cup undone'
  BY <1>1, <1>2
<1> QED BY <1>1, <1>3, RollsBack

\* A file that cannot be added: nothing has been deleted by then.
LEMMA AddFailsKeepsIInv ==
    ASSUME IInv, NEW h \in Handlers, Storage!AddFails(h)
    PROVE  IInv'
<1>1. /\ job[h].op = "bind" /\ job[h].add # {} /\ Storage!Ends(h)
      /\ UNCHANGED <<keys, row, linked, object, old, task, cut, undone>>
  BY Zenon DEF Storage!AddFails
<1>2. \A f \in Storage!Deleting(job[h]) : FALSE
  BY <1>1 DEF IInv, RequestInv, Fits, BindFits, Storage!Deleting
<1> QED BY <1>1, <1>2, RollsBack

LEMMA PutObjectKeepsIInv ==
    ASSUME IInv, NEW h \in Handlers, NEW file \in FileIds, Storage!PutObject(h, file)
    PROVE  IInv'
<1> DEFINE j == [op |-> "upload", file |-> file]
<1>1. /\ job[h] = Storage!Rest /\ file \notin keys
      /\ keys' = keys \cup {file} /\ object' = object \cup {file}
      /\ job' = [job EXCEPT ![h] = j]
      /\ UNCHANGED <<row, linked, holder, old, task, cut, undone>>
  BY Zenon DEF Storage!PutObject
<1>2. j \in Job /\ j.op = "upload" /\ j.file = file
  BY DEF Job, Upload
<1>3. /\ job' \in [Handlers -> Job] /\ job'[h].op = "upload" /\ job'[h].file = file
      /\ \A g \in Handlers : g # h => job'[g] = job[g]
  <2> HIDE DEF j
  <2> QED BY <1>1, <1>2 DEF IInv, TypeInv, Job
<1>4. Storage!Rows' = Storage!Rows
  BY <1>1 DEF Storage!Rows
<1> HIDE DEF j
<1>5. TypeInv'
  BY <1>1, <1>3 DEF IInv, TypeInv, Job
<1>6. KeyInv'
  BY <1>1, <1>3, <1>4 DEF IInv, KeyInv, Names
<1>7. UploadInv' /\ LinkInv'
  <2>1. \A f \in FileIds, g \in Handlers : Names(job'[g], f) => Names(job[g], f)
    BY <1>3 DEF Names
  <2>2. \A f \in FileIds, g \in Handlers : Uploads(job'[g], f) =>
            IF g = h THEN f = file ELSE Uploads(job[g], f)
    BY <1>3 DEF Uploads
  <2>3. /\ file \notin Storage!Rows /\ file \notin old
        /\ \A g \in Handlers : ~Names(job[g], file) /\ ~Uploads(job[g], file)
    BY <1>1 DEF IInv, KeyInv, UploadInv
  <2>4. ASSUME NEW g \in Handlers, NEW f \in FileIds, Uploads(job'[g], f)
        PROVE  /\ f \in keys' /\ f \in object' /\ f \notin Storage!Rows' /\ f \notin old'
               /\ \A k \in Handlers : ~Names(job'[k], f) /\ (k # g => ~Uploads(job'[k], f))
    BY <1>1, <1>4, <2>1, <2>2, <2>3, <2>4 DEF IInv, UploadInv
  <2> QED BY <1>1, <1>4, <2>4 DEF IInv, UploadInv, LinkInv
<1>8. RequestInv'
  <2>1. \A g \in Handlers : g # h => Fits(g)'
    BY <1>1, <1>3, <1>4, OthersFit DEF IInv
  <2>2. Fits(h)'
    <3>1. Fits(h) /\ job[h].op = "rest"
      BY <1>1, Kinds DEF IInv, RequestInv
    <3> QED BY <1>1, <1>3, <3>1 DEF Fits, BindFits, DeleteFits, LocksFit
  <2> QED BY <2>1, <2>2 DEF RequestInv
<1>9. BatchInv' /\ ReconcileInv'
  BY <1>1, <1>4, TaskFits DEF IInv
<1>10. ObjectInv'
  <2> SUFFICES ASSUME NEW f \in Storage!Rows PROVE HasObject(f)'
    BY <1>4 DEF ObjectInv
  <2>1. /\ \A g \in Handlers : f \in Storage!Deleting(job[g]) => f \in Storage!Deleting(job[g])'
        /\ Storage!Deleting(task)' = Storage!Deleting(task)
    BY <1>1, <1>3, Kinds DEF Storage!Deleting
  <2> QED BY <1>1, <2>1 DEF IInv, ObjectInv, HasObject
<1> QED BY <1>5, <1>6, <1>7, <1>8, <1>9, <1>10 DEF IInv

LEMMA CommitUploadKeepsIInv ==
    ASSUME IInv, NEW h \in Handlers, Storage!CommitUpload(h)
    PROVE  IInv'
<1> DEFINE file == job[h].file
<1>1. /\ job[h].op = "upload"
      /\ row' = [row EXCEPT ![file] = Storage!Uploaded] /\ Storage!Ends(h)
      /\ UNCHANGED <<keys, linked, object, old, task, cut, undone>>
  BY Zenon DEF Storage!CommitUpload
<1>2. file \in FileIds /\ Uploads(job[h], file)
  BY <1>1, Kinds DEF IInv, TypeInv, Job, Upload, Uploads
<1>3. Storage!Uploaded \in Storage!Row /\ Storage!Uploaded # None
  <2>1. Storage!Uploaded \in Storage!Row
    BY DEF Storage!Uploaded, Storage!Row
  <2> QED BY <2>1, Apart
<1>4. /\ file \in keys /\ file \in object /\ file \notin Storage!Rows /\ file \notin old
      /\ \A g \in Handlers : ~Names(job[g], file) /\ (g # h => ~Uploads(job[g], file))
  BY <1>2 DEF IInv, UploadInv
<1> HIDE DEF file
<1>5. /\ row' \in [FileIds -> Storage!Row \cup {None}]
      /\ \A f \in FileIds : f # file => row'[f] = row[f]
      /\ row'[file] # None
  BY <1>1, <1>2, <1>3 DEF IInv, TypeInv
<1>6. Storage!Rows' = Storage!Rows \cup {file}
  BY <1>2, <1>5 DEF Storage!Rows
<1>7. TypeInv'
  BY <1>1, <1>5, Ending DEF IInv, TypeInv, Job
<1>8. KeyInv' /\ UploadInv'
  <2>1. \A f \in FileIds, g \in Handlers : Names(job'[g], f) => Names(job[g], f)
    BY <1>1, Ending DEF IInv, Names
  <2>2. \A f \in FileIds, g \in Handlers : Uploads(job'[g], f) => g # h /\ Uploads(job[g], f)
    BY <1>1, Ending DEF IInv, Uploads
  <2> QED BY <1>1, <1>4, <1>6, <2>1, <2>2 DEF IInv, KeyInv, UploadInv
<1>9. LinkInv'
  BY <1>1, <1>4, <1>5, <1>6 DEF IInv, LinkInv, Storage!Rows
<1>10. RequestInv'
  <2>1. \A g \in Handlers : g # h => Fits(g)'
    BY <1>1, <1>4, <1>6, Ending, OthersFit DEF IInv
  <2>2. Fits(h)'
    BY <1>1, Ending DEF IInv, Fits, BindFits, DeleteFits, LocksFit
  <2> QED BY <2>1, <2>2 DEF RequestInv
<1>11. BatchInv' /\ ReconcileInv'
  <2>1. Storage!Worker # h
    BY Apart
  <2>2. \A f \in FileIds : f \in old => f # file
    BY <1>4
  <2> QED BY <1>1, <1>5, <1>6, <2>1, <2>2, Ending, TaskFits DEF IInv
<1>12. ObjectInv'
  <2> SUFFICES ASSUME NEW f \in Storage!Rows \cup {file} PROVE HasObject(f)'
    BY <1>6 DEF ObjectInv
  <2>1. \A g \in Handlers : f \in Storage!Deleting(job[g]) => f \in Storage!Deleting(job[g])'
    BY <1>1, Ending DEF IInv, Storage!Deleting
  <2>2. Storage!Deleting(task)' = Storage!Deleting(task)
    BY <1>1 DEF Storage!Deleting
  <2>3. f = file \/ (f \in Storage!Rows /\ row'[f] = row[f])
    BY <1>5 DEF Storage!Rows
  <2> QED BY <1>1, <1>4, <2>1, <2>2, <2>3 DEF IInv, ObjectInv, HasObject
<1> QED BY <1>7, <1>8, <1>9, <1>10, <1>11, <1>12 DEF IInv

\* A request that goes on without writing a row keeps the invariant, when it fits
\* what it has come to, names rows only, takes free locks, and what it deletes in
\* storage it remembers.
LEMMA GoesOn ==
    ASSUME IInv, NEW h \in Handlers, NEW k \in Job, k.op \in {"bind", "delete"},
           job' = [job EXCEPT ![h] = k], UNCHANGED <<keys, row, linked, old, task, cut, undone>>,
           holder' \in [FileIds -> Handlers \cup {Storage!Worker, None}],
           \A f \in FileIds : holder'[f] = holder[f] \/ (holder[f] = None /\ holder'[f] = h),
           \A f \in FileIds : Names(k, f) => Names(job[h], f) \/ f \in Storage!Rows,
           \A f \in object' : f \in object,
           \A f \in object \ object' : Names(k, f) /\ f \in Storage!Deleting(k),
           \A f \in Storage!Deleting(job[h]) : f \in Storage!Deleting(k),
           Fits(h)'
    PROVE  IInv'
<1>1. /\ job' \in [Handlers -> Job] /\ job'[h] = k
      /\ \A g \in Handlers : g # h => job'[g] = job[g]
  BY DEF IInv, TypeInv, Job
<1>2. Storage!Rows' = Storage!Rows
  BY DEF Storage!Rows
<1>3. TypeInv'
  BY <1>1 DEF IInv, TypeInv, Job
<1>4. \A f \in FileIds, g \in Handlers :
          Names(job'[g], f) => Names(job[g], f) \/ f \in Storage!Rows
  BY <1>1
<1>5. \A f \in FileIds, g \in Handlers : Uploads(job'[g], f) => g # h /\ Uploads(job[g], f)
  BY <1>1 DEF Uploads
<1>6. KeyInv'
  BY <1>2, <1>4 DEF IInv, KeyInv
<1>7. UploadInv'
  <2> SUFFICES ASSUME NEW g \in Handlers, NEW f \in FileIds, Uploads(job'[g], f)
               PROVE  /\ f \in keys' /\ f \in object' /\ f \notin Storage!Rows' /\ f \notin old'
                      /\ \A i \in Handlers : ~Names(job'[i], f) /\ (i # g => ~Uploads(job'[i], f))
    BY DEF UploadInv
  <2>1. /\ f \in keys /\ f \in object /\ f \notin Storage!Rows /\ f \notin old
        /\ \A i \in Handlers : ~Names(job[i], f) /\ (i # g => ~Uploads(job[i], f))
    BY <1>5 DEF IInv, UploadInv
  <2>2. \A i \in Handlers : ~Names(job'[i], f) /\ (i # g => ~Uploads(job'[i], f))
    BY <1>4, <1>5, <2>1
  <2>3. f \in object'
    BY <1>1, <2>1, <2>2
  <2> QED BY <1>2, <2>1, <2>2, <2>3
<1>8. LinkInv'
  BY <1>2 DEF IInv, LinkInv
<1>9. RequestInv'
  <2>1. \A f \in FileIds, g \in Handlers : g # h => (holder'[f] = g <=> holder[f] = g)
    BY Apart
  <2>2. \A g \in Handlers : g # h => Fits(g)'
    BY <1>1, <1>2, <2>1, OthersFit DEF IInv
  <2> QED BY <2>2 DEF RequestInv
<1>10. BatchInv' /\ ReconcileInv'
  BY <1>2, Apart, TaskFits DEF IInv
<1>11. ObjectInv'
  <2> SUFFICES ASSUME NEW f \in Storage!Rows PROVE HasObject(f)'
    BY <1>2 DEF ObjectInv
  <2>1. \A g \in Handlers : f \in Storage!Deleting(job[g]) => f \in Storage!Deleting(job'[g])
    BY <1>1
  <2>2. f \in object \ object' => f \in Storage!Deleting(job'[h])
    BY <1>1
  <2>3. HasObject(f)
    BY DEF IInv, ObjectInv
  <2>4. /\ Storage!Deleting(task)' = Storage!Deleting(task)
        /\ \A g \in Handlers : Storage!Deleting(job[g])' = Storage!Deleting(job'[g])
    BY DEF Storage!Deleting
  <2> QED BY <2>1, <2>2, <2>3, <2>4 DEF HasObject
<1> QED BY <1>3, <1>6, <1>7, <1>8, <1>9, <1>10, <1>11 DEF IInv

LEMMA LoadForBindKeepsIInv ==
    ASSUME IInv, NEW h \in Handlers, NEW add \in SUBSET FileIds,
           NEW remove \in SUBSET FileIds, Storage!LoadForBind(h, add, remove)
    PROVE  IInv'
<1> DEFINE k == [op |-> "bind", add |-> add, remove |-> remove,
                 added |-> {}, removed |-> {}, gone |-> {}]
<1>1. /\ job[h] = Storage!Rest
      /\ add \subseteq Storage!Rows \ linked
      /\ remove \subseteq linked
      /\ job' = [job EXCEPT ![h] = k]
      /\ UNCHANGED <<keys, row, linked, holder, object, old, task, cut, undone>>
  BY Zenon DEF Storage!LoadForBind
<1>2. /\ k \in Bind /\ k.op = "bind" /\ k.add = add /\ k.remove = remove
      /\ k.added = {} /\ k.removed = {} /\ k.gone = {}
  BY DEF Bind
<1> HIDE DEF k
<1>3. job'[h] = k
  BY <1>1 DEF IInv, TypeInv
<1>4. Fits(h)'
  <2>1. LocksFit(h) /\ job[h].op = "rest"
    BY <1>1, Kinds DEF IInv, RequestInv, Fits
  <2>2. \A f \in FileIds : holder'[f] # h
    BY <1>1, <2>1 DEF LocksFit
  <2>3. \A f \in FileIds : ~(f \in add /\ f \in remove)
    BY <1>1
  <2> QED BY <1>2, <1>3, <2>2, <2>3 DEF Fits, BindFits, DeleteFits, LocksFit
<1>5. \A f \in FileIds : Names(k, f) => f \in Storage!Rows
  BY <1>1, <1>2 DEF Names, IInv, LinkInv
<1>6. Storage!Deleting(job[h]) = {}
  BY <1>1, Kinds DEF Storage!Deleting
<1> QED
  BY <1>1, <1>2, <1>4, <1>5, <1>6, GoesOn DEF Job, IInv, TypeInv

LEMMA AddFileKeepsIInv ==
    ASSUME IInv, NEW h \in Handlers, NEW file \in FileIds, Storage!AddFile(h, file)
    PROVE  IInv'
<1> DEFINE j == job[h]
           A == j.add \ {file}
           B == j.added \cup {file}
           k == [[j EXCEPT !.add = A] EXCEPT !.added = B]
<1>1. /\ j.op = "bind" /\ file \in j.add /\ holder[file] = None
      /\ file \in Storage!Rows \ linked
      /\ holder' = [holder EXCEPT ![file] = h]
      /\ job' = [job EXCEPT ![h].add = @ \ {file}, ![h].added = @ \cup {file}]
      /\ UNCHANGED <<keys, row, linked, object, old, task, cut, undone>>
  BY Zenon DEF Storage!AddFile
<1>2. j \in Bind /\ BindFits(h)
  BY <1>1, Kinds DEF IInv, TypeInv, Job, RequestInv, Fits
<1>3. job' = [job EXCEPT ![h] = k]
  BY <1>1 DEF IInv, TypeInv
<1>4. /\ A \in SUBSET FileIds /\ B \in SUBSET FileIds
      /\ \A f : f \in A => f \in j.add
      /\ \A f : f \in B <=> f \in j.added \/ f = file
      /\ \A f \in B : f \in FileIds
  BY <1>2 DEF Bind
<1>5. /\ j.removed = {} /\ j.gone = {}
      /\ \A f \in j.remove : holder[f] # h /\ f # file /\ f \in FileIds
      /\ \A f \in FileIds : ~(f \in j.add \cup j.added /\ f \in j.remove)
      /\ \A f \in j.added : holder[f] = h /\ f \in Storage!Rows
  <2>1. j.add # {}
    BY <1>1
  <2>2. \A f \in j.remove : f \in FileIds
    BY <1>2 DEF Bind
  <2>3. /\ \A f \in FileIds : ~(f \in j.add \cup j.added /\ f \in j.remove \cup j.removed)
        /\ \A f \in j.added : holder[f] = h /\ f \in Storage!Rows
        /\ \A f \in j.gone : f \in j.removed
        /\ j.removed = {} /\ \A f \in j.remove : holder[f] # h
    BY <1>1, <1>2, <2>1 DEF BindFits
  <2> HIDE DEF j
  <2> QED BY <1>1, <2>2, <2>3
<1> HIDE DEF A, B
<1>6. /\ k \in Bind /\ k.op = "bind" /\ k.add = A /\ k.added = B
      /\ k.remove = j.remove /\ k.removed = j.removed /\ k.gone = j.gone
  <2>1. Adds(j, A, B, k)
    BY DEF Adds
  <2> HIDE DEF j, k
  <2> QED BY <1>2, <1>4, <2>1, BindAdds
<1> HIDE DEF k
<1>7. job'[h] = k
  BY <1>3 DEF IInv, TypeInv
<1>8. /\ holder'[file] = h /\ \A f \in FileIds : f # file => holder'[f] = holder[f]
      /\ holder' \in [FileIds -> Handlers \cup {Storage!Worker, None}]
  BY <1>1 DEF IInv, TypeInv
<1>9. Storage!Rows' = Storage!Rows
  BY <1>1 DEF Storage!Rows
<1>10. Fits(h)'
  <2>1. /\ \A f \in FileIds : ~(f \in k.add \cup k.added /\ f \in k.remove \cup k.removed)
        /\ \A f \in k.added : holder'[f] = h /\ f \in Storage!Rows'
        /\ k.removed = {} /\ k.gone = {}
        /\ \A f \in k.remove : holder'[f] # h
    <3> HIDE DEF j
    <3> QED BY <1>1, <1>4, <1>5, <1>6, <1>8, <1>9
  <2> QED BY <1>6, <1>7, <2>1 DEF Fits, BindFits, DeleteFits, LocksFit
<1>11. /\ \A f \in FileIds : Names(k, f) => Names(j, f)
       /\ Storage!Deleting(j) = Storage!Deleting(k)
  BY <1>1, <1>4, <1>6 DEF Names, Storage!Deleting
<1> HIDE DEF j
<1>12. /\ \A f \in FileIds : Names(k, f) => Names(job[h], f)
       /\ Storage!Deleting(job[h]) = Storage!Deleting(k)
  BY <1>11 DEF j
<1> QED
  BY <1>1, <1>3, <1>6, <1>8, <1>10, <1>12, GoesOn DEF Job

\* A request that ends keeps the invariant, when it removes rows that no other one has
\* locked, links what it has locked, and leaves no row whose object it deleted.
LEMMA Finishes ==
    ASSUME IInv, NEW h \in Handlers, Storage!Ends(h), job[h].op \in {"bind", "delete"},
           UNCHANGED <<keys, object, old, task>>,
           row' \in [FileIds -> Storage!Row \cup {None}], LinkInv',
           \A f \in Storage!Rows' : f \in Storage!Rows /\ (row[f].purged => row'[f].purged),
           \A f \in Storage!Rows : f \in Storage!Rows' \/ holder[f] \in {None, h},
           \A f \in linked' : f \in linked \/ holder[f] = h,
           \A f \in Storage!Rows' : /\ f \notin Storage!Deleting(job[h])
                                    /\ f \in cut \cup undone => f \in cut' \cup undone'
    PROVE  IInv'
<1>1. TypeInv'
  BY Ending DEF IInv, TypeInv, Job
<1>2. KeyInv' /\ UploadInv'
  <2>1. \A f \in FileIds, g \in Handlers : Names(job'[g], f) => Names(job[g], f)
    BY Ending DEF IInv, Names
  <2>2. \A f \in FileIds, g \in Handlers : Uploads(job'[g], f) => Uploads(job[g], f)
    BY Ending DEF IInv, Uploads
  <2> QED BY <2>1, <2>2 DEF IInv, KeyInv, UploadInv
<1>3. RequestInv'
  <2>1. \A g \in Handlers : g # h => Fits(g)'
    BY Ending, OthersFit, Apart DEF IInv
  <2>2. Fits(h)'
    BY Ending DEF IInv, Fits, BindFits, DeleteFits, LocksFit
  <2> QED BY <2>1, <2>2 DEF RequestInv
<1>4. BatchInv' /\ ReconcileInv'
  BY Ending, TaskFits, Apart DEF IInv
<1>5. ObjectInv'
  <2> SUFFICES ASSUME NEW f \in Storage!Rows' PROVE HasObject(f)'
    BY DEF ObjectInv
  <2>1. \A g \in Handlers : g # h => Storage!Deleting(job[g])' = Storage!Deleting(job[g])
    BY Ending DEF IInv, Storage!Deleting
  <2>2. Storage!Deleting(task)' = Storage!Deleting(task)
    BY DEF Storage!Deleting
  <2>3. HasObject(f)
    BY DEF IInv, ObjectInv
  <2> QED BY <2>1, <2>2, <2>3 DEF HasObject
<1> QED BY <1>1, <1>2, <1>3, <1>4, <1>5 DEF IInv

LEMMA LockKeepsIInv ==
    ASSUME IInv, NEW h \in Handlers, NEW file \in FileIds, job[h].op = "bind",
           file \in job[h].remove, job[h].add = {}, holder[file] = None,
           holder' = [holder EXCEPT ![file] = h],
           UNCHANGED <<keys, row, linked, object, old, job, task, cut, undone>>
    PROVE  IInv'
<1> DEFINE k == job[h]
<1>1. k \in Bind /\ BindFits(h)
  BY Kinds DEF IInv, TypeInv, Job, RequestInv, Fits
<1>2. /\ holder' \in [FileIds -> Handlers \cup {Storage!Worker, None}]
      /\ \A f \in FileIds : f # file => holder'[f] = holder[f]
      /\ holder'[file] = h
  BY DEF IInv, TypeInv
<1>3. Storage!Rows' = Storage!Rows
  BY DEF Storage!Rows
<1>4. /\ \A f \in FileIds : ~(f \in k.add \cup k.added /\ f \in k.remove \cup k.removed)
      /\ \A f \in k.added : holder[f] = h /\ f \in Storage!Rows
      /\ \A f \in k.removed : f \in Storage!Rows => holder[f] = h
      /\ \A f \in k.gone : f \in k.removed
  BY <1>1 DEF BindFits
<1>5. /\ \A f \in k.added : f \in FileIds
      /\ \A f \in k.removed : f \in FileIds
  BY <1>1 DEF Bind
<1>6. /\ \A f \in k.added : holder'[f] = h /\ f \in Storage!Rows'
      /\ \A f \in k.removed : f \in Storage!Rows' => holder'[f] = h
  <2> HIDE DEF k
  <2> QED BY <1>2, <1>3, <1>4, <1>5
<1>7. Fits(h)'
  <2>1. job'[h] = k
    OBVIOUS
  <2> HIDE DEF k
  <2>2. k.op = "bind" /\ k.add = {}
    BY DEF k
  <2> QED BY <1>4, <1>6, <2>1, <2>2 DEF Fits, BindFits, DeleteFits, LocksFit
<1>8. /\ job' = [job EXCEPT ![h] = k] /\ k \in Job /\ k.op \in {"bind", "delete"}
      /\ \A f \in FileIds : holder'[f] = holder[f] \/ (holder[f] = None /\ holder'[f] = h)
  BY <1>1, <1>2 DEF IInv, TypeInv, Job
<1>9. /\ \A f \in FileIds : Names(k, f) => Names(job[h], f)
      /\ \A f \in Storage!Deleting(job[h]) : f \in Storage!Deleting(k)
  OBVIOUS
<1> HIDE DEF k
<1> QED BY <1>2, <1>7, <1>8, <1>9, GoesOn

\* A file leaves those that are to be removed: its row is gone, or is locked and its
\* object deleted (then it is in C) or not.
LEMMA FileLeaves ==
    ASSUME IInv, NEW h \in Handlers, NEW file \in FileIds, NEW k \in Bind,
           job[h].op = "bind", file \in job[h].remove, job[h].add = {},
           holder[file] = h \/ file \notin Storage!Rows,
           k.op = "bind", k.add = job[h].add, k.added = job[h].added,
           k.remove = job[h].remove \ {file},
           \A f \in k.removed : f \in job[h].removed \/ f = file,
           \A f \in job[h].removed : f \in k.removed,
           \A f \in k.gone : f \in job[h].gone \/ (f = file /\ f \in k.removed),
           \A f \in job[h].gone : f \in k.gone,
           \A f \in object' : f \in object,
           \A f \in object \ object' : f = file /\ f \in k.gone,
           job' = [job EXCEPT ![h] = k],
           UNCHANGED <<keys, row, linked, holder, old, task, cut, undone>>
    PROVE  IInv'
<1> DEFINE j == job[h]
<1>1. j \in Bind /\ BindFits(h)
  BY Kinds DEF IInv, TypeInv, Job, RequestInv, Fits
<1>2. job'[h] = k
  BY DEF IInv, TypeInv
<1>3. Storage!Rows' = Storage!Rows
  BY DEF Storage!Rows
<1>4. /\ \A f \in FileIds : ~(f \in j.add \cup j.added /\ f \in j.remove \cup j.removed)
      /\ \A f \in j.added : holder[f] = h /\ f \in Storage!Rows
      /\ \A f \in j.removed : f \in Storage!Rows => holder[f] = h
      /\ \A f \in j.gone : f \in j.removed
  BY <1>1 DEF BindFits
<1>5. /\ \A f \in FileIds : ~(f \in k.add \cup k.added /\ f \in k.remove \cup k.removed)
      /\ \A f \in k.added : holder'[f] = h /\ f \in Storage!Rows'
      /\ \A f \in k.removed : f \in Storage!Rows' => holder'[f] = h
      /\ \A f \in k.gone : f \in k.removed
      /\ k.add = {}
  <2>1. \A f \in FileIds : f \in k.remove => f \in j.remove
    OBVIOUS
  <2> QED BY <1>3, <1>4, <2>1
<1>6. Fits(h)'
  BY <1>2, <1>5 DEF Fits, BindFits, DeleteFits, LocksFit
<1>7. /\ Storage!Deleting(j) = j.gone /\ Storage!Deleting(k) = k.gone
      /\ \A f \in FileIds : Names(k, f) => Names(j, f)
      /\ \A f \in k.gone : Names(k, f)
  BY <1>5 DEF Names, Storage!Deleting
<1>8. /\ \A f \in Storage!Deleting(job[h]) : f \in Storage!Deleting(k)
      /\ \A f \in object \ object' : Names(k, f) /\ f \in Storage!Deleting(k)
      /\ \A f \in FileIds : Names(k, f) => Names(job[h], f)
  BY <1>7
<1>9. /\ k \in Job /\ k.op \in {"bind", "delete"}
      /\ holder' \in [FileIds -> Handlers \cup {Storage!Worker, None}]
      /\ \A f \in FileIds : holder'[f] = holder[f]
  BY DEF Job, IInv, TypeInv
<1> HIDE DEF j
<1> QED BY <1>6, <1>8, <1>9, GoesOn

LEMMA LockRemovedKeepsIInv ==
    ASSUME IInv, NEW h \in Handlers, NEW file \in FileIds, Storage!LockRemoved(h, file)
    PROVE  IInv'
<1> DEFINE j == job[h]
           A == j.remove \ {file}
           k == [j EXCEPT !.remove = A]
<1>1. /\ j.op = "bind" /\ file \in j.remove /\ j.add = {} /\ holder[file] = None
      /\ IF file \in Storage!Rows
         THEN holder' = [holder EXCEPT ![file] = h] /\ UNCHANGED job
         ELSE job' = [job EXCEPT ![h].remove = @ \ {file}] /\ UNCHANGED holder
      /\ UNCHANGED <<keys, row, linked, object, old, task, cut, undone>>
  BY Zenon DEF Storage!LockRemoved, Storage!RemovalsMayStart
<1>2. CASE file \in Storage!Rows
  BY <1>1, <1>2, LockKeepsIInv
<1>3. CASE file \notin Storage!Rows
  <2>1. j \in Bind
    BY <1>1, Kinds DEF IInv, TypeInv, Job
  <2>2. job' = [job EXCEPT ![h] = k] /\ UNCHANGED holder
    BY <1>1, <1>3 DEF IInv, TypeInv
  <2>3. A \in SUBSET FileIds /\ j.removed \in SUBSET FileIds /\ j.gone \in SUBSET FileIds
    BY <2>1 DEF Bind
  <2>4. A = job[h].remove \ {file}
    OBVIOUS
  <2> HIDE DEF A
  <2>5. /\ k \in Bind /\ k.op = "bind" /\ k.add = j.add /\ k.added = j.added
        /\ k.remove = A /\ k.removed = j.removed /\ k.gone = j.gone
    <3>1. Removes(j, A, j.removed, j.gone, k)
      BY DEF Removes
    <3> HIDE DEF j, k
    <3> QED BY <2>1, <2>3, <3>1, BindRemoves
  <2> HIDE DEF k
  <2> QED BY <1>1, <1>3, <2>2, <2>4, <2>5, FileLeaves
<1> QED BY <1>2, <1>3

LEMMA RemoveObjectKeepsIInv ==
    ASSUME IInv, NEW h \in Handlers, NEW file \in FileIds, Storage!RemoveObject(h, file)
    PROVE  IInv'
<1> DEFINE j == job[h]
           A == j.remove \ {file}
           B == j.removed \cup {file}
           C == j.gone \cup {file}
<1>1. /\ j.op = "bind" /\ file \in j.remove /\ holder[file] = h
      /\ \/ /\ object' = object \ {file}
            /\ job' = [job EXCEPT ![h].remove = @ \ {file}, ![h].removed = @ \cup {file},
                                  ![h].gone = @ \cup {file}]
         \/ /\ job' = [job EXCEPT ![h].remove = @ \ {file}, ![h].removed = @ \cup {file}]
            /\ UNCHANGED object
      /\ UNCHANGED <<keys, row, linked, holder, old, task, cut, undone>>
  BY Zenon DEF Storage!RemoveObject
<1>2. j \in Bind /\ j.add = {}
  BY <1>1, Kinds DEF IInv, TypeInv, Job, RequestInv, Fits, BindFits
<1>3. /\ A \in SUBSET FileIds /\ B \in SUBSET FileIds /\ C \in SUBSET FileIds
      /\ j.gone \in SUBSET FileIds
      /\ \A f : f \in B <=> f \in j.removed \/ f = file
      /\ \A f : f \in C <=> f \in j.gone \/ f = file
      /\ A = job[h].remove \ {file}
  BY <1>2 DEF Bind
<1>4. CASE /\ object' = object \ {file}
           /\ job' = [job EXCEPT ![h].remove = @ \ {file}, ![h].removed = @ \cup {file},
                                 ![h].gone = @ \cup {file}]
  <2> DEFINE k == [[[j EXCEPT !.remove = A] EXCEPT !.removed = B] EXCEPT !.gone = C]
  <2>1. job' = [job EXCEPT ![h] = k]
    BY <1>4 DEF IInv, TypeInv
  <2> HIDE DEF A, B, C
  <2>2. /\ k \in Bind /\ k.op = "bind" /\ k.add = j.add /\ k.added = j.added
        /\ k.remove = A /\ k.removed = B /\ k.gone = C
    <3>1. Removes(j, A, B, C, k)
      BY DEF Removes
    <3> HIDE DEF j, k
    <3> QED BY <1>2, <1>3, <3>1, BindRemoves
  <2> HIDE DEF k
  <2>3. /\ \A f \in object' : f \in object
        /\ \A f \in object \ object' : f = file /\ f \in k.gone
    BY <1>3, <1>4, <2>2
  <2> QED BY <1>1, <1>2, <1>3, <2>1, <2>2, <2>3, FileLeaves
<1>5. CASE /\ job' = [job EXCEPT ![h].remove = @ \ {file}, ![h].removed = @ \cup {file}]
           /\ UNCHANGED object
  <2> DEFINE k == [[j EXCEPT !.remove = A] EXCEPT !.removed = B]
  <2>1. job' = [job EXCEPT ![h] = k]
    BY <1>5 DEF IInv, TypeInv
  <2> HIDE DEF A, B, C
  <2>2. /\ k \in Bind /\ k.op = "bind" /\ k.add = j.add /\ k.added = j.added
        /\ k.remove = A /\ k.removed = B /\ k.gone = j.gone
    <3>1. Removes(j, A, B, j.gone, k)
      BY DEF Removes
    <3> HIDE DEF j, k
    <3> QED BY <1>2, <1>3, <3>1, BindRemoves
  <2> HIDE DEF k
  <2>3. /\ \A f \in object' : f \in object
        /\ \A f \in object \ object' : f = file /\ f \in k.gone
    BY <1>5
  <2> QED BY <1>1, <1>2, <1>3, <2>1, <2>2, <2>3, FileLeaves
<1> QED BY <1>1, <1>4, <1>5

LEMMA CommitBindKeepsIInv ==
    ASSUME IInv, NEW h \in Handlers, Storage!CommitBind(h)
    PROVE  IInv'
<1> DEFINE j == job[h]
           A == j.added
           B == j.removed
<1>1. /\ j.op = "bind" /\ Storage!Ends(h)
      /\ row' = [f \in FileIds |-> IF f \in A THEN [row[f] EXCEPT !.attached = TRUE]
                                   ELSE IF f \in B THEN None
                                   ELSE row[f]]
      /\ linked' = (linked \ B) \cup A
      /\ cut' = cut \ B /\ undone' = undone \ B
      /\ UNCHANGED <<keys, object, old, task>>
  BY Zenon DEF Storage!CommitBind
<1>2. j \in Bind /\ BindFits(h)
  BY <1>1, Kinds DEF IInv, TypeInv, Job, RequestInv, Fits
<1>3. /\ \A f \in A : f \in FileIds /\ f \notin B /\ holder[f] = h /\ f \in Storage!Rows
      /\ \A f \in B : f \in FileIds /\ (f \in Storage!Rows => holder[f] = h)
      /\ \A f \in j.gone : f \in B
  <2>1. \A f \in A : f \in FileIds
    BY <1>2 DEF Bind
  <2>2. \A f \in B : f \in FileIds
    BY <1>2 DEF Bind
  <2>3. /\ \A f \in FileIds : ~(f \in A /\ f \in B)
        /\ \A f \in A : holder[f] = h /\ f \in Storage!Rows
        /\ \A f \in B : f \in Storage!Rows => holder[f] = h
        /\ \A f \in j.gone : f \in B
    BY <1>1, <1>2 DEF BindFits
  <2> HIDE DEF A, B
  <2> QED BY <2>1, <2>2, <2>3
<1>4. Storage!Deleting(j) = j.gone
  BY <1>1 DEF Storage!Deleting
<1> HIDE DEF A, B
<1>5. ASSUME NEW f \in A
      PROVE  row'[f] \in Storage!Row /\ row'[f].attached /\ (row'[f].purged <=> row[f].purged)
  <2> DEFINE k == [row[f] EXCEPT !.attached = TRUE]
  <2>1. row'[f] = k
    BY <1>1, <1>3
  <2>2. row[f] \in Storage!Row
    BY <1>3 DEF IInv, TypeInv, Storage!Rows
  <2>3. k \in Storage!Row /\ k.attached /\ (k.purged <=> row[f].purged)
    BY <2>2 DEF Storage!Row
  <2> HIDE DEF k
  <2> QED BY <2>1, <2>3
<1>6. /\ \A f \in B : row'[f] = None
      /\ \A f \in FileIds : f \notin A /\ f \notin B => row'[f] = row[f]
  BY <1>1, <1>3
<1>7. row' \in [FileIds -> Storage!Row \cup {None}]
  <2>1. \A f \in FileIds : row'[f] \in Storage!Row \cup {None}
    BY <1>5, <1>6 DEF IInv, TypeInv
  <2>2. row' = [f \in FileIds |-> row'[f]]
    BY <1>1
  <2> QED BY <2>1, <2>2
<1>8. \A f \in FileIds : /\ f \in Storage!Rows' <=> f \in Storage!Rows /\ f \notin B
                         /\ f \in Storage!Rows' => (row[f].purged => row'[f].purged)
  <2> SUFFICES ASSUME NEW f \in FileIds
               PROVE  /\ f \in Storage!Rows' <=> f \in Storage!Rows /\ f \notin B
                      /\ f \in Storage!Rows' => (row[f].purged => row'[f].purged)
    OBVIOUS
  <2>1. f \in Storage!Rows' <=> row'[f] # None
    BY DEF Storage!Rows
  <2>2. f \in Storage!Rows <=> row[f] # None
    BY DEF Storage!Rows
  <2>3. CASE f \in A
    BY <1>3, <1>5, <2>1, <2>3, Apart
  <2>4. CASE f \notin A
    BY <1>6, <2>1, <2>2, <2>4
  <2> QED BY <2>3, <2>4
<1>9. /\ \A f \in Storage!Rows : f \in FileIds
      /\ \A f \in Storage!Rows' : f \in FileIds
  BY DEF Storage!Rows
<1>10. LinkInv'
  <2> SUFFICES ASSUME NEW f \in linked' PROVE f \in Storage!Rows' /\ row'[f].attached
    BY DEF LinkInv
  <2>1. CASE f \in A
    BY <1>3, <1>5, <1>8, <2>1
  <2>2. CASE f \notin A
    <3>1. f \in linked /\ f \notin B
      BY <1>1, <2>2
    <3>2. f \in Storage!Rows /\ row[f].attached
      BY <3>1 DEF IInv, LinkInv
    <3> QED BY <1>6, <1>8, <1>9, <2>2, <3>1, <3>2
  <2> QED BY <2>1, <2>2
<1>11. /\ \A f \in Storage!Rows' : f \in Storage!Rows /\ (row[f].purged => row'[f].purged)
       /\ \A f \in Storage!Rows : f \in Storage!Rows' \/ holder[f] \in {None, h}
       /\ \A f \in linked' : f \in linked \/ holder[f] = h
  BY <1>1, <1>3, <1>8, <1>9
<1>12. \A f \in Storage!Rows' : /\ f \notin Storage!Deleting(job[h])
                                /\ f \in cut \cup undone => f \in cut' \cup undone'
  BY <1>1, <1>3, <1>4, <1>8, <1>9
<1> QED
  BY <1>1, <1>7, <1>10, <1>11, <1>12, Finishes

LEMMA LoadForDeleteFileKeepsIInv ==
    ASSUME IInv, NEW h \in Handlers, NEW file \in FileIds, Storage!LoadForDeleteFile(h, file)
    PROVE  IInv'
<1> DEFINE k == [op |-> "delete", file |-> file, asked |-> row[file].purged, gone |-> {}]
<1>1. /\ job[h] = Storage!Rest /\ file \in Storage!Rows
      /\ job' = [job EXCEPT ![h] = k]
      /\ UNCHANGED <<keys, row, linked, holder, object, old, task, cut, undone>>
  BY Zenon DEF Storage!LoadForDeleteFile
<1>2. row[file].purged \in BOOLEAN
  BY <1>1 DEF IInv, TypeInv, Storage!Rows, Storage!Row
<1>3. k \in Delete /\ k.op = "delete" /\ k.file = file /\ k.gone = {}
  BY <1>2 DEF Delete
<1> HIDE DEF k
<1>4. job'[h] = k
  BY <1>1 DEF IInv, TypeInv
<1>5. Fits(h)'
  <2>1. LocksFit(h) /\ job[h].op = "rest"
    BY <1>1, Kinds DEF IInv, RequestInv, Fits
  <2> QED BY <1>1, <1>3, <1>4, <2>1 DEF Fits, BindFits, DeleteFits, LocksFit
<1>6. /\ \A f \in FileIds : Names(k, f) => f \in Storage!Rows
      /\ Storage!Deleting(job[h]) = {}
      /\ k \in Job /\ k.op \in {"bind", "delete"}
      /\ holder \in [FileIds -> Handlers \cup {Storage!Worker, None}]
  BY <1>1, <1>3, Kinds DEF Names, Storage!Deleting, Job, IInv, TypeInv
<1> QED
  BY <1>1, <1>5, <1>6, GoesOn

LEMMA DeleteFileObjectKeepsIInv ==
    ASSUME IInv, NEW h \in Handlers, Storage!DeleteFileObject(h)
    PROVE  IInv'
<1> DEFINE j == job[h]
           file == j.file
<1>1. /\ j.op = "delete" /\ ~j.asked
      /\ \/ /\ object' = object \ {file}
            /\ job' = [job EXCEPT ![h].asked = TRUE, ![h].gone = {file}]
         \/ /\ job' = [job EXCEPT ![h].asked = TRUE] /\ UNCHANGED object
      /\ UNCHANGED <<keys, row, linked, holder, old, task, cut, undone>>
  BY Zenon DEF Storage!DeleteFileObject
<1>2. j \in Delete /\ Fits(h)
  BY <1>1, Kinds DEF IInv, TypeInv, Job, RequestInv
<1>3. file \in FileIds /\ \A f \in j.gone : f = file
  BY <1>1, <1>2 DEF Delete, Fits, DeleteFits
<1>4. \E k : /\ k \in Delete /\ k.op = "delete" /\ k.file = file
             /\ job' = [job EXCEPT ![h] = k]
             /\ \A f \in j.gone : f \in k.gone
             /\ \A f \in k.gone : f = file
             /\ \A f \in object' : f \in object
             /\ \A f \in object \ object' : f = file /\ f \in k.gone
  <2>1. CASE object' = object \ {file} /\ job' = [job EXCEPT ![h].asked = TRUE, ![h].gone = {file}]
    <3> DEFINE g == {file}
               i == [j EXCEPT !.asked = TRUE]
               k == [i EXCEPT !.gone = g]
    <3>1. job' = [job EXCEPT ![h] = k]
      BY <2>1 DEF IInv, TypeInv
    <3>2. g \in SUBSET FileIds /\ \A f : f \in g <=> f = file
      BY <1>3
    <3>3. i \in Delete /\ i.op = "delete" /\ i.file = file
      BY <1>2 DEF Delete
    <3>4. object' = object \ g
      BY <2>1
    <3> HIDE DEF g, i
    <3>5. k \in Delete /\ k.op = "delete" /\ k.file = file /\ k.gone = g
      BY <3>2, <3>3 DEF Delete
    <3> HIDE DEF k, file
    <3>6. /\ \A f \in j.gone : f \in k.gone
          /\ \A f \in k.gone : f = file
          /\ \A f \in object' : f \in object
          /\ \A f \in object \ object' : f = file /\ f \in k.gone
      BY <1>3, <3>2, <3>4, <3>5
    <3> QED BY <3>1, <3>5, <3>6
  <2>2. CASE job' = [job EXCEPT ![h].asked = TRUE] /\ UNCHANGED object
    <3> DEFINE k == [j EXCEPT !.asked = TRUE]
    <3>1. job' = [job EXCEPT ![h] = k]
      BY <2>2
    <3>2. k \in Delete /\ k.op = "delete" /\ k.file = file /\ k.gone = j.gone
      BY <1>2 DEF Delete
    <3> HIDE DEF k, file
    <3> QED BY <1>3, <2>2, <3>1, <3>2
  <2> QED BY <1>1, <2>1, <2>2
<1>5. PICK k : /\ k \in Delete /\ k.op = "delete" /\ k.file = file
               /\ job' = [job EXCEPT ![h] = k]
               /\ \A f \in j.gone : f \in k.gone
               /\ \A f \in k.gone : f = file
               /\ \A f \in object' : f \in object
               /\ \A f \in object \ object' : f = file /\ f \in k.gone
  BY <1>4
<1>6. job'[h] = k
  BY <1>5 DEF IInv, TypeInv
<1>7. Fits(h)'
  BY <1>1, <1>2, <1>5, <1>6 DEF Fits, BindFits, DeleteFits, LocksFit
<1>8. /\ \A f \in FileIds : Names(k, f) => Names(j, f)
      /\ Storage!Deleting(j) = j.gone
      /\ Storage!Deleting(k) = k.gone
      /\ \A f \in object \ object' : Names(k, f) /\ f \in Storage!Deleting(k)
  BY <1>1, <1>5 DEF Names, Storage!Deleting
<1>10. \A f \in Storage!Deleting(job[h]) : f \in Storage!Deleting(k)
  BY <1>5, <1>8
<1>9. /\ k \in Job /\ k.op \in {"bind", "delete"}
      /\ holder' \in [FileIds -> Handlers \cup {Storage!Worker, None}]
      /\ \A f \in FileIds : holder'[f] = holder[f]
  BY <1>1, <1>5 DEF Job, IInv, TypeInv
<1> HIDE DEF file
<1> QED
  BY <1>1, <1>5, <1>7, <1>8, <1>9, <1>10, GoesOn

LEMMA CommitDeleteFileKeepsIInv ==
    ASSUME IInv, NEW h \in Handlers, Storage!CommitDeleteFile(h)
    PROVE  IInv'
<1> DEFINE j == job[h]
           file == j.file
<1>1. /\ j.op = "delete" /\ holder[file] = None /\ Storage!Ends(h)
      /\ row' = [row EXCEPT ![file] = None]
      /\ linked' = linked \ {file} /\ cut' = cut \ {file} /\ undone' = undone \ {file}
      /\ UNCHANGED <<keys, object, old, task>>
  BY Zenon DEF Storage!CommitDeleteFile
<1>2. j \in Delete /\ DeleteFits(h)
  BY <1>1, Kinds DEF IInv, TypeInv, Job, RequestInv, Fits
<1>3. file \in FileIds /\ \A f \in Storage!Deleting(j) : f = file
  BY <1>1, <1>2 DEF Delete, DeleteFits, Storage!Deleting
<1> HIDE DEF file
<1>4. /\ row' \in [FileIds -> Storage!Row \cup {None}] /\ row'[file] = None
      /\ \A f \in FileIds : f # file => row'[f] = row[f]
  BY <1>1, <1>3 DEF IInv, TypeInv
<1>5. \A f \in FileIds : f \in Storage!Rows' <=> f \in Storage!Rows /\ f # file
  BY <1>4 DEF Storage!Rows
<1>6. LinkInv'
  BY <1>1, <1>4, <1>5 DEF IInv, LinkInv, Storage!Rows
<1>7. /\ \A f \in Storage!Rows' : f \in Storage!Rows /\ (row[f].purged => row'[f].purged)
      /\ \A f \in Storage!Rows : f \in Storage!Rows' \/ holder[f] \in {None, h}
      /\ \A f \in linked' : f \in linked \/ holder[f] = h
      /\ \A f \in Storage!Rows' : /\ f \notin Storage!Deleting(job[h])
                                  /\ f \in cut \cup undone => f \in cut' \cup undone'
  BY <1>1, <1>3, <1>4, <1>5 DEF Storage!Rows
<1>8. /\ job[h].op \in {"bind", "delete"} /\ Storage!Ends(h)
      /\ UNCHANGED <<keys, object, old, task>>
  BY <1>1
<1>9. row' \in [FileIds -> Storage!Row \cup {None}]
  BY <1>4
<1> HIDE DEF j
<1> QED
  BY <1>6, <1>7, <1>8, <1>9, Finishes

(***************************************************************************)
(* Each step of the worker keeps the invariant                             *)
(***************************************************************************)

\* No request notices a step of the worker that takes no lock and no locked row of
\* one, writes no new row, and deletes old objects only.
LEMMA RequestsGoOn ==
    ASSUME IInv, UNCHANGED <<keys, job>>,
           \A f \in FileIds, g \in Handlers : holder'[f] = g <=> holder[f] = g,
           \A f \in FileIds : f \in Storage!Rows' => f \in Storage!Rows,
           \A f \in FileIds : f \in Storage!Rows /\ holder[f] \in Handlers => f \in Storage!Rows',
           \A f \in object' : f \in object,
           \A f \in object \ object' : f \in old,
           \A f \in old' : f \in old \/ (f \in keys /\ \A h \in Handlers : ~Uploads(job[h], f))
    PROVE  KeyInv' /\ UploadInv' /\ RequestInv'
<1>1. KeyInv'
  BY DEF IInv, KeyInv
<1>2. UploadInv'
  BY DEF IInv, UploadInv
<1>3. RequestInv'
  <2>1. \A g \in Handlers : Fits(g)'
    BY OthersFit DEF IInv
  <2> QED BY <2>1 DEF RequestInv
<1> QED BY <1>1, <1>2, <1>3

LEMMA GrowOldKeepsIInv ==
    ASSUME IInv, NEW file \in FileIds, Storage!GrowOld(file)
    PROVE  IInv'
<1>1. /\ file \in Storage!Rows \cup object
      /\ \A h \in Handlers : ~Uploads(job[h], file)
      /\ old' = old \cup {file}
      /\ UNCHANGED <<keys, row, linked, holder, object, job, task, cut, undone>>
  BY DEF Storage!GrowOld, Uploads
<1>2. Storage!Rows' = Storage!Rows
  BY <1>1 DEF Storage!Rows
<1>3. \A f \in old' : f \in old \/ (f \in keys /\ \A h \in Handlers : ~Uploads(job[h], f))
  BY <1>1 DEF IInv, KeyInv
<1>4. KeyInv' /\ UploadInv' /\ RequestInv'
  BY <1>1, <1>2, <1>3, RequestsGoOn
<1>5. BatchInv' /\ ReconcileInv'
  BY <1>1, <1>2 DEF IInv, BatchInv, ReconcileInv
<1>6. TypeInv' /\ LinkInv' /\ ObjectInv'
  BY <1>1, <1>2 DEF IInv, TypeInv, LinkInv, ObjectInv, HasObject, Storage!Deleting
<1> QED BY <1>4, <1>5, <1>6 DEF IInv

\* The task ends without a commit, or starts or goes on without a row being written.
LEMMA WorkerMoves ==
    ASSUME IInv, task' \in Task, BatchInv', ReconcileInv',
           UNCHANGED <<keys, row, linked, old, job>>,
           holder' \in [FileIds -> Handlers \cup {Storage!Worker, None}],
           \A f \in FileIds, g \in Handlers : holder'[f] = g <=> holder[f] = g,
           \A f \in object' : f \in object,
           \A f \in object \ object' : f \in old,
           \A f \in Storage!Rows :
                f \in cut \cup undone \/ f \in Storage!Deleting(task) \/ (f \in object \ object' /\ ~row[f].purged)
                    => f \in cut' \cup undone' \/ f \in Storage!Deleting(task)'
    PROVE  IInv'
<1>1. Storage!Rows' = Storage!Rows
  BY DEF Storage!Rows
<1>2. TypeInv' /\ LinkInv'
  BY <1>1 DEF IInv, TypeInv, LinkInv, Task
<1>3. KeyInv' /\ UploadInv' /\ RequestInv'
  BY <1>1, RequestsGoOn
<1>4. ObjectInv'
  <2> SUFFICES ASSUME NEW f \in Storage!Rows PROVE HasObject(f)'
    BY <1>1 DEF ObjectInv
  <2>1. \A g \in Handlers : Storage!Deleting(job[g])' = Storage!Deleting(job[g])
    BY DEF Storage!Deleting
  <2>2. HasObject(f)
    BY DEF IInv, ObjectInv
  <2> QED BY <2>1, <2>2 DEF HasObject
<1> QED BY <1>2, <1>3, <1>4 DEF IInv

\* What the end of a task releases.
LEMMA TaskEnding ==
    ASSUME TypeInv, holder' = Storage!Released(Storage!Worker), task' = Storage!Rest
    PROVE  /\ holder' \in [FileIds -> Handlers \cup {Storage!Worker, None}]
           /\ \A f \in FileIds, g \in Handlers : holder'[f] = g <=> holder[f] = g
           /\ task' \in Task /\ Storage!Deleting(task)' = {}
           /\ BatchInv' /\ ReconcileInv'
<1>1. \A f \in FileIds : holder'[f] = IF holder[f] = Storage!Worker THEN None ELSE holder[f]
  BY DEF Storage!Released
<1>2. holder' = [f \in FileIds |-> IF holder[f] = Storage!Worker THEN None ELSE holder[f]]
  BY DEF Storage!Released
<1>3. \A f \in FileIds, g \in Handlers : holder'[f] = g <=> holder[f] = g
  BY <1>1, Apart
<1>4. task' \in Task /\ Storage!Deleting(task)' = {} /\ BatchInv' /\ ReconcileInv'
  BY Kinds DEF Task, Storage!Deleting, BatchInv, ReconcileInv
<1> QED BY <1>2, <1>3, <1>4 DEF TypeInv

LEMMA WorkerDiesKeepsIInv ==
    ASSUME IInv, Storage!WorkerDies
    PROVE  IInv'
<1>1. /\ task' = Storage!Rest /\ holder' = Storage!Released(Storage!Worker)
      /\ cut' = cut \cup (Storage!Deleting(task) \cap Storage!Rows)
      /\ UNCHANGED <<keys, row, linked, object, old, job, undone>>
  BY DEF Storage!WorkerDies
<1> QED BY <1>1, TaskEnding, WorkerMoves DEF IInv

\* A batch of old rows that nobody has locked.
LEMMA BatchKeepsIInv ==
    ASSUME IInv, NEW op \in {"clean", "purge"}, NEW batch \in SUBSET Storage!Free,
           op = "clean" => \A f \in batch : ~row[f].attached, Storage!Batch(op, batch)
    PROVE  IInv'
<1> DEFINE t == [op |-> op, batch |-> batch, gone |-> {}]
<1>1. /\ task = Storage!Rest /\ holder' = Storage!LockedByWorker(batch) /\ task' = t
      /\ UNCHANGED <<keys, row, linked, object, old, job, cut, undone>>
  BY DEF Storage!Batch
<1>2. \A f \in batch : f \in FileIds /\ f \in Storage!Rows /\ f \in old /\ holder[f] = None
  BY DEF Storage!Free, Storage!Rows
<1>3. \A f \in FileIds : holder'[f] = IF f \in batch THEN Storage!Worker ELSE holder[f]
  BY <1>1 DEF Storage!LockedByWorker
<1>4. holder' = [f \in FileIds |-> IF f \in batch THEN Storage!Worker ELSE holder[f]]
  BY <1>1 DEF Storage!LockedByWorker
<1>5. t \in Task /\ t.op = op /\ t.batch = batch /\ t.gone = {}
  BY <1>2 DEF Task, Batch
<1> HIDE DEF t
<1>6. BatchInv' /\ ReconcileInv'
  BY <1>1, <1>2, <1>3, <1>5 DEF IInv, LinkInv, BatchInv, ReconcileInv
<1>7. /\ holder' \in [FileIds -> Handlers \cup {Storage!Worker, None}]
      /\ \A f \in FileIds, g \in Handlers : holder'[f] = g <=> holder[f] = g
  BY <1>2, <1>3, <1>4, Apart DEF IInv, TypeInv
<1>8. Storage!Deleting(task) = {}
  BY <1>1, Kinds DEF Storage!Deleting
<1> QED BY <1>1, <1>5, <1>6, <1>7, <1>8, WorkerMoves

LEMMA DeleteBatchObjectKeepsIInv ==
    ASSUME IInv, NEW file \in FileIds, Storage!DeleteBatchObject(file)
    PROVE  IInv'
<1> DEFINE g == task.gone \cup {file}
           t == [task EXCEPT !.gone = g]
<1>1. /\ task.op \in {"clean", "purge"} /\ file \in task.batch
      /\ object' = object \ {file} /\ task' = t
      /\ UNCHANGED <<keys, row, linked, holder, old, job, cut, undone>>
  BY Zenon DEF Storage!DeleteBatchObject
<1>2. /\ task \in Batch /\ task.gone \subseteq task.batch
      /\ \A f \in task.batch : holder[f] = Storage!Worker /\ f \in old
      /\ task.op = "clean" => task.batch \cap linked = {}
  BY <1>1, Kinds DEF IInv, TypeInv, Task, BatchInv
<1>3. g \in SUBSET FileIds /\ \A f : f \in g <=> f \in task.gone \/ f = file
  BY <1>2 DEF Batch
<1> HIDE DEF g
<1>4. t \in Batch /\ t.op = task.op /\ t.batch = task.batch /\ t.gone = g
  BY <1>2, <1>3 DEF Batch
<1> HIDE DEF t
<1>5. BatchInv' /\ ReconcileInv'
  BY <1>1, <1>2, <1>3, <1>4 DEF BatchInv, ReconcileInv
<1>6. /\ holder' \in [FileIds -> Handlers \cup {Storage!Worker, None}]
      /\ \A f \in FileIds, h \in Handlers : holder'[f] = h <=> holder[f] = h
      /\ task' \in Task
  BY <1>1, <1>4 DEF IInv, TypeInv, Task
<1>7. Storage!Deleting(task) = task.gone /\ Storage!Deleting(task)' = g
  BY <1>1, <1>4 DEF Storage!Deleting
<1>8. /\ \A f \in object' : f \in object
      /\ \A f \in object \ object' : f = file /\ f \in old
  BY <1>1, <1>2
<1>9. \A f \in Storage!Rows :
          f \in cut \cup undone \/ f \in Storage!Deleting(task) \/ (f \in object \ object' /\ ~row[f].purged)
              => f \in cut' \cup undone' \/ f \in Storage!Deleting(task)'
  BY <1>1, <1>3, <1>7, <1>8
<1> QED BY <1>1, <1>5, <1>6, <1>8, <1>9, WorkerMoves

LEMMA ReconcileStorageObjectsKeepsIInv ==
    ASSUME IInv, Storage!ReconcileStorageObjects
    PROVE  IInv'
<1> DEFINE batch == Storage!Candidates
           t == [op |-> "reconcile", batch |-> batch]
<1>1. /\ task = Storage!Rest /\ task' = t
      /\ UNCHANGED <<keys, row, linked, holder, object, old, job, cut, undone>>
  BY DEF Storage!ReconcileStorageObjects
<1>2. /\ batch \in SUBSET FileIds
      /\ \A f \in batch : f \in old /\ (f \in Storage!Rows => row[f].purged)
  BY DEF Storage!Candidates, IInv, TypeInv
<1>3. Storage!Rows' = Storage!Rows
  BY <1>1 DEF Storage!Rows
<1> HIDE DEF batch
<1>4. t \in Reconcile /\ t.op = "reconcile" /\ t.batch = batch
  BY <1>2 DEF Reconcile
<1> HIDE DEF t
<1>5. BatchInv' /\ ReconcileInv'
  BY <1>1, <1>2, <1>3, <1>4 DEF BatchInv, ReconcileInv
<1>6. /\ holder' \in [FileIds -> Handlers \cup {Storage!Worker, None}]
      /\ \A f \in FileIds, h \in Handlers : holder'[f] = h <=> holder[f] = h
      /\ task' \in Task
  BY <1>1, <1>4 DEF IInv, TypeInv, Task
<1>7. Storage!Deleting(task) = {}
  BY <1>1, Kinds DEF Storage!Deleting
<1> QED BY <1>1, <1>5, <1>6, <1>7, WorkerMoves

LEMMA DeleteCandidateKeepsIInv ==
    ASSUME IInv, NEW file \in FileIds, Storage!DeleteCandidate(file)
    PROVE  IInv'
<1> DEFINE b == task.batch \ {file}
           t == [task EXCEPT !.batch = b]
<1>1. /\ task.op = "reconcile" /\ file \in task.batch
      /\ object' = object \ {file} /\ task' = t
      /\ UNCHANGED <<keys, row, linked, holder, old, job, cut, undone>>
  BY Zenon DEF Storage!DeleteCandidate
<1>2. /\ task \in Reconcile
      /\ \A f \in task.batch : f \in old /\ (f \in Storage!Rows => row[f].purged)
  BY <1>1, Kinds DEF IInv, TypeInv, Task, ReconcileInv
<1>3. b \in SUBSET FileIds /\ \A f \in b : f \in task.batch
  BY <1>2 DEF Reconcile
<1> HIDE DEF b
<1>4. t \in Reconcile /\ t.op = "reconcile" /\ t.batch = b
  BY <1>1, <1>2, <1>3 DEF Reconcile
<1> HIDE DEF t
<1>5. Storage!Rows' = Storage!Rows
  BY <1>1 DEF Storage!Rows
<1>6. BatchInv' /\ ReconcileInv'
  BY <1>1, <1>2, <1>3, <1>4, <1>5 DEF BatchInv, ReconcileInv
<1>7. /\ holder' \in [FileIds -> Handlers \cup {Storage!Worker, None}]
      /\ \A f \in FileIds, h \in Handlers : holder'[f] = h <=> holder[f] = h
      /\ task' \in Task
  BY <1>1, <1>4 DEF IInv, TypeInv, Task
<1>8. Storage!Deleting(task) = {}
  BY <1>1 DEF Storage!Deleting
<1>9. /\ \A f \in object' : f \in object
      /\ \A f \in object \ object' : f \in old /\ (f \in Storage!Rows => row[f].purged)
  BY <1>1, <1>2
<1> QED BY <1>1, <1>6, <1>7, <1>8, <1>9, WorkerMoves

LEMMA ReconcileEndsKeepsIInv ==
    ASSUME IInv, Storage!ReconcileEnds
    PROVE  IInv'
<1>1. /\ task.op = "reconcile" /\ task' = Storage!Rest
      /\ UNCHANGED <<keys, row, linked, holder, object, old, job, cut, undone>>
  BY DEF Storage!ReconcileEnds
<1>2. /\ holder' \in [FileIds -> Handlers \cup {Storage!Worker, None}]
      /\ \A f \in FileIds, h \in Handlers : holder'[f] = h <=> holder[f] = h
      /\ task' \in Task /\ BatchInv' /\ ReconcileInv'
      /\ Storage!Deleting(task) = {}
  BY <1>1, Kinds DEF IInv, TypeInv, Task, BatchInv, ReconcileInv, Storage!Deleting
<1> QED BY <1>1, <1>2, WorkerMoves

\* The rows of a batch are removed, or marked as purged.
LEMMA CommitBatchKeepsIInv ==
    ASSUME IInv, Storage!CommitBatch
    PROVE  IInv' /\ (task.op = "clean" => linked' = linked)
<1> DEFINE g == task.gone
<1>1. /\ task.op \in {"clean", "purge"}
      /\ row' = [f \in FileIds |-> IF f \notin g \cap Storage!Rows THEN row[f]
                                   ELSE IF task.op = "clean" THEN None
                                   ELSE [row[f] EXCEPT !.purged = TRUE]]
      /\ linked' = IF task.op = "clean" THEN linked \ g ELSE linked
      /\ cut' = cut \ g /\ undone' = undone \ g /\ task' = Storage!Rest
      /\ holder' = Storage!Released(Storage!Worker)
      /\ UNCHANGED <<keys, object, old, job>>
  BY Zenon DEF Storage!CommitBatch
<1>2. /\ task \in Batch
      /\ \A f \in g : f \in FileIds /\ holder[f] = Storage!Worker
      /\ task.op = "clean" => \A f \in g : f \notin linked
  BY <1>1, Kinds DEF IInv, TypeInv, Task, Batch, BatchInv
<1>3. linked' = linked
  BY <1>1, <1>2
<1>4. Storage!Deleting(task) = g
  BY <1>1 DEF Storage!Deleting
<1>5. \A f \in FileIds : f \notin g \/ f \notin Storage!Rows => row'[f] = row[f]
  BY <1>1
<1>6. ASSUME NEW f \in FileIds, f \in g, f \in Storage!Rows
      PROVE  IF task.op = "clean" THEN row'[f] = None
             ELSE row'[f] \in Storage!Row /\ row'[f].purged /\ (row'[f].attached <=> row[f].attached)
  <2>1. row'[f] = IF task.op = "clean" THEN None ELSE [row[f] EXCEPT !.purged = TRUE]
    BY <1>1, <1>6
  <2>2. row[f] \in Storage!Row
    BY <1>6 DEF IInv, TypeInv, Storage!Rows
  <2> DEFINE k == [row[f] EXCEPT !.purged = TRUE]
  <2>3. k \in Storage!Row /\ k.purged /\ (k.attached <=> row[f].attached)
    BY <2>2 DEF Storage!Row
  <2> HIDE DEF k
  <2> QED BY <2>1, <2>3 DEF k
<1> HIDE DEF g
<1>7. row' \in [FileIds -> Storage!Row \cup {None}]
  <2>1. \A f \in FileIds : row'[f] \in Storage!Row \cup {None}
    BY <1>5, <1>6 DEF IInv, TypeInv
  <2>2. row' = [f \in FileIds |-> row'[f]]
    BY <1>1
  <2> QED BY <2>1, <2>2
<1>8. ASSUME NEW f \in FileIds, f \in Storage!Rows'
      PROVE  /\ f \in Storage!Rows
             /\ row[f].attached => row'[f].attached
             /\ row[f].purged => row'[f].purged
             /\ f \in g => row'[f].purged
  BY <1>5, <1>6, <1>8 DEF Storage!Rows
<1>9. ASSUME NEW f \in FileIds, f \in Storage!Rows, f \notin Storage!Rows'
      PROVE  f \in g /\ task.op = "clean"
  BY <1>5, <1>6, <1>9, Apart DEF Storage!Rows
<1>10. LinkInv'
  <2>1. \A f \in linked : f \in FileIds /\ f \in Storage!Rows /\ row[f].attached
    BY DEF IInv, LinkInv, Storage!Rows
  <2> QED BY <1>2, <1>3, <1>8, <1>9, <2>1 DEF LinkInv
<1>11. TypeInv' /\ BatchInv' /\ ReconcileInv'
  BY <1>1, <1>7, TaskEnding DEF IInv, TypeInv, Task
<1>12. KeyInv' /\ UploadInv' /\ RequestInv'
  <2>1. \A f \in FileIds : f \in Storage!Rows /\ holder[f] \in Handlers => f \in Storage!Rows'
    BY <1>2, <1>9, Apart
  <2> QED BY <1>1, <1>8, <2>1, RequestsGoOn, TaskEnding DEF IInv
<1>13. ObjectInv'
  <2> SUFFICES ASSUME NEW f \in Storage!Rows' PROVE HasObject(f)'
    BY DEF ObjectInv
  <2>1. /\ f \in FileIds /\ f \in Storage!Rows /\ (row[f].purged => row'[f].purged)
        /\ f \in g => row'[f].purged
    BY <1>8 DEF Storage!Rows
  <2>2. HasObject(f)
    BY <2>1 DEF IInv, ObjectInv
  <2>3. \A h \in Handlers : Storage!Deleting(job[h])' = Storage!Deleting(job[h])
    BY <1>1 DEF Storage!Deleting
  <2> QED BY <1>1, <1>4, <2>1, <2>2, <2>3 DEF HasObject
<1> QED BY <1>3, <1>10, <1>11, <1>12, <1>13 DEF IInv

(***************************************************************************)
(* The theorems                                                            *)
(***************************************************************************)

LEMMA NextKeepsIInv ==
    ASSUME IInv, Storage!Next
    PROVE  IInv'
<1>1. ASSUME NEW h \in Handlers, Storage!Request(h) PROVE IInv'
  BY <1>1, DiesKeepsIInv, PutObjectKeepsIInv, CommitUploadKeepsIInv, LoadForBindKeepsIInv,
     AddFileKeepsIInv, AddFailsKeepsIInv, LockRemovedKeepsIInv, RemoveObjectKeepsIInv,
     UpdateFailsKeepsIInv, CommitBindKeepsIInv, LoadForDeleteFileKeepsIInv, DeleteFileObjectKeepsIInv,
     CommitDeleteFileKeepsIInv
     DEF Storage!Request
<1>2. CASE Storage!RunTask
  <2>1. ASSUME Storage!CleanupOrphanFiles PROVE IInv'
    <3> DEFINE batch == {f \in Storage!Free : ~row[f].attached}
    <3>1. Storage!Batch("clean", batch) /\ batch \in SUBSET Storage!Free
          /\ \A f \in batch : ~row[f].attached
      BY <2>1 DEF Storage!CleanupOrphanFiles
    <3> HIDE DEF batch
    <3> QED BY <3>1, BatchKeepsIInv
  <2>2. ASSUME Storage!PurgeExpiredFiles PROVE IInv'
    <3> DEFINE batch == {f \in Storage!Free : row[f].attached /\ ~row[f].purged}
    <3>1. Storage!Batch("purge", batch) /\ batch \in SUBSET Storage!Free
      BY <2>2 DEF Storage!PurgeExpiredFiles
    <3> HIDE DEF batch
    <3> QED BY <3>1, BatchKeepsIInv
  <2> QED
    BY <1>2, <2>1, <2>2, CommitBatchKeepsIInv, ReconcileStorageObjectsKeepsIInv,
       ReconcileEndsKeepsIInv, DeleteBatchObjectKeepsIInv, DeleteCandidateKeepsIInv,
       WorkerDiesKeepsIInv
       DEF Storage!RunTask
<1>3. CASE \E f \in FileIds : Storage!GrowOld(f)
  BY <1>3, GrowOldKeepsIInv
<1> QED BY <1>1, <1>2, <1>3 DEF Storage!Next

\* While files are the part that moves, their invariant holds.
FilesInv == part = "files" => IInv

LEMMA InitFilesInv == Init => FilesInv
BY InitIInv DEF Init, FilesInv

LEMMA NextFilesInv == FilesInv /\ [Next]_officeVars => FilesInv'
<1> SUFFICES ASSUME FilesInv, [Next]_officeVars, part' = "files" PROVE IInv'
  BY DEF FilesInv
<1>1. CASE FilesMove
  BY <1>1, NextKeepsIInv DEF FilesMove, FilesInv
<1>2. CASE ~FilesMove
  <2>1. part = "files" /\ UNCHANGED storing
    BY <1>2 DEF Next, TestsMove, OvertimeMoves, WindowMoves, WorkplaceMoves, KnowledgeMoves, officeVars
  <2>2. IInv /\ UNCHANGED <<keys, row, linked, holder, object, old, job, task, cut, undone>>
    BY <2>1 DEF FilesInv, storing
  <2> QED
    BY <2>2
       DEF IInv, TypeInv, KeyInv, UploadInv, LinkInv, RequestInv, Fits, BindFits, DeleteFits,
           LocksFit, BatchInv, ReconcileInv, ObjectInv, HasObject, Names, Uploads,
           Storage!Rows, Storage!Deleting
<1> QED BY <1>1, <1>2

LEMMA FilesInvInductive == Spec => []FilesInv
BY InitFilesInv, NextFilesInv, PTL DEF Spec

\* The task that collects orphans never takes a file that has been linked in the
\* meantime, for any number of requests that link files while it runs
\* (tasks/cleanup.py, cleanup_orphan_files).
THEOREM SparesLinked == Spec => CleanupSparesLinked
<1>1. FilesInv /\ [Next]_officeVars =>
          [task.op = "clean" /\ Storage!CommitBatch => linked' = linked]_(Storage!fileVars)
  <2> SUFFICES ASSUME FilesInv, Next, task.op = "clean", Storage!CommitBatch,
                      UNCHANGED Storage!fileVars => FALSE
               PROVE  linked' = linked
    BY DEF officeVars, storing, Storage!fileVars
  <2>1. CASE FilesMove
    BY <2>1, CommitBatchKeepsIInv DEF FilesMove, FilesInv
  <2>2. CASE ~FilesMove
    BY <2>2 DEF Next, TestsMove, OvertimeMoves, WindowMoves, WorkplaceMoves, KnowledgeMoves, storing
  <2> QED BY <2>1, <2>2
<1> QED BY <1>1, FilesInvInductive, PTL DEF Spec, CleanupSparesLinked, Storage!CleanupSparesLinked

\* A file that is linked and has not expired has its object, for any number of requests
\* at a time, unless a transaction that removes it is under way or ended behind the
\* deletion without a commit; one whose addition fails has deleted nothing by then
\* (services/knowledge.py, _recompute_file_bindings; services/file_storage.py,
\* delete_file).
THEOREM LinkedKeepsObject == Spec => []LinkedHasObject
<1>1. FilesInv => LinkedHasObject
  BY DEF FilesInv, IInv, LinkInv, ObjectInv, HasObject, LinkedHasObject, Storage!LinkedHasObject
<1> QED BY <1>1, FilesInvInductive, PTL

(***************************************************************************)
(* The types                                                               *)
(***************************************************************************)

\* The type invariant beyond IInv: ages and marks are those of files, and the worker has
\* locked nothing unless a batch is under way.
RestInv ==
    /\ old \subseteq FileIds /\ cut \subseteq FileIds /\ undone \subseteq FileIds
    /\ \A f \in FileIds : holder[f] = Storage!Worker => task.op \in {"clean", "purge"}

\* A request changes nothing of that.
LEMMA RequestKeepsRest ==
    ASSUME IInv, RestInv, NEW h \in Handlers, Storage!Request(h)
    PROVE  RestInv'
<1>1. holder \in [FileIds -> Handlers \cup {Storage!Worker, None}]
  BY DEF IInv, TypeInv
<1>2. Storage!Rows \subseteq FileIds
  BY DEF Storage!Rows
<1>3. /\ UNCHANGED <<old, task>>
      /\ cut' \subseteq cut \cup Storage!Rows
      /\ undone' \subseteq undone \cup Storage!Rows
      /\ \/ holder' = holder
         \/ holder' = Storage!Released(h)
         \/ \E f : holder' = [holder EXCEPT ![f] = h]
  <2> USE DEF Storage!Ends
  <2>1. CASE Storage!Dies(h)
    <3>1. /\ UNCHANGED <<old, task, undone>> /\ holder' = Storage!Released(h)
          /\ \E files : cut' = cut \cup (files \cap Storage!Rows)
      BY <2>1, Zenon DEF Storage!Dies
    <3> QED BY <3>1
  <2>2. CASE Storage!UpdateFails(h)
    <3>1. /\ UNCHANGED <<old, task, cut>> /\ holder' = Storage!Released(h)
          /\ \E files : undone' = undone \cup (files \cap Storage!Rows)
      BY <2>2, Zenon DEF Storage!UpdateFails
    <3> QED BY <3>1
  <2>3. CASE Storage!CommitBind(h) \/ Storage!CommitDeleteFile(h)
    <3>1. /\ UNCHANGED <<old, task>> /\ holder' = Storage!Released(h)
          /\ \E files : cut' = cut \ files
          /\ \E files : undone' = undone \ files
      BY <2>3, Zenon DEF Storage!CommitBind, Storage!CommitDeleteFile
    <3> QED BY <3>1
  <2>4. CASE \E f \in FileIds : Storage!PutObject(h, f) \/ Storage!LoadForDeleteFile(h, f)
    <3>1. UNCHANGED <<old, task, cut, undone, holder>>
      BY <2>4, Zenon DEF Storage!PutObject, Storage!LoadForDeleteFile
    <3> QED BY <3>1
  <2>5. CASE \E add, remove \in SUBSET FileIds : Storage!LoadForBind(h, add, remove)
    <3>1. UNCHANGED <<old, task, cut, undone, holder>>
      BY <2>5, Zenon DEF Storage!LoadForBind
    <3> QED BY <3>1
  <2>6. CASE \E f \in FileIds : Storage!AddFile(h, f) \/ Storage!LockRemoved(h, f)
    <3>1. /\ UNCHANGED <<old, task, cut, undone>>
          /\ holder' = holder \/ \E f : holder' = [holder EXCEPT ![f] = h]
      BY <2>6, Zenon DEF Storage!AddFile, Storage!LockRemoved
    <3> QED BY <3>1
  <2>7. CASE Storage!DeleteFileObject(h) \/ \E f \in FileIds : Storage!RemoveObject(h, f)
    <3>1. UNCHANGED <<old, task, cut, undone, holder>>
      BY <2>7, Zenon DEF Storage!RemoveObject, Storage!DeleteFileObject
    <3> QED BY <3>1
  <2>8. CASE Storage!CommitUpload(h) \/ Storage!AddFails(h)
    <3>1. UNCHANGED <<old, task, cut, undone>> /\ holder' = Storage!Released(h)
      BY <2>8, Zenon DEF Storage!CommitUpload, Storage!AddFails
    <3> QED BY <3>1
  <2> QED BY <2>1, <2>2, <2>3, <2>4, <2>5, <2>6, <2>7, <2>8 DEF Storage!Request
<1>4. \A f \in FileIds : holder'[f] = Storage!Worker => holder[f] = Storage!Worker
  <2>1. CASE holder' = Storage!Released(h)
    BY <2>1, Apart DEF Storage!Released
  <2>2. ASSUME NEW g, holder' = [holder EXCEPT ![g] = h]
        PROVE  \A f \in FileIds : holder'[f] = Storage!Worker => holder[f] = Storage!Worker
    BY <1>1, <2>2, Apart
  <2> QED BY <1>3, <2>1, <2>2
<1> QED BY <1>2, <1>3, <1>4 DEF RestInv

LEMMA TaskKeepsRest ==
    ASSUME IInv, RestInv, Storage!RunTask \/ \E f \in FileIds : Storage!GrowOld(f)
    PROVE  RestInv'
<1>1. task \in Task /\ Storage!Rows \subseteq FileIds
  BY DEF IInv, TypeInv, Task, Storage!Rows
<1>2. ASSUME NEW f \in FileIds, Storage!GrowOld(f) PROVE RestInv'
  BY <1>2 DEF Storage!GrowOld, RestInv
<1>3. CASE Storage!CommitBatch \/ Storage!WorkerDies
  <2>1. /\ old' = old /\ holder' = Storage!Released(Storage!Worker)
        /\ \/ \E files : cut' = cut \cup (files \cap Storage!Rows) /\ undone' = undone
           \/ \E files : cut' = cut \ files /\ undone' = undone \ files
    BY <1>3, Zenon DEF Storage!CommitBatch, Storage!WorkerDies
  <2>2. \A f \in FileIds : holder'[f] # Storage!Worker
    BY <2>1, Apart DEF Storage!Released
  <2> QED BY <1>1, <2>1, <2>2 DEF RestInv
<1>4. CASE Storage!ReconcileStorageObjects \/ Storage!ReconcileEnds
           \/ \E f \in FileIds : Storage!DeleteCandidate(f)
  <2>1. UNCHANGED <<old, cut, undone, holder>> /\ task.op \notin {"clean", "purge"}
    BY <1>4, Kinds DEF Storage!ReconcileStorageObjects, Storage!ReconcileEnds, Storage!DeleteCandidate
  <2> QED BY <2>1 DEF RestInv
<1>5. ASSUME NEW op \in {"clean", "purge"}, NEW files, Storage!Batch(op, files) PROVE RestInv'
  <2>1. UNCHANGED <<old, cut, undone>> /\ task' = [op |-> op, batch |-> files, gone |-> {}]
    BY <1>5, Zenon DEF Storage!Batch
  <2> QED BY <2>1 DEF RestInv
<1>6. CASE Storage!CleanupOrphanFiles \/ Storage!PurgeExpiredFiles
  BY <1>5, <1>6 DEF Storage!CleanupOrphanFiles, Storage!PurgeExpiredFiles
<1>7. ASSUME NEW f \in FileIds, Storage!DeleteBatchObject(f) PROVE RestInv'
  <2>1. /\ UNCHANGED <<old, cut, undone, holder>> /\ task.op \in {"clean", "purge"}
        /\ task' = [task EXCEPT !.gone = @ \cup {f}]
    BY <1>7, Zenon DEF Storage!DeleteBatchObject
  <2>2. task \in Batch
    BY <1>1, <2>1, Kinds
  <2>3. task'.op = task.op
    BY <2>1, <2>2 DEF Batch
  <2> QED BY <2>1, <2>3 DEF RestInv
<1> QED BY <1>2, <1>3, <1>4, <1>6, <1>7 DEF Storage!RunTask

\* While files are the part that moves, the worker's locks are those of its batch.
WorkerInv == part = "files" => RestInv

LEMMA NextWorkerInv == FilesInv /\ WorkerInv /\ [Next]_officeVars => WorkerInv'
<1> SUFFICES ASSUME FilesInv, WorkerInv, [Next]_officeVars, part' = "files" PROVE RestInv'
  BY DEF WorkerInv
<1>1. CASE FilesMove
  BY <1>1, RequestKeepsRest, TaskKeepsRest DEF FilesMove, FilesInv, WorkerInv, Storage!Next
<1>2. CASE ~FilesMove
  <2>1. part = "files" /\ UNCHANGED storing
    BY <1>2 DEF Next, TestsMove, OvertimeMoves, WindowMoves, WorkplaceMoves, KnowledgeMoves, officeVars
  <2> QED BY <2>1 DEF WorkerInv, RestInv, storing
<1> QED BY <1>1, <1>2

LEMMA InitWorkerInv == Init => WorkerInv
<1> SUFFICES ASSUME Storage!Init PROVE RestInv
  BY DEF Init, WorkerInv
<1> QED BY Apart DEF Storage!Init, RestInv

LEMMA FilesAreTyped == FilesInv /\ WorkerInv => (part = "files" => Storage!TypeOK)
<1> SUFFICES ASSUME IInv, RestInv PROVE Storage!TypeOK
  BY DEF FilesInv, WorkerInv
<1>1. row \in [FileIds -> Storage!Row \cup {None}] /\ object \subseteq FileIds
      /\ holder \in [FileIds -> Handlers \cup {Storage!Worker, None}]
  BY DEF IInv, TypeInv
<1>2. \A f \in Storage!Rows : row[f] \in Storage!Row
  BY <1>1 DEF Storage!Rows
<1>3. {object, old, cut, undone} \subseteq SUBSET FileIds
  BY <1>1 DEF RestInv
<1>4. ASSUME NEW f \in FileIds, holder[f] # None
      PROVE  IF holder[f] = Storage!Worker THEN task # Storage!Rest ELSE job[holder[f]].op = "bind"
  <2>1. CASE holder[f] = Storage!Worker
    BY <2>1, Kinds DEF RestInv
  <2>2. CASE holder[f] # Storage!Worker
    <3>1. LocksFit(holder[f])
      BY <1>1, <1>4, <2>2 DEF IInv, RequestInv, Fits
    <3> QED BY <2>2, <3>1 DEF LocksFit
  <2> QED BY <2>1, <2>2
<1> QED BY <1>2, <1>3, <1>4 DEF Storage!TypeOK, IInv, LinkInv

===============================================================================
