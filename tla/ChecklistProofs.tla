---------------------------- MODULE ChecklistProofs ----------------------------
(***************************************************************************)
(* Proofs about Checklist: the locks of items, photos and instances keep   *)
(* what a handler has computed true until it commits, for any number of    *)
(* handlers, instances, items and photos, any grace periods and any end.   *)
(***************************************************************************)
EXTENDS Checklist, FiniteSetTheorems, TLAPS

(***************************************************************************)
(* What a handler holds                                                    *)
(***************************************************************************)

FillOps == {"tick", "attach", "detach"}

Loaded ==
    [at : {"loaded"}, op : FillOps, item : Items, photo : Photos \cup {None}, value : BOOLEAN,
     done : BOOLEAN, status : InstanceStatus, incomplete : BOOLEAN]

FlushedCall ==
    [at : {"flushed"}, op : FillOps, item : Items, photo : Photos \cup {None}, value : BOOLEAN,
     done : BOOLEAN, status : InstanceStatus, incomplete : BOOLEAN, over : BOOLEAN]

Computed ==
    [at : {"computed"}, op : FillOps, item : Items, photo : Photos \cup {None},
     done : BOOLEAN, status : InstanceStatus, flag : SUBSET BOOLEAN]

CloseOps == {"finish", "autofinish", "finalize"}

Closing == [at : {"closing"}, op : CloseOps, copy : BOOLEAN]

Closed ==
    [at : {"closed"}, op : CloseOps, copy : BOOLEAN, marked : SUBSET RequiredInstances,
     incomplete : BOOLEAN]

Filling == Loaded \cup FlushedCall \cup Computed

Call == {Rest} \cup Filling \cup Closing \cup Closed

\* A file goes with a photo's request, and the schedule's end has come when the shift
\* is ended by it.
WellFormed(t) ==
    /\ t \in Call
    /\ t \in Filling => (t.op = "tick") = (t.photo = None)
    /\ t \in Closing \cup Closed /\ t.op = "autofinish" => ScheduledEnd \in 0 .. LastTick

TypeInv ==
    /\ TypeOK
    /\ txn \in [Handlers -> Call]
    /\ \A h \in Handlers : WellFormed(txn[h])

(***************************************************************************)
(* Locks: of the item by an attachment, of the photo by a flushed change,  *)
(* of the instance from the computation of its status to the commit.       *)
(***************************************************************************)

HoldsItem(t, x) == t.at \in {"loaded", "flushed", "computed"} /\ t.op = "attach" /\ t.item = x

HoldsPhoto(t, p) == t.at \in {"flushed", "computed"} /\ t.photo = p

HoldsInstance(t, i) ==
    \/ t.at = "computed" /\ InstanceOf[t.item] = i
    \/ t.at = "closed" /\ i \in t.marked

Apart(t, u) ==
    /\ \A x \in Items : ~(HoldsItem(t, x) /\ HoldsItem(u, x))
    /\ \A p \in Photos : ~(HoldsPhoto(t, p) /\ HoldsPhoto(u, p))
    /\ \A i \in Instances : ~(HoldsInstance(t, i) /\ HoldsInstance(u, i))

LockInv == \A g, h \in Handlers : g # h => Apart(txn[g], txn[h])

(***************************************************************************)
(* What a handler knows stays true while it holds its locks                *)
(***************************************************************************)

DoneWith(t) == [done EXCEPT ![t.item] = IF t.op = "tick" THEN t.done ELSE @]

\* A photo that is being attached fits its item and is attached nowhere.
RoomForPhoto(t) ==
    /\ t.at \in {"loaded", "flushed", "computed"} /\ t.op = "attach" =>
        PhotoPolicy[t.item] # "none" /\ Cardinality(photos[t.item]) < MaxPhotos
    /\ t.at \in {"flushed", "computed"} /\ t.op = "attach" => \A y \in Items : t.photo \notin photos[y]

\* A computed status leaves incomplete alone and, where it changes, is that of the
\* items as they will be.
StatusKnown(t) ==
    t.at = "computed" =>
        LET i == InstanceOf[t.item] IN
        /\ (t.status = "incomplete") = (status[i] = "incomplete")
        /\ t.status = "completed" /\ status[i] # "completed" => AllSatisfied(i, DoneWith(t), PhotosAfter(t))
        /\ t.status = "pending" /\ status[i] # "pending" => ~AllSatisfied(i, DoneWith(t), PhotosAfter(t))

KnownInv == \A h \in Handlers : RoomForPhoto(txn[h]) /\ StatusKnown(txn[h])

PhotoInv == PhotoLimit /\ \A x \in Items : IsFiniteSet(photos[x])

IInv == TypeInv /\ LockInv /\ KnownInv /\ PhotoInv

(***************************************************************************)
(* Lemmas about handlers                                                   *)
(***************************************************************************)

\* Where a handler stands says what it holds.
LEMMA CallKinds ==
    ASSUME NEW t \in Call
    PROVE  /\ t.at = "rest" => t = Rest
           /\ t.at = "loaded" => t \in Loaded
           /\ t.at = "flushed" => t \in FlushedCall
           /\ t.at = "computed" => t \in Computed
           /\ t.at = "closing" => t \in Closing
           /\ t.at = "closed" => t \in Closed
           /\ t.at \in {"rest", "loaded", "flushed", "computed", "closing", "closed"}
BY DEF Call, Filling, Loaded, FlushedCall, Computed, Closing, Closed, Rest

LEMMA ApartBothWays ==
    ASSUME NEW t, NEW u, Apart(t, u)
    PROVE  Apart(u, t)
BY DEF Apart

\* A handler without locks is apart from every other one.
LEMMA NothingHeld ==
    ASSUME NEW t, NEW u,
           \/ u.at \in {"rest", "closing"}
           \/ u.at = "loaded" /\ u.op # "attach"
    PROVE  Apart(t, u)
BY DEF Apart, HoldsItem, HoldsPhoto, HoldsInstance

\* A step of one handler that leaves the tables alone keeps the invariant, if what the
\* handler holds afterwards fits the tables and the other handlers.
LEMMA HandlerStep ==
    ASSUME IInv, NEW h \in Handlers, NEW c,
           UNCHANGED <<now, grace, tables>>,
           txn' = [txn EXCEPT ![h] = c],
           WellFormed(c), RoomForPhoto(c), StatusKnown(c),
           \A g \in Handlers \ {h} : Apart(txn[g], c)
    PROVE  IInv'
<1> USE DEF IInv
<1>1. \A g \in Handlers : txn'[g] = IF g = h THEN c ELSE txn[g]
  BY DEF TypeInv
<1>2. TypeInv'
  <2>1. TypeOK'
    BY DEF TypeInv, TypeOK, tables
  <2>2. txn' \in [Handlers -> Call]
    BY DEF TypeInv, WellFormed
  <2>3. \A g \in Handlers : WellFormed(txn'[g])
    BY <1>1 DEF TypeInv
  <2> QED BY <2>1, <2>2, <2>3 DEF TypeInv
<1>3. LockInv'
  <2> SUFFICES ASSUME NEW f \in Handlers, NEW g \in Handlers, f # g
               PROVE  Apart(txn'[f], txn'[g])
    BY DEF LockInv, Apart, HoldsItem, HoldsPhoto, HoldsInstance
  <2> QED BY <1>1, ApartBothWays DEF LockInv
<1>4. KnownInv'
  <2> SUFFICES ASSUME NEW g \in Handlers
               PROVE  (RoomForPhoto(txn[g]) /\ StatusKnown(txn[g]))'
    BY DEF KnownInv
  <2>1. RoomForPhoto(txn'[g]) /\ StatusKnown(txn'[g])
    BY <1>1 DEF KnownInv
  <2>2. UNCHANGED <<photos, status, done>>
    BY DEF tables
  <2> QED
    BY <2>1, <2>2 DEF RoomForPhoto, StatusKnown, AllSatisfied, Satisfied, DoneWith, PhotosAfter
<1>5. PhotoInv'
  BY DEF PhotoInv, PhotoLimit, tables
<1> QED BY <1>2, <1>3, <1>4, <1>5

(***************************************************************************)
(* The invariant holds at the start and in every step                      *)
(***************************************************************************)

LEMMA InitIInv == Init => IInv
<1> SUFFICES ASSUME Init PROVE IInv
  OBVIOUS
<1>1. \A h \in Handlers : txn[h] = Rest
  BY DEF Init
<1>2. TypeInv
  <2>1. TypeOK
    BY ItemsAssumption, TimeAssumption DEF Init, TypeOK, ShiftRow, InstanceStatus
  <2>2. Rest \in Call /\ Rest \notin Filling \cup Closing \cup Closed
    BY DEF Rest, Call, Filling, Loaded, FlushedCall, Computed, Closing, Closed
  <2> QED BY <1>1, <2>1, <2>2 DEF TypeInv, WellFormed, Init
<1>3. LockInv
  BY <1>1 DEF LockInv, Apart, HoldsItem, HoldsPhoto, HoldsInstance, Rest
<1>4. KnownInv
  BY <1>1 DEF KnownInv, RoomForPhoto, StatusKnown, Rest
<1>5. PhotoInv
  BY FS_EmptySet, TimeAssumption DEF Init, PhotoInv, PhotoLimit
<1> QED BY <1>2, <1>3, <1>4, <1>5 DEF IInv

LEMMA DiesKeeps ==
    ASSUME IInv, NEW h \in Handlers, Dies(h)
    PROVE  IInv'
<1>1. WellFormed(Rest)
  BY DEF WellFormed, Rest, Call, Filling, Loaded, FlushedCall, Computed, Closing, Closed
<1>2. RoomForPhoto(Rest) /\ StatusKnown(Rest)
  BY DEF RoomForPhoto, StatusKnown, Rest
<1>3. \A g \in Handlers \ {h} : Apart(txn[g], Rest)
  BY NothingHeld DEF Rest
<1> QED BY <1>1, <1>2, <1>3, HandlerStep DEF Dies

\* An attachment finds room under the lock of its item; the other requests take no lock.
LEMMA LoadsKeeps ==
    ASSUME IInv, NEW h \in Handlers, NEW op \in FillOps, NEW x \in Items,
           NEW photo \in Photos \cup {None}, NEW value \in BOOLEAN,
           (op = "tick") = (photo = None),
           op = "attach" =>
               /\ PhotoPolicy[x] # "none" /\ Cardinality(photos[x]) < MaxPhotos
               /\ ~ItemLocked(h, x),
           Loads(h, op, x, photo, value)
    PROVE  IInv'
<1> DEFINE c == [at |-> "loaded", op |-> op, item |-> x, photo |-> photo, value |-> value,
                 done |-> IF op = "tick" THEN done[x] ELSE FALSE,
                 status |-> status[InstanceOf[x]], incomplete |-> shift.incomplete]
<1>1. c \in Loaded
  BY ItemsAssumption DEF IInv, TypeInv, TypeOK, ShiftRow, Loaded
<1>2. WellFormed(c)
  BY <1>1 DEF WellFormed, Call, Filling, Closing, Closed
<1>3. RoomForPhoto(c) /\ StatusKnown(c)
  BY DEF RoomForPhoto, StatusKnown
<1>4. ASSUME NEW g \in Handlers \ {h} PROVE Apart(txn[g], c)
  <2>1. CASE op # "attach"
    BY <2>1, NothingHeld
  <2>2. CASE op = "attach"
    BY <2>2 DEF ItemLocked, Fills, Apart, HoldsItem, HoldsPhoto, HoldsInstance
  <2> QED BY <2>1, <2>2
<1>5. UNCHANGED <<now, grace, tables>> /\ txn' = [txn EXCEPT ![h] = c]
  BY DEF Loads
<1> HIDE DEF c
<1> QED BY <1>2, <1>3, <1>4, <1>5, HandlerStep

\* The flush looks again whether the photo is attached anywhere and locks it.
LEMMA FlushKeeps ==
    ASSUME IInv, NEW h \in Handlers, FlushChange(h)
    PROVE  IInv'
<1> DEFINE t == txn[h]
<1>1. PICK copy \in InstanceStatus :
        txn' = [txn EXCEPT ![h] =
                [at |-> "flushed", op |-> t.op, item |-> t.item, photo |-> t.photo,
                 value |-> t.value, done |-> t.done, status |-> copy,
                 incomplete |-> t.incomplete, over |-> shift.status = "finished"]]
  <2>1. t \in Loaded
    BY CallKinds DEF IInv, TypeInv, FlushChange
  <2>2. {t.status, status[InstanceOf[t.item]]} \subseteq InstanceStatus
    BY <2>1, ItemsAssumption DEF Loaded, IInv, TypeInv, TypeOK
  <2> QED BY <2>2 DEF FlushChange
<1> DEFINE c == [at |-> "flushed", op |-> t.op, item |-> t.item, photo |-> t.photo,
                 value |-> t.value, done |-> t.done, status |-> copy,
                 incomplete |-> t.incomplete, over |-> shift.status = "finished"]
<1>2. t \in Loaded /\ t \in Filling /\ WellFormed(t) /\ RoomForPhoto(t)
  BY CallKinds DEF IInv, TypeInv, FlushChange, KnownInv, Filling
<1>3. c \in FlushedCall
  BY <1>2 DEF Loaded, FlushedCall
<1>4. WellFormed(c)
  BY <1>2, <1>3 DEF WellFormed, Call, Filling, Closing, Closed
<1>5. RoomForPhoto(c) /\ StatusKnown(c)
  BY <1>2 DEF RoomForPhoto, StatusKnown, FlushChange, Loaded
<1>6. ASSUME NEW g \in Handlers \ {h} PROVE Apart(txn[g], c)
  <2>1. \A x \in Items : ~(HoldsItem(txn[g], x) /\ HoldsItem(c, x))
    <3>1. Apart(txn[g], t)
      BY DEF IInv, LockInv
    <3>2. \A x \in Items : HoldsItem(c, x) => HoldsItem(t, x)
      BY <1>2 DEF HoldsItem, Loaded
    <3> QED BY <3>1, <3>2 DEF Apart
  <2>2. \A p \in Photos : ~(HoldsPhoto(txn[g], p) /\ HoldsPhoto(c, p))
    BY NoneAssumption DEF FlushChange, PhotoLocked, HoldsPhoto
  <2>3. \A i \in Instances : ~HoldsInstance(c, i)
    BY DEF HoldsInstance
  <2> QED BY <2>1, <2>2, <2>3 DEF Apart
<1>7. UNCHANGED <<now, grace, tables>> /\ txn' = [txn EXCEPT ![h] = c]
  BY <1>1 DEF FlushChange
<1> HIDE DEF c
<1> QED BY <1>4, <1>5, <1>6, <1>7, HandlerStep

\* What is computed under the lock of the instance is true of the tables.
LEMMA RecomputeKeeps ==
    ASSUME IInv, NEW h \in Handlers, RecomputeInstanceStatus(h)
    PROVE  IInv'
<1> DEFINE t == txn[h]
           i == InstanceOf[t.item]
           c == [at |-> "computed", op |-> t.op, item |-> t.item, photo |-> t.photo,
                 done |-> DoneAfter(t)[t.item], status |-> StatusAfter(t)[i],
                 flag |-> FlagAfter(t)]
           new == IF AllSatisfied(i, DoneAfter(t), PhotosAfter(t)) THEN "completed" ELSE "pending"
<1>1. t \in FlushedCall /\ t \in Filling /\ WellFormed(t) /\ RoomForPhoto(t)
  BY CallKinds DEF IInv, TypeInv, RecomputeInstanceStatus, KnownInv, Filling
<1>2. /\ t.item \in Items /\ i \in Instances /\ t.op \in FillOps
      /\ t.value \in BOOLEAN /\ t.done \in BOOLEAN
  BY <1>1, ItemsAssumption DEF FlushedCall
<1>3. StatusAfter(t)[i] = IF status[i] = "incomplete" THEN "incomplete" ELSE Written(status[i], t.status, new)
  BY <1>2 DEF StatusAfter, IInv, TypeInv, TypeOK
<1>4. StatusAfter(t)[i] \in InstanceStatus
  BY <1>2, <1>3 DEF Written, IInv, TypeInv, TypeOK, InstanceStatus
<1>5. DoneAfter(t) \in [Items -> BOOLEAN]
  BY <1>2 DEF DoneAfter, Written, IInv, TypeInv, TypeOK
<1>6. c \in Computed
  <2>1. FlagAfter(t) \subseteq BOOLEAN
    BY DEF FlagAfter, LiveIncomplete
  <2> QED BY <1>1, <1>2, <1>4, <1>5, <2>1 DEF Computed, FlushedCall
<1>7. WellFormed(c)
  BY <1>1, <1>6 DEF WellFormed, Call, Filling, Closing, Closed
<1>8. RoomForPhoto(c)
  BY <1>1 DEF RoomForPhoto, FlushedCall
<1>9. StatusKnown(c)
  <2>1. PhotosAfter(c) = PhotosAfter(t)
    BY Zenon DEF PhotosAfter
  <2>2. DoneWith(c) = DoneAfter(t)
    BY <1>2 DEF DoneWith, DoneAfter, Written, IInv, TypeInv, TypeOK
  <2>3. c.status = StatusAfter(t)[i] /\ InstanceOf[c.item] = i
    OBVIOUS
  <2>4. new \in {"completed", "pending"}
    OBVIOUS
  <2>5. (c.status = "incomplete") = (status[i] = "incomplete")
    BY <1>3, <2>3, <2>4 DEF Written
  <2>6. c.status # status[i] => c.status = new
    BY <1>3, <2>3 DEF Written
  <2> HIDE DEF c
  <2> QED BY <2>1, <2>2, <2>3, <2>5, <2>6 DEF StatusKnown
<1>10. ASSUME NEW g \in Handlers \ {h} PROVE Apart(txn[g], c)
  <2>1. Apart(txn[g], t)
    BY DEF IInv, LockInv
  <2>2. /\ \A x \in Items : HoldsItem(c, x) => HoldsItem(t, x)
        /\ \A p \in Photos : HoldsPhoto(c, p) => HoldsPhoto(t, p)
    BY <1>1 DEF HoldsItem, HoldsPhoto, FlushedCall
  <2>3. \A j \in Instances : ~(HoldsInstance(txn[g], j) /\ HoldsInstance(c, j))
    BY DEF RecomputeInstanceStatus, InstanceLocked, HoldsInstance
  <2> QED BY <2>1, <2>2, <2>3 DEF Apart
<1>11. UNCHANGED <<now, grace, tables>> /\ txn' = [txn EXCEPT ![h] = c]
  BY DEF RecomputeInstanceStatus
<1> HIDE DEF c
<1> QED BY <1>7, <1>8, <1>9, <1>10, <1>11, HandlerStep

\* Who is going to close the shift holds no lock yet.
LEMMA LoadsToCloseKeeps ==
    ASSUME IInv, NEW h \in Handlers, NEW op \in CloseOps,
           op = "autofinish" => ScheduledEnd \in 0 .. LastTick,
           LoadsToClose(h, op)
    PROVE  IInv'
<1> DEFINE c == [at |-> "closing", op |-> op, copy |-> shift.incomplete]
<1>1. c \in Closing
  BY DEF IInv, TypeInv, TypeOK, ShiftRow, Closing
<1>2. WellFormed(c)
  BY <1>1 DEF WellFormed, Call, Filling, Loaded, FlushedCall, Computed, Closing, Closed
<1>3. RoomForPhoto(c) /\ StatusKnown(c)
  BY DEF RoomForPhoto, StatusKnown
<1>4. \A g \in Handlers \ {h} : Apart(txn[g], c)
  BY NothingHeld
<1>5. UNCHANGED <<now, grace, tables>> /\ txn' = [txn EXCEPT ![h] = c]
  BY DEF LoadsToClose
<1> HIDE DEF c
<1> QED BY <1>2, <1>3, <1>4, <1>5, HandlerStep

\* The instances that are marked incomplete are those that nobody had locked.
LEMMA CloseKeeps ==
    ASSUME IInv, NEW h \in Handlers, CloseShiftChecklists(h)
    PROVE  IInv'
<1> DEFINE t == txn[h]
           final == t.op = "finalize" \/ grace = 0
           c == [at |-> "closed", op |-> t.op, copy |-> t.copy,
                 marked |-> IF final THEN Pending ELSE {}, incomplete |-> LiveIncomplete(status)]
<1>1. t \in Closing /\ WellFormed(t)
  BY CallKinds DEF IInv, TypeInv, CloseShiftChecklists
<1>2. c \in Closed
  BY <1>1 DEF Closing, Closed, Pending, LiveIncomplete
<1>3. WellFormed(c)
  BY <1>1, <1>2 DEF WellFormed, Call, Filling, Loaded, FlushedCall, Computed, Closed
<1>4. RoomForPhoto(c) /\ StatusKnown(c)
  BY DEF RoomForPhoto, StatusKnown
<1>5. ASSUME NEW g \in Handlers \ {h} PROVE Apart(txn[g], c)
  BY DEF CloseShiftChecklists, InstanceLocked, Apart, HoldsItem, HoldsPhoto, HoldsInstance
<1>6. UNCHANGED <<now, grace, tables>> /\ txn' = [txn EXCEPT ![h] = c]
  BY DEF CloseShiftChecklists
<1> HIDE DEF c
<1> QED BY <1>3, <1>4, <1>5, <1>6, HandlerStep

\* The status of an instance depends on its own items only.
LEMMA OwnItemsDecide ==
    ASSUME NEW i, NEW d, NEW e, NEW p, NEW q,
           \A x \in ItemsOf(i) : d[x] = e[x] /\ p[x] = q[x]
    PROVE  AllSatisfied(i, d, p) = AllSatisfied(i, e, q)
BY DEF AllSatisfied, Satisfied

\* What the other handlers hold after a handler has committed.
LEMMA AfterCommit ==
    ASSUME IInv, NEW h \in Handlers,
           TypeOK', txn' = [txn EXCEPT ![h] = Rest], PhotoInv',
           \A g \in Handlers \ {h} : (RoomForPhoto(txn[g]) /\ StatusKnown(txn[g]))'
    PROVE  IInv'
<1>1. \A g \in Handlers : txn'[g] = IF g = h THEN Rest ELSE txn[g]
  BY DEF IInv, TypeInv
<1>2. TypeInv'
  <2>1. WellFormed(Rest)
    BY DEF WellFormed, Rest, Call, Filling, Loaded, FlushedCall, Computed, Closing, Closed
  <2>2. txn' \in [Handlers -> Call]
    BY <2>1 DEF IInv, TypeInv, WellFormed
  <2>3. \A g \in Handlers : WellFormed(txn'[g])
    BY <1>1, <2>1 DEF IInv, TypeInv
  <2> QED BY <2>2, <2>3 DEF TypeInv
<1>3. LockInv'
  <2> SUFFICES ASSUME NEW f \in Handlers, NEW g \in Handlers, f # g
               PROVE  Apart(txn'[f], txn'[g])
    BY DEF LockInv, Apart, HoldsItem, HoldsPhoto, HoldsInstance
  <2>1. Apart(txn[f], txn[g])
    BY DEF IInv, LockInv
  <2>2. Apart(txn[f], Rest) /\ Apart(Rest, txn[g])
    BY NothingHeld, ApartBothWays DEF Rest
  <2>3. txn'[f] \in {Rest, txn[f]} /\ txn'[g] \in {Rest, txn[g]}
    BY <1>1
  <2>4. Apart(Rest, Rest)
    BY NothingHeld DEF Rest
  <2> QED BY <2>1, <2>2, <2>3, <2>4
<1>4. KnownInv'
  <2> SUFFICES ASSUME NEW g \in Handlers
               PROVE  (RoomForPhoto(txn[g]) /\ StatusKnown(txn[g]))'
    BY DEF KnownInv
  <2>1. CASE g = h
    BY <1>1, <2>1 DEF RoomForPhoto, StatusKnown, Rest
  <2>2. CASE g # h
    BY <2>2
  <2> QED BY <2>1, <2>2
<1> QED BY <1>2, <1>3, <1>4 DEF IInv

\* The commit of a change: a photo comes to an item with room, the status to an instance
\* that nobody else has locked.
LEMMA CommitChangeKeeps ==
    ASSUME IInv, NEW h \in Handlers, CommitChange(h)
    PROVE  IInv'
<1> DEFINE t == txn[h]
           i == InstanceOf[t.item]
<1>1. /\ t \in Computed /\ t \in Filling /\ WellFormed(t) /\ RoomForPhoto(t) /\ StatusKnown(t)
      /\ TypeOK /\ PhotoInv
  BY CallKinds DEF IInv, TypeInv, CommitChange, KnownInv, Filling
<1>2. /\ t.item \in Items /\ i \in Instances /\ t.op \in FillOps /\ t.done \in BOOLEAN
      /\ t.at = "computed" /\ t.status \in InstanceStatus /\ t.flag \in SUBSET BOOLEAN
      /\ t.op # "tick" => t.photo \in Photos
  BY <1>1, ItemsAssumption DEF Computed, WellFormed
<1>3. /\ done' = [done EXCEPT ![t.item] = IF t.op = "tick" THEN t.done ELSE @]
      /\ photos' = PhotosAfter(t)
      /\ status' = [status EXCEPT ![i] = t.status]
      /\ txn' = [txn EXCEPT ![h] = Rest]
      /\ UNCHANGED <<now, grace>>
  BY DEF CommitChange
<1>9. \E flag \in BOOLEAN : shift' = [shift EXCEPT !.incomplete = flag]
  <2>1. CASE t.flag = {}
    <3>1. shift' = [shift EXCEPT !.incomplete = shift.incomplete]
      BY <2>1, Zenon DEF CommitChange
    <3> QED BY <1>1, <3>1 DEF TypeOK, ShiftRow
  <2>2. CASE t.flag # {}
    <3>1. shift' = [shift EXCEPT !.incomplete = (TRUE \in t.flag)]
      BY <2>2, Zenon DEF CommitChange
    <3>2. (TRUE \in t.flag) \in BOOLEAN
      OBVIOUS
    <3> QED BY <3>1, <3>2, Zenon
  <2> QED BY <2>1, <2>2
<1> HIDE DEF t
<1>4. \A x \in Items : photos'[x] =
        IF x # t.item \/ t.op = "tick" THEN photos[x]
        ELSE IF t.op = "attach" THEN photos[x] \cup {t.photo} ELSE photos[x] \ {t.photo}
  BY <1>1, <1>2, <1>3, Zenon DEF PhotosAfter, TypeOK, FillOps
<1>10. \A x \in Items : \A p \in photos'[x] :
        p \in photos[x] \/ (x = t.item /\ t.op = "attach" /\ p = t.photo)
  <2> SUFFICES ASSUME NEW x \in Items, NEW p \in photos'[x]
               PROVE  p \in photos[x] \/ (x = t.item /\ t.op = "attach" /\ p = t.photo)
    OBVIOUS
  <2>1. CASE x # t.item \/ t.op = "tick"
    BY <1>4, <2>1
  <2>2. CASE x = t.item /\ t.op = "attach"
    BY <1>4, <2>2
  <2>3. CASE x = t.item /\ t.op = "detach"
    BY <1>4, <2>3
  <2> QED BY <1>2, <2>1, <2>2, <2>3 DEF FillOps
<1>5. photos' \in [Items -> SUBSET Photos]
  BY <1>1, <1>2, <1>3 DEF PhotosAfter, TypeOK, FillOps
<1>6. TypeOK'
  <2>1. shift' \in ShiftRow /\ (shift'.status = "finished" => shift'.finished # None)
    BY <1>1, <1>9 DEF TypeOK, ShiftRow
  <2>2. status' \in [Instances -> InstanceStatus]
    BY <1>1, <1>2, <1>3 DEF TypeOK
  <2>3. \A j \in Instances \ RequiredInstances : status'[j] # "incomplete"
    BY <1>1, <1>2, <1>3 DEF TypeOK, StatusKnown
  <2>4. done' \in [Items -> BOOLEAN]
    BY <1>1, <1>2, <1>3 DEF TypeOK
  <2> QED BY <1>1, <1>3, <1>5, <2>1, <2>2, <2>3, <2>4 DEF TypeOK
<1>7. PhotoInv'
  <2>1. ASSUME NEW x \in Items
        PROVE  /\ IsFiniteSet(photos'[x])
               /\ Cardinality(photos'[x]) <= IF PhotoPolicy[x] = "none" THEN 0 ELSE MaxPhotos
    <3>1. IsFiniteSet(photos[x]) /\ Cardinality(photos[x]) \in Nat
          /\ Cardinality(photos[x]) <= IF PhotoPolicy[x] = "none" THEN 0 ELSE MaxPhotos
      BY <1>1, FS_CardinalityType DEF PhotoInv, PhotoLimit
    <3>2. CASE photos'[x] = photos[x]
      BY <3>1, <3>2
    <3>3. CASE x = t.item /\ t.op = "attach"
      <4>1. PhotoPolicy[x] # "none" /\ Cardinality(photos[x]) < MaxPhotos /\ t.photo \notin photos[x]
        BY <1>1, <1>2, <3>3 DEF RoomForPhoto
      <4>2. photos'[x] = photos[x] \cup {t.photo}
        BY <1>4, <3>3
      <4>3. /\ IsFiniteSet(photos'[x])
            /\ Cardinality(photos'[x]) = Cardinality(photos[x]) + 1
        BY <3>1, <4>1, <4>2, FS_AddElement, SMTT(20)
      <4> QED BY <3>1, <4>1, <4>3, TimeAssumption
    <3>4. CASE x = t.item /\ t.op = "detach"
      <4>1. photos'[x] \subseteq photos[x]
        BY <1>4, <3>4
      <4>2. IsFiniteSet(photos'[x]) /\ Cardinality(photos'[x]) <= Cardinality(photos[x])
            /\ Cardinality(photos'[x]) \in Nat
        BY <3>1, <4>1, FS_Subset, FS_CardinalityType
      <4> QED BY <3>1, <4>2, TimeAssumption
    <3> QED BY <1>2, <1>4, <3>2, <3>3, <3>4 DEF FillOps
  <2>2. ASSUME NEW x \in Items, NEW y \in Items, x # y
        PROVE  photos'[x] \cap photos'[y] = {}
    <3>1. photos[x] \cap photos[y] = {}
      BY <1>1, <2>2 DEF PhotoInv, PhotoLimit
    <3>2. t.op = "attach" => t.photo \notin photos[x] /\ t.photo \notin photos[y]
      BY <1>1, <1>2 DEF RoomForPhoto
    <3> QED BY <1>10, <2>2, <3>1, <3>2
  <2> QED BY <2>1, <2>2 DEF PhotoInv, PhotoLimit
<1>8. ASSUME NEW g \in Handlers \ {h}
      PROVE  (RoomForPhoto(txn[g]) /\ StatusKnown(txn[g]))'
  <2> DEFINE u == txn[g]
             j == InstanceOf[u.item]
  <2>1. txn'[g] = u /\ WellFormed(u) /\ RoomForPhoto(u) /\ StatusKnown(u) /\ Apart(u, t)
    BY <1>3 DEF IInv, TypeInv, KnownInv, LockInv, t
  <2>2. u.at \in {"loaded", "flushed", "computed"} =>
          /\ u \in Filling /\ u.item \in Items /\ j \in Instances /\ u.op \in FillOps
          /\ u.op # "tick" => u.photo \in Photos
    BY <2>1, CallKinds, ItemsAssumption DEF WellFormed, Filling, Loaded, FlushedCall, Computed
  <2> HIDE DEF u
  <2>3. RoomForPhoto(u)'
    <3>1. ASSUME u.at \in {"loaded", "flushed", "computed"}, u.op = "attach"
          PROVE  PhotoPolicy[u.item] # "none" /\ Cardinality(photos'[u.item]) < MaxPhotos
      <4>1. photos'[u.item] \subseteq photos[u.item]
        BY <1>2, <1>4, <2>1, <2>2, <3>1 DEF Apart, HoldsItem
      <4>2. /\ Cardinality(photos'[u.item]) <= Cardinality(photos[u.item])
            /\ Cardinality(photos'[u.item]) \in Nat /\ Cardinality(photos[u.item]) \in Nat
        BY <1>1, <2>2, <3>1, <4>1, FS_Subset, FS_CardinalityType DEF PhotoInv
      <4>3. PhotoPolicy[u.item] # "none" /\ Cardinality(photos[u.item]) < MaxPhotos
        BY <2>1, <3>1 DEF RoomForPhoto
      <4> QED BY <4>2, <4>3, TimeAssumption
    <3>2. ASSUME u.at \in {"flushed", "computed"}, u.op = "attach", NEW y \in Items
          PROVE  u.photo \notin photos'[y]
      <4>1. u.photo \notin photos[y]
        BY <2>1, <3>2 DEF RoomForPhoto
      <4>2. u.photo # t.photo
        BY <1>2, <2>1, <2>2, <3>2 DEF Apart, HoldsPhoto
      <4> QED BY <1>10, <4>1, <4>2
    <3>3. u' = u
      BY <2>1 DEF u
    <3> QED BY <3>1, <3>2, <3>3 DEF RoomForPhoto
  <2>4. StatusKnown(u)'
    <3>1. CASE u.at # "computed"
      BY <2>1, <3>1 DEF StatusKnown, u
    <3>2. CASE u.at = "computed"
      <4>1. j # i
        BY <1>2, <2>1, <2>2, <3>2 DEF Apart, HoldsInstance
      <4>2. u.item \in Items /\ u.item # t.item /\ u.op \in FillOps
        BY <2>2, <3>2, <4>1
      <4>3. status'[j] = status[j]
        BY <1>1, <1>2, <1>3, <2>2, <3>2, <4>1 DEF TypeOK
      <4>4. u' = u
        BY <2>1 DEF u
      <4>5. \A x \in ItemsOf(j) : x \in Items /\ x # t.item
        BY <4>1 DEF ItemsOf
      <4>6. \A x \in ItemsOf(j) : DoneWith(u)'[x] = DoneWith(u)[x]
        BY <1>1, <1>3, <1>6, <4>2, <4>4, <4>5 DEF DoneWith, TypeOK
      <4>7. \A x \in ItemsOf(j) : PhotosAfter(u)'[x] = PhotosAfter(u)[x]
        <5>1. \A x \in ItemsOf(j) : photos'[x] = photos[x]
          BY <1>4, <4>5
        <5> QED BY <1>1, <1>5, <4>2, <4>4, <4>5, <5>1 DEF PhotosAfter, TypeOK, FillOps
      <4>8. AllSatisfied(j, DoneWith(u)', PhotosAfter(u)') = AllSatisfied(j, DoneWith(u), PhotosAfter(u))
        BY <4>6, <4>7 DEF AllSatisfied, Satisfied, ItemsOf
      <4> QED BY <2>1, <4>3, <4>4, <4>8 DEF StatusKnown
    <3> QED BY <3>1, <3>2
  <2> QED BY <2>1, <2>3, <2>4 DEF u
<1> QED BY <1>3, <1>6, <1>7, <1>8, AfterCommit

\* The commit of what closes the shift marks instances that nobody else has locked.
LEMMA CommitClosingKeeps ==
    ASSUME IInv, NEW h \in Handlers, CommitClosing(h)
    PROVE  IInv'
<1> DEFINE t == txn[h]
<1>1. t \in Closed /\ WellFormed(t) /\ TypeOK /\ PhotoInv
  BY CallKinds DEF IInv, TypeInv, CommitClosing
<1>2. /\ status' = [i \in Instances |-> IF i \in t.marked THEN "incomplete" ELSE status[i]]
      /\ txn' = [txn EXCEPT ![h] = Rest]
      /\ UNCHANGED <<now, grace, done, photos>>
  BY DEF CommitClosing
<1>3. shift' \in ShiftRow /\ (shift'.status = "finished" => shift'.finished # None)
  <2>1. Written(shift.incomplete, t.copy, t.incomplete) \in BOOLEAN
    BY <1>1 DEF Written, TypeOK, ShiftRow, Closed
  <2>2. CASE t.op = "finalize"
    <3>1. shift' = [shift EXCEPT !.incomplete = Written(shift.incomplete, t.copy, t.incomplete)]
      BY <2>2, Zenon DEF CommitClosing
    <3> QED BY <1>1, <2>1, <3>1 DEF TypeOK, ShiftRow
  <2>3. CASE t.op # "finalize"
    <3>1. \E end \in 0 .. LastTick :
            shift' = [shift EXCEPT !.status = "finished",
                                   !.incomplete = Written(shift.incomplete, t.copy, t.incomplete),
                                   !.finished = end]
      <4>1. CASE t.op = "finish"
        BY <1>1, <4>1 DEF CommitClosing, TypeOK
      <4>2. CASE t.op = "autofinish"
        BY <1>1, <4>2 DEF CommitClosing, WellFormed
      <4> QED BY <1>1, <2>3, <4>1, <4>2 DEF Closed, CloseOps
    <3>2. None \notin 0 .. LastTick
      BY NoneAssumption
    <3> QED BY <1>1, <2>1, <3>1, <3>2 DEF TypeOK, ShiftRow
  <2> QED BY <2>2, <2>3
<1>4. TypeOK'
  BY <1>1, <1>2, <1>3, ItemsAssumption DEF TypeOK, Closed, InstanceStatus
<1>5. PhotoInv'
  BY <1>1, <1>2 DEF PhotoInv, PhotoLimit
<1>6. ASSUME NEW g \in Handlers \ {h}
      PROVE  (RoomForPhoto(txn[g]) /\ StatusKnown(txn[g]))'
  <2> DEFINE u == txn[g]
             j == InstanceOf[u.item]
  <2>1. txn'[g] = u /\ WellFormed(u) /\ RoomForPhoto(u) /\ StatusKnown(u) /\ Apart(u, t)
    BY <1>2 DEF IInv, TypeInv, KnownInv, LockInv
  <2>2. RoomForPhoto(u)'
    BY <1>2, <2>1 DEF RoomForPhoto
  <2>3. StatusKnown(u)'
    <3>1. CASE u.at # "computed"
      BY <2>1, <3>1 DEF StatusKnown
    <3>2. CASE u.at = "computed"
      <4>1. j \in Instances
        BY <2>1, <3>2, CallKinds, ItemsAssumption DEF WellFormed, Computed
      <4>2. j \notin t.marked
        BY <2>1, <3>2, <4>1 DEF Apart, HoldsInstance, CommitClosing
      <4>3. status'[j] = status[j]
        BY <1>2, <4>1, <4>2
      <4>4. DoneWith(txn[g])' = DoneWith(u) /\ PhotosAfter(txn[g])' = PhotosAfter(u)
        BY <1>2, <2>1 DEF DoneWith, PhotosAfter
      <4>5. AllSatisfied(j, DoneWith(u), PhotosAfter(u))' <=> AllSatisfied(j, DoneWith(u), PhotosAfter(u))
        BY <2>1, <4>4, Zenon DEF AllSatisfied, Satisfied
      <4> QED BY <2>1, <4>3, <4>5, Zenon DEF StatusKnown
    <3> QED BY <3>1, <3>2
  <2> QED BY <2>2, <2>3
<1> QED BY <1>2, <1>4, <1>5, <1>6, AfterCommit

\* The administrator and the clock touch nothing that a handler relies on.
LEMMA AloofKeeps ==
    ASSUME IInv, TypeOK', UNCHANGED <<status, done, photos, txn>>
    PROVE  IInv'
<1>1. TypeInv' /\ LockInv' /\ PhotoInv'
  BY DEF IInv, TypeInv, WellFormed, LockInv, Apart, HoldsItem, HoldsPhoto, HoldsInstance,
         PhotoInv, PhotoLimit
<1>2. KnownInv'
  BY DEF IInv, KnownInv, RoomForPhoto, StatusKnown, AllSatisfied, Satisfied, DoneWith, PhotosAfter
<1> QED BY <1>1, <1>2 DEF IInv

LEMMA AdministerKeeps ==
    ASSUME IInv, Administer \/ Tick
    PROVE  IInv'
<1>1. TypeOK
  BY DEF IInv, TypeInv
<1>2. None \notin 0 .. LastTick
  BY NoneAssumption
<1>3. ASSUME NEW t \in 0 .. LastTick, UpdateManualShift(t) PROVE IInv'
  BY <1>1, <1>2, <1>3, AloofKeeps DEF UpdateManualShift, TypeOK, ShiftRow
<1>4. CASE DeleteShift
  <2>1. \E end \in 0 .. LastTick :
          shift' = [shift EXCEPT !.status = "finished", !.deleted = TRUE, !.finished = end]
    BY <1>1, <1>4 DEF DeleteShift, TypeOK, ShiftRow
  <2>2. TypeOK'
    BY <1>1, <1>2, <1>4, <2>1 DEF DeleteShift, TypeOK, ShiftRow
  <2> QED BY <1>4, <2>2, AloofKeeps DEF DeleteShift
<1>5. CASE RestoreShift
  BY <1>1, <1>5, AloofKeeps DEF RestoreShift, TypeOK, ShiftRow
<1>6. ASSUME NEW minutes \in Graces, UpdateGrace(minutes) PROVE IInv'
  BY <1>1, <1>6, AloofKeeps DEF UpdateGrace, tables, TypeOK
<1>7. CASE Tick
  BY <1>1, <1>7, TimeAssumption, AloofKeeps DEF Tick, tables, TypeOK
<1> QED BY <1>3, <1>4, <1>5, <1>6, <1>7 DEF Administer

\* One step of the handler of a request, and of what closes the shift.
LEMMA FillItemKeeps ==
    ASSUME IInv, NEW h \in Handlers, FillItem(h)
    PROVE  IInv'
<1>1. ASSUME NEW x \in Items, NEW value \in BOOLEAN, LoadForUpdateItem(h, x, value) PROVE IInv'
  BY <1>1, LoadsKeeps DEF LoadForUpdateItem, FillOps
<1>2. ASSUME NEW x \in Items, NEW p \in Photos, LoadForAttachPhoto(h, x, p) PROVE IInv'
  BY <1>2, LoadsKeeps, NoneAssumption DEF LoadForAttachPhoto, FillOps
<1>3. ASSUME NEW x \in Items, NEW p \in Photos, LoadForDetachPhoto(h, x, p) PROVE IInv'
  BY <1>3, LoadsKeeps, NoneAssumption DEF LoadForDetachPhoto, FillOps
<1> QED BY <1>1, <1>2, <1>3, FlushKeeps, RecomputeKeeps, CommitChangeKeeps DEF FillItem

LEMMA CloseStepKeeps ==
    ASSUME IInv, NEW h \in Handlers, Close(h)
    PROVE  IInv'
<1>1. CASE LoadForFinishShift(h)
  BY <1>1, LoadsToCloseKeeps DEF LoadForFinishShift, CloseOps
<1>2. CASE LoadForAutoFinish(h)
  <2>1. ScheduledEnd \in 0 .. LastTick
    BY <1>2, TimeAssumption DEF LoadForAutoFinish, IInv, TypeInv, TypeOK
  <2> QED BY <1>2, <2>1, LoadsToCloseKeeps DEF LoadForAutoFinish, CloseOps
<1>3. CASE LoadForFinalize(h)
  BY <1>3, LoadsToCloseKeeps DEF LoadForFinalize, CloseOps
<1> QED BY <1>1, <1>2, <1>3, CloseKeeps, CommitClosingKeeps DEF Close

LEMMA NextIInv == IInv /\ [Next]_vars => IInv'
<1> SUFFICES ASSUME IInv, [Next]_vars PROVE IInv'
  OBVIOUS
<1>1. CASE UNCHANGED vars
  <2>1. UNCHANGED <<now, grace, shift, status, done, photos, txn>>
    BY <1>1 DEF vars, tables
  <2>2. TypeOK'
    BY <2>1 DEF IInv, TypeInv, TypeOK
  <2> QED BY <2>1, <2>2, AloofKeeps
<1> QED BY <1>1, AdministerKeeps, DiesKeeps, FillItemKeeps, CloseStepKeeps DEF Next

THEOREM Invariance == Spec => []IInv
BY InitIInv, NextIInv, PTL DEF Spec

(***************************************************************************)
(* What follows                                                            *)
(***************************************************************************)

\* The tables keep their shape, a finished shift has an end, and only a required
\* checklist is ever incomplete, for any number of requests and tasks.
THEOREM TypeCorrect == Spec => []TypeOK
BY Invariance, PTL DEF IInv, TypeInv

\* Whoever attaches photos at one time, an item never has more than the limit, and no
\* file is attached to two items (attach_photo locks the item before it counts).
THEOREM PhotosWithinLimit == Spec => []PhotoLimit
BY Invariance, PTL DEF IInv, PhotoInv

\* Only the two commits write a status.
LEMMA StatusWriters ==
    ASSUME [Next]_vars, status' # status
    PROVE  \E h \in Handlers : CommitChange(h) \/ CommitClosing(h)
BY ZenonT(30) DEF Next, vars, tables, Tick, Administer, UpdateManualShift, DeleteShift, RestoreShift,
       UpdateGrace, Dies, FillItem, LoadForUpdateItem, LoadForAttachPhoto, LoadForDetachPhoto, Loads,
       FlushChange, RecomputeInstanceStatus, Close, LoadForFinishShift, LoadForAutoFinish,
       LoadForFinalize, LoadsToClose, CloseShiftChecklists

\* A status that is written is not incomplete before, and is true of the items after.
LEMMA StatusStep ==
    ASSUME IInv, [Next]_vars, NEW i \in Instances, status'[i] # status[i]
    PROVE  /\ status[i] # "incomplete"
           /\ status'[i] = "completed" => AllSatisfied(i, done', photos')
           /\ status'[i] = "pending" => ~AllSatisfied(i, done', photos')
<1>1. PICK h \in Handlers : CommitChange(h) \/ CommitClosing(h)
  BY StatusWriters
<1> DEFINE t == txn[h]
<1>2. TypeOK
  BY DEF IInv, TypeInv
<1>3. CASE CommitChange(h)
  <2>1. t \in Computed /\ StatusKnown(t)
    BY <1>3, CallKinds DEF IInv, TypeInv, CommitChange, KnownInv
  <2>2. i = InstanceOf[t.item] /\ status'[i] = t.status
    BY <1>2, <1>3 DEF CommitChange, TypeOK
  <2>3. done' = DoneWith(t) /\ photos' = PhotosAfter(t)
    BY <1>3 DEF CommitChange, DoneWith
  <2> QED BY <1>3, <2>1, <2>2, <2>3, Zenon DEF StatusKnown, CommitChange
<1>4. CASE CommitClosing(h)
  <2>1. i \in t.marked /\ status'[i] = "incomplete"
    BY <1>4 DEF CommitClosing
  <2> QED BY <2>1
<1> QED BY <1>1, <1>3, <1>4

\* incomplete is terminal whatever requests were under way when the window closed
\* (_recompute_instance_status takes the lock and reads the status again).
THEOREM IncompleteStays == Spec => IncompleteIsTerminal
<1>1. IInv /\ [Next]_vars =>
        [\A i \in Instances : status[i] = "incomplete" => status'[i] = "incomplete"]_vars
  BY StatusStep
<1> QED BY <1>1, Invariance, PTL DEF Spec, IncompleteIsTerminal

\* A status is true of the items it is committed with, however many requests fill the
\* same checklist (the lock of _recompute_instance_status is held until the commit).
THEOREM StatusTrue == Spec => StatusIsTrueWhenWritten
<1>1. IInv /\ [Next]_vars =>
        [\A i \in Instances :
            /\ (status[i] # "completed" /\ status'[i] = "completed") => AllSatisfied(i, done', photos')
            /\ (status[i] # "pending" /\ status'[i] = "pending") => ~AllSatisfied(i, done', photos')]_vars
  BY StatusStep
<1> QED BY <1>1, Invariance, PTL DEF Spec, StatusIsTrueWhenWritten

================================================================================
