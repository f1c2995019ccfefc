------------------------------- MODULE Photos -------------------------------
(***************************************************************************)
(* The ordered photos of one record: PhotoService (Append, Replace,        *)
(* Reorder, Delete, DeleteByRecord) over the clinic_record_photo table and *)
(* the object store.  Records do not share photos, and every statement is  *)
(* restricted to one record, so one record is enough.                      *)
(*                                                                         *)
(* An upload is put in the store under a random key before the transaction *)
(* begins; objects that lost their row are removed after it has committed. *)
(* A transaction first locks the record's row (lockPhotoRecordTx), then    *)
(* reads photo rows, then writes them.                                     *)
(***************************************************************************)
EXTENDS Naturals, Sequences, FiniteSets

CONSTANTS
  Requests,     \* slots for requests being served at the same time
  MaxCount,     \* RECORD_PHOTO_MAX_COUNT
  MaxUploads,   \* bound on the number of uploads
  NoRequest,    \* nobody holds the lock
  MayFail       \* TRUE: errors, cancelled contexts and crashes happen

ASSUME ConstantsAssumption ==
  /\ MaxCount \in Nat \ {0}
  /\ MaxUploads \in Nat
  /\ NoRequest \notin Requests
  /\ MayFail \in BOOLEAN

VARIABLES
  live,      \* whether the clinic_record row exists
  lock,      \* which request holds its row lock
  photos,    \* the rows of clinic_record_photo: id, object key, position
  objects,   \* the keys in the object store
  uploads,   \* number of uploads so far; the n-th gets key n
  req        \* what each request is doing

vars == <<live, lock, photos, objects, uploads, req>>
-----------------------------------------------------------------------------
Keys == 1..MaxUploads
Ids == Keys               \* a row is named after the upload that created it
PhotoRows == [id: Ids, key: Keys, pos: 1..MaxCount]

Ops == {"append", "replace", "reorder", "delete", "record"}

RequestStates ==
  [pc: {"idle", "begun", "locked", "read", "sweep", "clean"}, op: Ops,
   key: {0} \cup Keys,           \* the object uploaded, 0 if none
   pos: 0..MaxCount,             \* the position in the URL
   expected: Seq(Ids), wanted: Seq(Ids),
   seen: SUBSET PhotoRows,       \* the rows the transaction has read
   trash: SUBSET Keys]           \* the objects to remove afterwards

Idle == [pc |-> "idle", op |-> "append", key |-> 0, pos |-> 0, expected |-> <<>>,
         wanted |-> <<>>, seen |-> {}, trash |-> {}]

Become(q, s) == req' = [req EXCEPT ![q] = s]

\* The photo ids of rows R, ORDER BY position.
Before(p, r) == p.pos < r.pos \/ (p.pos = r.pos /\ p.id < r.id)
Order(R) == [n \in 1..Cardinality(R) |->
               (CHOOSE r \in R : Cardinality({p \in R : Before(p, r)}) = n - 1).id]

Orders(I) == {s \in [1..Cardinality(I) -> I] : \A i \in I : \E n \in DOMAIN s : s[n] = i}

\* lockPhotoRecordTx waits for the lock, then fails if the record is gone.
MayIgnoreLock(q) == live
MayIgnoreRecord(q) == lock = NoRequest
MayLock(q) == lock = NoRequest /\ live

Unlocked(q) == IF lock = q THEN NoRequest ELSE lock

\* The object a failed append or replace takes back.
UploadForgotten(q) == {}
Upload(q) == IF req[q].key = 0 THEN {} ELSE {req[q].key}

\* After its transaction a request removes the objects in trash, if any.
Finish(q, trash) ==
  Become(q, IF trash = {} THEN Idle ELSE [Idle EXCEPT !.pc = "clean", !.trash = trash])
-----------------------------------------------------------------------------
Init ==
  /\ live = TRUE
  /\ lock = NoRequest
  /\ photos = {}
  /\ objects = {}
  /\ uploads = 0
  /\ req = [q \in Requests |-> Idle]

\* Append and Replace: the record exists, and the upload is stored.
Put(q, op, n) ==
  /\ req[q] = Idle
  /\ live
  /\ uploads < MaxUploads
  /\ uploads' = uploads + 1
  /\ objects' = objects \cup {uploads + 1}
  /\ Become(q, [Idle EXCEPT !.pc = "begun", !.op = op, !.key = uploads + 1,
                            !.pos = IF op = "replace" THEN n ELSE 0])
  /\ UNCHANGED <<live, lock, photos>>

\* Delete and Reorder begin with the transaction.  The client of a reorder has
\* listed the photos and wants them in another order.
Ask(q, n) ==
  /\ req[q] = Idle
  /\ Become(q, [Idle EXCEPT !.pc = "begun", !.op = "delete", !.pos = n])
  /\ UNCHANGED <<live, lock, photos, objects, uploads>>

AskOrder(q) ==
  /\ req[q] = Idle
  /\ \E wanted \in Orders({p.id : p \in photos}) :
       Become(q, [Idle EXCEPT !.pc = "begun", !.op = "reorder",
                              !.expected = Order(photos), !.wanted = wanted])
  /\ UNCHANGED <<live, lock, photos, objects, uploads>>

Lock(q) ==
  /\ req[q].pc = "begun"
  /\ MayLock(q)
  /\ lock' = q
  /\ Become(q, [req[q] EXCEPT !.pc = "locked"])
  /\ UNCHANGED <<live, photos, objects, uploads>>

Read(q) ==
  /\ req[q].pc = "locked"
  /\ Become(q, [req[q] EXCEPT !.pc = "read", !.seen = photos])
  /\ UNCHANGED <<live, lock, photos, objects, uploads>>

\* The position a new photo gets, and whether there is room for it.
RoomForOneTooMany(R) == Cardinality(R) <= MaxCount
RoomFor(R) == Cardinality(R) < MaxCount

\* Append: the new photo goes after those counted.
Append_(q) ==
  /\ req[q].op = "append"
  /\ RoomFor(req[q].seen)
  /\ photos' = photos \cup
       {[id |-> req[q].key, key |-> req[q].key, pos |-> Cardinality(req[q].seen) + 1]}
  /\ Finish(q, {})

\* The object that row v of the table no longer needs.
OutdatedIsNew(q, v) == {req[q].key}
Outdated(q, v) == {v.key}

\* Replace: the row found at the position gets the new object, the old one goes.
Replace(q) ==
  /\ req[q].op = "replace"
  /\ \E v \in req[q].seen :
       /\ v.pos = req[q].pos
       /\ photos' = {IF p.id = v.id THEN [p EXCEPT !.key = req[q].key] ELSE p : p \in photos}
       /\ Finish(q, Outdated(q, v))

\* Delete: the later photos move down by one.
NotShifted(R, n) == R
Shifted(R, n) == {IF p.pos > n THEN [p EXCEPT !.pos = @ - 1] ELSE p : p \in R}

Delete(q) ==
  /\ req[q].op = "delete"
  /\ \E v \in req[q].seen :
       /\ v.pos = req[q].pos
       /\ photos' = Shifted({p \in photos : p.id # v.id}, v.pos)
       /\ Finish(q, Outdated(q, v))

\* Reorder: refused unless both lists name the current photos, once each, and the
\* first one in the current order.
ExpectedIgnored(q) == req[q].wanted \in Orders({p.id : p \in req[q].seen})
ExpectedMatches(q) ==
  /\ req[q].wanted \in Orders({p.id : p \in req[q].seen})
  /\ req[q].expected = Order(req[q].seen)

PositionIn(s, i) == CHOOSE n \in DOMAIN s : s[n] = i

Reorder(q) ==
  /\ req[q].op = "reorder"
  /\ ExpectedMatches(q)
  /\ photos' = {IF \E v \in req[q].seen : v.id = p.id
                THEN [p EXCEPT !.pos = PositionIn(req[q].wanted, p.id)] ELSE p : p \in photos}
  /\ Finish(q, {})

\* The writes and the commit, which releases the lock.
Commit(q) ==
  /\ req[q].pc = "read"
  /\ Append_(q) \/ Replace(q) \/ Delete(q) \/ Reorder(q)
  /\ lock' = Unlocked(q)
  /\ UNCHANGED <<live, objects, uploads>>

\* The transaction is rolled back, and the upload removed.
Refused(q) ==
  \/ req[q].pc = "begun" /\ ~live
  \/ /\ req[q].pc = "read"
     /\ CASE req[q].op = "append"  -> ~RoomFor(req[q].seen)
          [] req[q].op = "reorder" -> ~ExpectedMatches(q)
          [] req[q].op \in {"replace", "delete"} -> \A v \in req[q].seen : v.pos # req[q].pos

Abort(q) ==
  /\ req[q].pc \in {"begun", "locked", "read"}
  /\ MayFail \/ Refused(q)
  /\ Finish(q, Upload(q))
  /\ lock' = Unlocked(q)
  /\ UNCHANGED <<live, photos, objects, uploads>>

\* deleteObjectQuietly, for one object.
Clean(q) ==
  /\ req[q].pc = "clean"
  /\ \E k \in req[q].trash :
       /\ objects' = objects \ {k}
       /\ Finish(q, req[q].trash \ {k})
  /\ UNCHANGED <<live, lock, photos, uploads>>

\* ... which only logs an error.
CleanFails(q) ==
  /\ MayFail
  /\ req[q].pc = "clean"
  /\ \E k \in req[q].trash : Finish(q, req[q].trash \ {k})
  /\ UNCHANGED <<live, lock, photos, objects, uploads>>

\* The process or the connection is lost: the database rolls back, nobody cleans up.
Crash(q) ==
  /\ MayFail
  /\ req[q] # Idle
  /\ Become(q, Idle)
  /\ lock' = Unlocked(q)
  /\ UNCHANGED <<live, photos, objects, uploads>>
-----------------------------------------------------------------------------
\* DeleteForUser deletes the record's row, which waits for the row lock ...
DeleteRecord(q) ==
  /\ req[q] = Idle
  /\ MayLock(q)
  /\ live' = FALSE
  /\ Become(q, [Idle EXCEPT !.pc = "sweep", !.op = "record"])
  /\ UNCHANGED <<lock, photos, objects, uploads>>

\* ... and DeleteByRecord then deletes the photo rows, and their objects one by one.
Sweep(q) ==
  /\ req[q].pc = "sweep"
  /\ photos' = {}
  /\ Finish(q, {p.key : p \in photos})
  /\ UNCHANGED <<live, lock, objects, uploads>>
-----------------------------------------------------------------------------
\* What a request does once it has begun.
Step(q) ==
  \/ Lock(q) \/ Read(q) \/ Commit(q) \/ Abort(q) \/ Clean(q) \/ Sweep(q)

Next ==
  \E q \in Requests :
    \/ \E op \in {"append", "replace"}, n \in 1..MaxCount : Put(q, op, n)
    \/ \E n \in 1..MaxCount : Ask(q, n)
    \/ AskOrder(q)
    \/ DeleteRecord(q)
    \/ Step(q)
    \/ CleanFails(q) \/ Crash(q)

Spec == Init /\ [][Next]_vars

\* A handler that has begun runs to its end, and a database hands a lock that is
\* released again and again to everyone who waits for it.
FairSpec == Spec /\ \A q \in Requests : WF_vars(Step(q)) /\ SF_vars(Lock(q))
-----------------------------------------------------------------------------
\* Every variable has its type; only a request inside its transaction holds the
\* lock, and every such request does.
TypeOK ==
  /\ live \in BOOLEAN
  /\ lock \in Requests \cup {NoRequest}
  /\ photos \subseteq PhotoRows
  /\ objects \subseteq 1..uploads
  /\ uploads \in 0..MaxUploads
  /\ req \in [Requests -> RequestStates]
  /\ \A q \in Requests : lock = q <=> req[q].pc \in {"locked", "read"}

\* The positions of the photos are 1..n without a gap, with at most MaxCount photos,
\* whatever uploads, deletes and reorders overlap.
Contiguous ==
  /\ {p.pos : p \in photos} = 1..Cardinality(photos)
  /\ Cardinality(photos) <= MaxCount

\* A photo that is listed can be fetched: its object is in the store, even when
\* requests fail half way or the process crashes.
RowsHaveObjects == \A p \in photos : p.key \in objects

\* Two rows never share an object, so removing one photo's object leaves the
\* others' alone; and no object a request is going to remove is in use.
KeysUnshared ==
  /\ \A p, r \in photos : p.key = r.key => p = r
  /\ \A q \in Requests : \A k \in req[q].trash : \A p \in photos : p.key # k
  /\ \A q \in Requests : \A k \in Upload(q) : \A p \in photos : p.key # k

\* To a reader the photos are an abstract list: "if another request changed the
\* order, the backend returns 409 and changes nothing" (API.md).
List == INSTANCE PhotoList WITH
  Max <- MaxCount, Photos <- Ids, list <- Order(photos)

PhotosAreAList == List!Spec

\* A reorder takes the list from exactly what its client had seen to exactly what
\* the client asked for.
ReorderIsAsAsked ==
  [][\A q \in Requests :
       Commit(q) /\ req[q].op = "reorder" =>
         /\ Order(photos) = req[q].expected
         /\ Order(photos') = req[q].wanted]_vars

\* When nothing fails, an object does not stay in the store without a photo.
ObjectsNotLeaked ==
  \A k \in Keys : k \in objects ~> (k \notin objects \/ \E p \in photos : p.key = k)

\* When nothing fails, a deleted record ends up with no photos at all, even if
\* uploads were under way when it was deleted.
DeletedLosesPhotos == ~live ~> [](photos = {})
=============================================================================
