--------------------------- MODULE RecordActions ---------------------------
(***************************************************************************)
(* Staff actions on clinic records, their undo journal, the customer's     *)
(* delete and the nightly cleanup: AdminRecordService (Mark*, Update,      *)
(* Revert, CloseExpiredRecords), RecordActionService with its Redis store, *)
(* and TicketService.DeleteForUser as far as they share rows.              *)
(*                                                                         *)
(* A handler is several steps of a request: the status guard read outside  *)
(* any transaction, the reload and the snapshot inside one, the writes and *)
(* the commit, then the call to Redis.  The writes of one transaction are  *)
(* one step because each takes the row lock of clinic_record, except       *)
(* Update, which locks the worker row first (a deadlock with another       *)
(* writer of that row makes the database abort one of the two: Fail).      *)
(*                                                                         *)
(* Contents of side rows (times, notes, reasons) are represented by the    *)
(* number of the step that wrote them; 0 is "no such row" or "never set".  *)
(***************************************************************************)
EXTENDS Naturals, Sequences

CONSTANTS
  Records,         \* ids of clinic_record rows
  Staff,           \* account ids of staff members
  Nobody,          \* the NULL approver, worker id 0, the author of system steps
  NoRow,           \* worker id of an absent clinic_record_worker row
  Requests,        \* slots for requests being served at the same time
  MaxSteps,        \* bound on the number of committed steps of a behaviour
  Serializable,    \* TRUE: SQLite transactions; FALSE: PostgreSQL's READ COMMITTED
  ConsumeMayFail   \* TRUE: Redis may be unreachable when an entry is consumed

ASSUME ConstantsAssumption ==
  /\ Nobody \notin Staff
  /\ NoRow \notin Staff
  /\ NoRow # Nobody
  /\ MaxSteps \in Nat
  /\ Serializable \in BOOLEAN
  /\ ConsumeMayFail \in BOOLEAN

VARIABLES
  row,       \* clinic_record: status, approver, action_seq
  side,      \* the arrival, worker, rejection and referral rows of a record
  expired,   \* records whose appointment day is over
  journal,   \* Redis: each staff member's reversible actions
  req,       \* what each request is doing
  clock,     \* number of committed steps so far, the source of CreatedAt
  origin     \* history: the step that last moved a record to a sequence number

vars == <<row, side, expired, journal, req, clock, origin>>
-----------------------------------------------------------------------------
Working  == {"pending", "confirmed", "arrived", "in_progress"}
Finished == {"rejected", "completed", "referred", "no_show"}

Ops == {"confirm", "arrive", "in_progress", "complete",
        "reject", "refer", "no_show", "update"}

\* The statuses in which the handler of op does not return early.
From == [op \in Ops |->
  CASE op \in {"confirm", "reject"} -> {"pending"}
    [] op \in {"arrive", "no_show"} -> {"confirmed"}
    [] op = "in_progress"           -> {"confirmed", "arrived"}
    [] op = "complete"              -> {"in_progress"}
    [] op = "refer"                 -> Working
    [] op = "update"                -> Working \cup Finished]

\* The status op writes.
To == [op \in Ops \ {"update"} |->
  CASE op = "confirm"     -> "confirmed"
    [] op = "arrive"      -> "arrived"
    [] op = "in_progress" -> "in_progress"
    [] op = "complete"    -> "completed"
    [] op = "reject"      -> "rejected"
    [] op = "refer"       -> "referred"
    [] op = "no_show"     -> "no_show"]

Steps == 0..MaxSteps

Sides == [arrival: Steps, worker: Staff \cup {Nobody, NoRow}, desc: Steps,
          finish: Steps, rejection: Steps, referral: Steps]
NoSides == [arrival |-> 0, worker |-> NoRow, desc |-> 0,
            finish |-> 0, rejection |-> 0, referral |-> 0]

Snapshots == [status: Working \cup Finished, approver: Staff \cup {Nobody},
              side: Sides]
Rows == [status: Working \cup Finished \cup {"deleted"},
         approver: Staff \cup {Nobody}, seq: Steps]

Entries == [id: Steps, rec: Records, by: Staff, prevSeq: Steps, seq: Steps,
            prev: Snapshots]

RequestStates ==
       [pc: {"idle"}]
  \cup [pc: {"checked"}, by: Staff, rec: Records, op: Ops]
  \cup [pc: {"read"}, by: Staff, rec: Records, op: Ops, prevSeq: Steps,
        status: Working \cup Finished, approver: Staff \cup {Nobody}]
  \cup [pc: {"snapped"}, by: Staff, rec: Records, op: Ops, prevSeq: Steps,
        prev: Snapshots]
  \cup [pc: {"push", "found", "matched", "consume"}, entry: Entries]
  \cup [pc: {"deleting"}, rec: Records, seen: Sides]

Origins == [id: Steps, by: Staff \cup {Nobody}, before: Snapshots]

Idle == [pc |-> "idle"]
Fresh == [status |-> "pending", approver |-> Nobody, side |-> NoSides]
-----------------------------------------------------------------------------
Live(r) == row[r].status # "deleted"

\* What snapshotTx would capture of r now.
State(r) == [status |-> row[r].status, approver |-> row[r].approver,
             side |-> side[r]]

\* Which steps of a request are inside its transaction.
InTx(q) == req[q].pc \in {"read", "snapped", "matched", "deleting"}

\* A transaction of SQLite excludes every other; PostgreSQL runs them together.
MayAlwaysEnterTx == TRUE
MayEnterTx == Serializable => \A q \in Requests : ~InTx(q)

Become(q, s) == req' = [req EXCEPT ![q] = s]

\* action_seq = action_seq + 1, evaluated on the row as it is at the write.
NextSeqTwice(r) == row[r].seq + 2
NextSeq(r) == row[r].seq + 1

\* Revert refuses an entry when the record's sequence has moved on.
SupersededNever(e) == FALSE
Superseded(e) == row[e.rec].seq # e.seq

\* The sequence number a revert writes.
SeqKept(e) == e.seq
SeqRestored(e) == e.prevSeq

\* Bookkeeping of a step that gives record r its next sequence number.
Origin(by, r) == [id |-> clock + 1, by |-> by, before |-> State(r)]

\* The approver_id and the side rows op leaves behind.
ApproverUnlessReferred(op, by, r) ==
  IF op \in {"confirm", "reject"} THEN by ELSE row[r].approver
ApproverAfter(op, by, r) ==
  IF op \in {"confirm", "reject", "refer"} THEN by ELSE row[r].approver

SideUpdatedOnly(op, by, r) ==
  LET s   == side[r]
      now == clock + 1
  IN CASE op = "arrive"      -> [s EXCEPT !.arrival = IF @ = 0 THEN now ELSE @]
       [] op = "in_progress" -> IF s.worker = NoRow THEN s ELSE [s EXCEPT !.worker = by]
       [] op = "complete"    -> [s EXCEPT !.finish = now]
       [] op = "update"      -> [s EXCEPT !.desc = now]
       [] op = "reject"      -> [s EXCEPT !.rejection = now]
       [] op = "refer"       -> [s EXCEPT !.referral = now]
       [] op \in {"confirm", "no_show"} -> s

SideAfter(op, by, r) ==
  LET s   == side[r]
      now == clock + 1
      OrNobody == IF s.worker = NoRow THEN Nobody ELSE s.worker
  IN CASE op = "arrive"      -> [s EXCEPT !.arrival = IF @ = 0 THEN now ELSE @]
       [] op = "in_progress" -> [s EXCEPT !.worker = by]
       [] op = "complete"    -> [s EXCEPT !.worker = OrNobody, !.finish = now]
       [] op = "update"      -> [s EXCEPT !.worker = OrNobody, !.desc = now]
       [] op = "reject"      -> [s EXCEPT !.rejection = now]
       [] op = "refer"       -> [s EXCEPT !.referral = now]
       [] op \in {"confirm", "no_show"} -> s
-----------------------------------------------------------------------------
Init ==
  /\ row = [r \in Records |-> [status |-> "pending", approver |-> Nobody, seq |-> 0]]
  /\ side = [r \in Records |-> NoSides]
  /\ expired = {}
  /\ journal = [a \in Staff |-> {}]
  /\ req = [q \in Requests |-> Idle]
  /\ clock = 0
  /\ origin = [r \in Records |->
                [n \in Steps |-> [id |-> 0, by |-> Nobody, before |-> Fresh]]]

\* A Mark* or Update request: the record is read and its status tested before
\* any transaction begins.
Check(q, a, r, op) ==
  /\ req[q].pc = "idle"
  /\ row[r].status \in From[op]
  /\ Become(q, [pc |-> "checked", by |-> a, rec |-> r, op |-> op])
  /\ UNCHANGED <<row, side, expired, journal, clock, origin>>

\* The transaction begins and reloads the record; the status is not tested again.
ReadRecord(q) ==
  /\ req[q].pc = "checked"
  /\ MayEnterTx
  /\ Live(req[q].rec)
  /\ LET r == req[q].rec
     IN Become(q, [pc |-> "read", by |-> req[q].by, rec |-> r, op |-> req[q].op,
                   prevSeq |-> row[r].seq, status |-> row[r].status,
                   approver |-> row[r].approver])
  /\ UNCHANGED <<row, side, expired, journal, clock, origin>>

\* The side rows are read by later statements of the same transaction.
Snapshot(q) ==
  /\ req[q].pc = "read"
  /\ LET r == req[q].rec
     IN Become(q, [pc |-> "snapped", by |-> req[q].by, rec |-> r, op |-> req[q].op,
                   prevSeq |-> req[q].prevSeq,
                   prev |-> [status |-> req[q].status, approver |-> req[q].approver,
                             side |-> side[r]]])
  /\ UNCHANGED <<row, side, expired, journal, clock, origin>>

\* The writes, on the current row, and the commit; the entry for the journal
\* carries the sequence number and the snapshot read before the writes.
Commit(q) ==
  /\ req[q].pc = "snapped"
  /\ clock < MaxSteps
  /\ LET r  == req[q].rec
         a  == req[q].by
         op == req[q].op
         n  == NextSeq(r)
     IN /\ Live(r)
        /\ row' = [row EXCEPT ![r] =
             [status   |-> IF op = "update" THEN @.status ELSE To[op],
              approver |-> ApproverAfter(op, a, r),
              seq      |-> n]]
        /\ side' = [side EXCEPT ![r] = SideAfter(op, a, r)]
        /\ origin' = [origin EXCEPT ![r][n] = Origin(a, r)]
        /\ Become(q, [pc |-> "push",
             entry |-> [id |-> clock + 1, rec |-> r, by |-> a,
                        prevSeq |-> req[q].prevSeq, seq |-> n,
                        prev |-> req[q].prev]])
  /\ clock' = clock + 1
  /\ UNCHANGED <<expired, journal>>

\* recordAction after the commit; a failed push is only logged.
Push(q) ==
  /\ req[q].pc = "push"
  /\ LET e == req[q].entry
     IN journal' = [journal EXCEPT ![e.by] = @ \cup {e}]
  /\ Become(q, Idle)
  /\ UNCHANGED <<row, side, expired, clock, origin>>

PushFails(q) ==
  /\ req[q].pc = "push"
  /\ Become(q, Idle)
  /\ UNCHANGED <<row, side, expired, journal, clock, origin>>
-----------------------------------------------------------------------------
\* The newest entry of a for r in the window.
Latest(a, r) ==
  {e \in journal[a] : e.rec = r /\ \A f \in journal[a] : f.rec = r => f.id <= e.id}

\* A Revert request finds the entry to undo.
FindLatest(q, a, r) ==
  /\ req[q].pc = "idle"
  /\ \E e \in Latest(a, r) : Become(q, [pc |-> "found", entry |-> e])
  /\ UNCHANGED <<row, side, expired, journal, clock, origin>>

\* Its transaction reads the record and compares the sequence numbers.
Match(q) ==
  /\ req[q].pc = "found"
  /\ MayEnterTx
  /\ LET e == req[q].entry
     IN /\ Live(e.rec)
        /\ ~Superseded(e)
        /\ Become(q, [pc |-> "matched", entry |-> e])
  /\ UNCHANGED <<row, side, expired, journal, clock, origin>>

\* The snapshot is written back, the sequence number with it.
Restore(q) ==
  /\ req[q].pc = "matched"
  /\ LET e == req[q].entry
     IN /\ Live(e.rec)
        /\ row' = [row EXCEPT ![e.rec] = [status   |-> e.prev.status,
                                          approver |-> e.prev.approver,
                                          seq      |-> SeqRestored(e)]]
        /\ side' = [side EXCEPT ![e.rec] = e.prev.side]
        /\ Become(q, [pc |-> "consume", entry |-> e])
  /\ UNCHANGED <<expired, journal, clock, origin>>

\* After the commit the entry is removed from the journal; a failure is logged.
Consume(q) ==
  /\ req[q].pc = "consume"
  /\ LET e == req[q].entry
     IN journal' = [journal EXCEPT ![e.by] = @ \ {e}]
  /\ Become(q, Idle)
  /\ UNCHANGED <<row, side, expired, clock, origin>>

ConsumeFails(q) ==
  /\ ConsumeMayFail
  /\ req[q].pc = "consume"
  /\ Become(q, Idle)
  /\ UNCHANGED <<row, side, expired, journal, clock, origin>>

\* Entries leave the sliding window oldest first; a flushed Redis loses all.
SlideWindow(a) ==
  /\ \E k \in 1..clock : journal' = [journal EXCEPT ![a] = {e \in @ : e.id > k}]
  /\ UNCHANGED <<row, side, expired, req, clock, origin>>
-----------------------------------------------------------------------------
\* DeleteForUser: the side rows that exist when its statements run are deleted,
\* then the record.
BeginDelete(q, r) ==
  /\ req[q].pc = "idle"
  /\ MayEnterTx
  /\ Live(r)
  /\ Become(q, [pc |-> "deleting", rec |-> r, seen |-> side[r]])
  /\ UNCHANGED <<row, side, expired, journal, clock, origin>>

RemainingNotes(now, seen) ==
  [now EXCEPT !.arrival = 0, !.rejection = 0, !.referral = 0]
Remaining(now, seen) ==
  LET Left(n, t) == IF t = 0 THEN n ELSE 0
  IN [arrival   |-> Left(now.arrival, seen.arrival),
      worker    |-> IF seen.worker = NoRow THEN now.worker ELSE NoRow,
      desc      |-> IF seen.worker = NoRow THEN now.desc ELSE 0,
      finish    |-> IF seen.worker = NoRow THEN now.finish ELSE 0,
      rejection |-> Left(now.rejection, seen.rejection),
      referral  |-> Left(now.referral, seen.referral)]

FinishDelete(q) ==
  /\ req[q].pc = "deleting"
  /\ LET r    == req[q].rec
         seen == req[q].seen
     IN /\ row' = [row EXCEPT ![r].status = "deleted"]
        /\ side' = [side EXCEPT ![r] = Remaining(@, seen)]
  /\ Become(q, Idle)
  /\ UNCHANGED <<expired, journal, clock, origin>>

\* The request ends before its commit: a guard fails, the database reports an
\* error or a deadlock, the client goes away, the process stops.
Fail(q) ==
  /\ req[q].pc \in {"checked", "read", "snapped", "found", "matched", "deleting"}
  /\ Become(q, Idle)
  /\ UNCHANGED <<row, side, expired, journal, clock, origin>>
-----------------------------------------------------------------------------
DayEnds(r) ==
  /\ r \notin expired
  /\ expired' = expired \cup {r}
  /\ UNCHANGED <<row, side, journal, req, clock, origin>>

\* CloseExpiredRecords, one transaction; when it completes a record it stamps
\* the finish time of the workers of every expired completed record.
CloseExpired ==
  LET missed == {r \in expired : row[r].status \in {"pending", "confirmed", "arrived"}}
      done   == {r \in expired : row[r].status = "in_progress"}
      stamped == IF done = {} THEN {}
                 ELSE done \cup {r \in expired : row[r].status = "completed"}
  IN /\ MayEnterTx
     /\ clock < MaxSteps
     /\ missed \cup done # {}
     /\ row' = [r \in Records |->
          IF r \in missed \cup done
          THEN [status |-> IF r \in done THEN "completed" ELSE "no_show",
                approver |-> row[r].approver, seq |-> NextSeq(r)]
          ELSE row[r]]
     /\ side' = [r \in Records |->
          IF r \in stamped /\ side[r].worker # NoRow
          THEN [side[r] EXCEPT !.finish = clock + 1] ELSE side[r]]
     /\ origin' = [r \in Records |->
          IF r \in missed \cup done
          THEN [origin[r] EXCEPT ![NextSeq(r)] = Origin(Nobody, r)]
          ELSE origin[r]]
     /\ clock' = clock + 1
     /\ UNCHANGED <<expired, journal, req>>
-----------------------------------------------------------------------------
Next ==
  \/ \E q \in Requests :
       \/ \E a \in Staff, r \in Records :
            \/ \E op \in Ops : Check(q, a, r, op)
            \/ FindLatest(q, a, r)
       \/ ReadRecord(q) \/ Snapshot(q) \/ Commit(q) \/ Push(q) \/ PushFails(q)
       \/ Match(q) \/ Restore(q) \/ Consume(q) \/ ConsumeFails(q)
       \/ \E r \in Records : BeginDelete(q, r)
       \/ FinishDelete(q)
       \/ Fail(q)
  \/ \E a \in Staff : SlideWindow(a)
  \/ \E r \in Records : DayEnds(r)
  \/ CloseExpired

Spec == Init /\ [][Next]_vars
-----------------------------------------------------------------------------
\* The entries of a request that committed or is about to undo something.
Held(q) == IF req[q].pc \in {"push", "found", "matched", "consume"}
           THEN {req[q].entry} ELSE {}

\* Every variable has its type, and no sequence number, in a record, an entry or
\* a request, is ahead of the number of steps committed: it is only reached by a
\* step that bumps it by one, or restored by a revert.
TypeOK ==
  /\ row \in [Records -> Rows]
  /\ side \in [Records -> Sides]
  /\ expired \subseteq Records
  /\ journal \in [Staff -> SUBSET Entries]
  /\ req \in [Requests -> RequestStates]
  /\ clock \in Steps
  /\ origin \in [Records -> [Steps -> Origins]]
  /\ \A r \in Records : row[r].seq <= clock
  /\ \A a \in Staff : \A e \in journal[a] : e.prevSeq <= clock
  /\ \A q \in Requests : /\ req[q].pc \in {"read", "snapped"} => req[q].prevSeq <= clock
                         /\ \A e \in Held(q) : e.prevSeq <= clock

\* A status comes with the rows the handlers write beside it: an arrived record
\* has an arrival row, one in progress or completed a worker row, a rejected one
\* its reason, a referred one its referral.
Backed(s) ==
  /\ s.status = "arrived" => s.side.arrival # 0
  /\ s.status \in {"in_progress", "completed"} => s.side.worker # NoRow
  /\ s.status = "rejected" => s.side.rejection # 0
  /\ s.status = "referred" => s.side.referral # 0

\* At every moment, whatever actions, reverts, deletes and cleanups interleave,
\* the status of a record is backed by its side rows.
StatusBackedByRows == \A r \in Records : Live(r) => Backed(State(r))

\* Deleting a ticket leaves none of its side rows behind (DeleteForUser "deletes
\* the record and its side-table rows"), whatever staff do to it meanwhile.
DeletedLeavesNoRows == \A r \in Records : ~Live(r) => side[r] = NoSides

\* What is written into the journal is what the record was: the entry's snapshot
\* and previous sequence number are those the record had when the action's own
\* writes took place.  The snapshot is taken before the writes by other
\* statements, so this is about the isolation of the transaction.
PushedSnapshotsExact ==
  \A q \in Requests : req[q].pc = "push" =>
    LET e == req[q].entry
    IN /\ e.prevSeq + 1 = e.seq
       /\ origin[e.rec][e.seq].id = e.id => origin[e.rec][e.seq].before = e.prev

\* Why serialized transactions are enough for the three properties above: what a
\* transaction has read is still what is there, and every snapshot kept for a
\* revert is itself backed by its side rows.
Sound(s) == Backed(s) /\ (s.side.worker = NoRow => s.side.desc = 0 /\ s.side.finish = 0)

ReadsAreCurrent(q) ==
  LET t == req[q]
  IN /\ t.pc = "read" => /\ Live(t.rec)
                         /\ t.prevSeq = row[t.rec].seq
                         /\ t.status = row[t.rec].status
                         /\ t.approver = row[t.rec].approver
     /\ t.pc = "snapped" => /\ Live(t.rec)
                            /\ t.prevSeq = row[t.rec].seq
                            /\ t.prev = State(t.rec)
     /\ t.pc = "matched" => Live(t.entry.rec) /\ ~Superseded(t.entry)
     /\ t.pc = "deleting" => Live(t.rec) /\ t.seen = side[t.rec]

SerialInv ==
  /\ \A p, q \in Requests : InTx(p) /\ InTx(q) => p = q
  /\ \A q \in Requests : ReadsAreCurrent(q)
  /\ \A a \in Staff : \A e \in journal[a] : Sound(e.prev)
  /\ \A q \in Requests : \A e \in Held(q) : Sound(e.prev) /\ e.id <= clock
  /\ \A a \in Staff : \A e \in journal[a] : e.id <= clock
  /\ \A r \in Records : Live(r) => Sound(State(r))
  /\ DeletedLeavesNoRows
  /\ PushedSnapshotsExact

\* Why one request at a time is enough for RevertUndoesOwnNewest: the entries that
\* may still be undone (all but the one a revert has yet to remove) are the
\* record's history at their sequence numbers, none of them ahead of the record.
Undoable(e) ==
  /\ e.prevSeq + 1 = e.seq
  /\ e.seq <= row[e.rec].seq
  /\ origin[e.rec][e.seq] = [id |-> e.id, by |-> e.by, before |-> e.prev]

Spent == {req[q].entry : q \in {p \in Requests : req[p].pc = "consume"}}

JournalIsHistory ==
  /\ \A a \in Staff : \A e \in journal[a] : e.by = a /\ (e \notin Spent => Undoable(e))
  /\ \A q \in Requests : \A e \in Held(q) \ Spent : Undoable(e)

\* Who is on record as the approver of a record that left "pending" by an action.
ApprovedOncePastPending ==
  \A r \in Records :
    row[r].status \in {"confirmed", "arrived", "in_progress", "completed",
                       "rejected", "referred"} => row[r].approver # Nobody

\* A revert undoes the newest change of the record, which is the acting staff
\* member's own, and restores the record as it was before that change: "each
\* staff member can only revert their own actions", "refused when the record has
\* changed since the action" (API.md on POST .../revert).
RevertUndoesOwnNewest ==
  [][\A q \in Requests : Restore(q) =>
       LET e == req[q].entry
           o == origin[e.rec][row[e.rec].seq]
       IN o.by = e.by /\ o.before = State(e.rec)']_vars

\* The abstract undo stack, read off the history of sequence numbers.
Undo == INSTANCE UndoStack WITH
  Docs     <- Records,
  Authors  <- Staff,
  System   <- Nobody,
  Contents <- Snapshots,
  doc      <- [r \in Records |-> IF Live(r) THEN State(r) ELSE Fresh],
  stack    <- [r \in Records |-> IF Live(r)
                 THEN [n \in 1..row[r].seq |->
                         [by |-> origin[r][n].by, before |-> origin[r][n].before]]
                 ELSE <<>>],
  gone     <- {r \in Records : ~Live(r)}

\* Served one at a time, with serialized transactions and a journal that loses
\* no removal, the requests implement the abstract undo stack.
UndoStackImplemented == Undo!Spec
=============================================================================
