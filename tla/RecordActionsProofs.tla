------------------------ MODULE RecordActionsProofs ------------------------
(***************************************************************************)
(* Theorems about RecordActions, for any sets of records, staff members    *)
(* and requests, and any bound on the steps.                               *)
(***************************************************************************)
EXTENDS RecordActions, TLAPS

\* What an action makes of the side rows is a set of side rows again.
LEMMA SideAfterType ==
  ASSUME TypeOK, NEW r \in Records, NEW a \in Staff, NEW op \in Ops,
         clock < MaxSteps
  PROVE  SideAfter(op, a, r) \in Sides
<1>1. side[r] \in Sides /\ clock + 1 \in Steps /\ 0 \in Steps
  BY ConstantsAssumption DEF TypeOK, Steps
<1>2. side[r].worker \in Staff \cup {Nobody, NoRow}
  BY <1>1 DEF Sides
<1>3. QED
  BY <1>1, <1>2 DEF SideAfter, Sides, Ops

\* A state of a record is a snapshot as long as the record exists.
LEMMA StateType ==
  ASSUME TypeOK, NEW r \in Records, Live(r)
  PROVE  State(r) \in Snapshots
  BY DEF TypeOK, State, Live, Snapshots, Rows

\* The initial state is well typed.
LEMMA InitType == Init => TypeOK
<1>1. Fresh \in Snapshots /\ NoSides \in Sides /\ 0 \in Steps
  BY ConstantsAssumption DEF Fresh, NoSides, Snapshots, Sides, Steps, Working
<1>2. Idle \in RequestStates /\ Idle.pc = "idle"
  BY DEF Idle, RequestStates
<1>3. QED
  BY <1>1, <1>2, ConstantsAssumption
  DEF Init, TypeOK, Rows, Origins, Held, Steps, Working

\* No step takes the system out of its types.
LEMMA StepType == TypeOK /\ [Next]_vars => TypeOK'
<1> SUFFICES ASSUME TypeOK, [Next]_vars PROVE TypeOK'
  OBVIOUS
<1> USE ConstantsAssumption
<1>1. ASSUME NEW q \in Requests, NEW a \in Staff, NEW r \in Records, NEW op \in Ops,
             Check(q, a, r, op)
      PROVE  TypeOK'
  BY <1>1 DEF Check, Become, TypeOK, RequestStates, Held
<1>2. ASSUME NEW q \in Requests, ReadRecord(q) PROVE TypeOK'
  BY <1>2 DEF ReadRecord, Become, TypeOK, RequestStates, Held, Rows, Live
<1>3. ASSUME NEW q \in Requests, Snapshot(q) PROVE TypeOK'
  BY <1>3 DEF Snapshot, Become, TypeOK, RequestStates, Held, Snapshots
<1>4. ASSUME NEW q \in Requests, Commit(q) PROVE TypeOK'
  <2> DEFINE r == req[q].rec
             a == req[q].by
             op == req[q].op
  <2>1. /\ r \in Records /\ a \in Staff /\ op \in Ops
        /\ req[q].prev \in Snapshots /\ req[q].prevSeq \in Steps
        /\ req[q].prevSeq <= clock
    BY <1>4 DEF Commit, TypeOK, RequestStates
  <2>2. clock + 1 \in Steps /\ NextSeq(r) \in Steps /\ NextSeq(r) <= clock + 1
    BY <1>4, <2>1 DEF Commit, TypeOK, NextSeq, Rows, Steps
  <2>3. SideAfter(op, a, r) \in Sides
    BY <1>4, <2>1, SideAfterType DEF Commit
  <2>4. State(r) \in Snapshots
    BY <1>4, <2>1, StateType DEF Commit
  <2>5. ApproverAfter(op, a, r) \in Staff \cup {Nobody}
    BY <2>1 DEF ApproverAfter, TypeOK, Rows
  <2>6. op # "update" => To[op] \in Working \cup Finished
    BY <2>1 DEF To, Ops, Working, Finished
  <2>7. row' \in [Records -> Rows] /\ \A x \in Records : row'[x].seq <= clock'
    BY <1>4, <2>1, <2>2, <2>5, <2>6 DEF Commit, TypeOK, Rows, Live, Steps
  <2>8. side' \in [Records -> Sides]
    BY <1>4, <2>1, <2>3 DEF Commit, TypeOK
  <2>9. origin' \in [Records -> [Steps -> Origins]]
    BY <1>4, <2>1, <2>2, <2>4 DEF Commit, TypeOK, Origin, Origins
  <2>10. req' \in [Requests -> RequestStates]
    BY <1>4, <2>1, <2>2 DEF Commit, Become, TypeOK, RequestStates, Entries
  <2>11. \A p \in Requests :
           /\ req'[p].pc \in {"read", "snapped"} => req'[p].prevSeq <= clock'
           /\ \A e \in Held(p)' : e.prevSeq <= clock'
    <3>1. req'[q].pc = "push" /\ req'[q].entry.prevSeq = req[q].prevSeq
      BY <1>4 DEF Commit, Become, TypeOK
    <3>2. \A p \in Requests \ {q} : req'[p] = req[p]
      BY <1>4 DEF Commit, Become, TypeOK
    <3>3. \A p \in Requests : /\ req[p].pc = "read" => req[p].prevSeq \in Steps
                              /\ req[p].pc = "snapped" => req[p].prevSeq \in Steps
                              /\ \A e \in Held(p) : e.prevSeq \in Steps
      BY DEF TypeOK, RequestStates, Held, Entries
    <3>4. clock' = clock + 1 /\ clock \in Nat
      BY <1>4 DEF Commit, TypeOK, Steps
    <3>5. QED
      BY <2>1, <3>1, <3>2, <3>3, <3>4 DEF TypeOK, Held, Steps
  <2>12. \A b \in Staff : \A e \in journal'[b] : e.prevSeq <= clock'
    BY <1>4 DEF Commit, TypeOK, Entries, Steps
  <2>13. expired' \subseteq Records /\ journal' \in [Staff -> SUBSET Entries] /\ clock' \in Steps
    BY <1>4, <2>2 DEF Commit, TypeOK
  <2>14. QED
    BY <2>7, <2>8, <2>9, <2>10, <2>11, <2>12, <2>13 DEF TypeOK
<1>5. ASSUME NEW q \in Requests, NEW a \in Staff, NEW r \in Records, FindLatest(q, a, r)
      PROVE  TypeOK'
  BY <1>5 DEF FindLatest, Latest, Become, TypeOK, RequestStates, Held, Entries
<1>6. ASSUME NEW q \in Requests, Match(q) \/ ConsumeFails(q) PROVE TypeOK'
  BY <1>6 DEF Match, ConsumeFails, Become, TypeOK, RequestStates, Held, Idle
<1>7. ASSUME NEW q \in Requests, Push(q) PROVE TypeOK'
  BY <1>7 DEF Push, Become, TypeOK, RequestStates, Held, Idle, Entries
<1>8. ASSUME NEW q \in Requests, PushFails(q) PROVE TypeOK'
  BY <1>8 DEF PushFails, Become, TypeOK, RequestStates, Held, Idle
<1>9. ASSUME NEW q \in Requests, Restore(q) PROVE TypeOK'
  <2> DEFINE e == req[q].entry
  <2>1. e \in Entries /\ e.prevSeq <= clock
    BY <1>9 DEF Restore, TypeOK, RequestStates, Held
  <2>2. row' \in [Records -> Rows] /\ \A x \in Records : row'[x].seq <= clock'
    BY <1>9, <2>1 DEF Restore, TypeOK, Rows, Entries, Snapshots, SeqRestored
  <2>3. side' \in [Records -> Sides]
    BY <1>9, <2>1 DEF Restore, TypeOK, Entries, Snapshots
  <2>4. QED
    BY <1>9, <2>1, <2>2, <2>3 DEF Restore, Become, TypeOK, RequestStates, Held
<1>10. ASSUME NEW q \in Requests, Consume(q) PROVE TypeOK'
  BY <1>10 DEF Consume, Become, TypeOK, RequestStates, Held, Idle, Entries
<1>11. ASSUME NEW a \in Staff, SlideWindow(a) PROVE TypeOK'
  BY <1>11 DEF SlideWindow, TypeOK, Held
<1>12. ASSUME NEW q \in Requests, NEW r \in Records, BeginDelete(q, r) PROVE TypeOK'
  BY <1>12 DEF BeginDelete, Become, TypeOK, RequestStates, Held
<1>13. ASSUME NEW q \in Requests, FinishDelete(q) PROVE TypeOK'
  <2> DEFINE r == req[q].rec
             s == req[q].seen
  <2>1. r \in Records /\ s \in Sides
    BY <1>13 DEF FinishDelete, TypeOK, RequestStates
  <2>2. Remaining(side[r], s) \in Sides
    BY <2>1 DEF Remaining, TypeOK, Sides, Steps
  <2>3. row' \in [Records -> Rows] /\ \A x \in Records : row'[x].seq = row[x].seq
    BY ZenonT(30), <1>13, <2>1 DEF FinishDelete, TypeOK, Rows
  <2>4. side' \in [Records -> Sides]
    BY <1>13, <2>1, <2>2 DEF FinishDelete, TypeOK
  <2>5. req' \in [Requests -> RequestStates]
    BY <1>13 DEF FinishDelete, Become, TypeOK, RequestStates, Idle
  <2>6. \A p \in Requests : req'[p] = Idle \/ req'[p] = req[p]
    BY <1>13 DEF FinishDelete, Become, TypeOK
  <2>7. \A p \in Requests :
          /\ req'[p].pc \in {"read", "snapped"} => req'[p].prevSeq <= clock'
          /\ \A e \in Held(p)' : e.prevSeq <= clock'
    BY <1>13, <2>6 DEF FinishDelete, TypeOK, Held, Idle
  <2>8. QED
    BY <1>13, <2>3, <2>4, <2>5, <2>7 DEF FinishDelete, TypeOK
<1>14. ASSUME NEW q \in Requests, Fail(q) PROVE TypeOK'
  BY <1>14 DEF Fail, Become, TypeOK, RequestStates, Held, Idle
<1>15. ASSUME NEW r \in Records, DayEnds(r) PROVE TypeOK'
  BY <1>15 DEF DayEnds, TypeOK, Held
<1>16. ASSUME CloseExpired PROVE TypeOK'
  <2>1. clock + 1 \in Steps /\ clock' = clock + 1 /\ clock \in Nat
    BY <1>16 DEF CloseExpired, TypeOK, Steps
  <2>2. \A r \in Records : NextSeq(r) \in Steps /\ NextSeq(r) <= clock + 1
    BY <2>1 DEF NextSeq, TypeOK, Rows, Steps
  <2>3. row' \in [Records -> Rows] /\ \A x \in Records : row'[x].seq <= clock'
    BY <1>16, <2>1, <2>2 DEF CloseExpired, TypeOK, Rows, Working, Finished, Steps
  <2>4. side' \in [Records -> Sides]
    BY ZenonT(30), <1>16, <2>1 DEF CloseExpired, TypeOK, Sides
  <2>5. \A r \in Records : row[r].status \in Working => State(r) \in Snapshots
    BY StateType DEF Live, Working
  <2>6. origin' \in [Records -> [Steps -> Origins]]
    BY <1>16, <2>1, <2>2, <2>5 DEF CloseExpired, TypeOK, Origin, Origins, Working
  <2>7. \A q \in Requests :
          /\ req'[q].pc \in {"read", "snapped"} => req'[q].prevSeq <= clock'
          /\ \A e \in Held(q)' : e.prevSeq <= clock'
    <3>1. \A p \in Requests : /\ req[p].pc = "read" => req[p].prevSeq \in Steps
                              /\ req[p].pc = "snapped" => req[p].prevSeq \in Steps
                              /\ \A e \in Held(p) : e.prevSeq \in Steps
      BY DEF TypeOK, RequestStates, Held, Entries
    <3>2. QED
      BY <1>16, <2>1, <3>1 DEF CloseExpired, TypeOK, Held, Steps
  <2>8. \A b \in Staff : \A e \in journal'[b] : e.prevSeq <= clock'
    BY <1>16, <2>1 DEF CloseExpired, TypeOK, Entries, Steps
  <2>9. QED
    BY <1>16, <2>1, <2>3, <2>4, <2>6, <2>7, <2>8 DEF CloseExpired, TypeOK
<1>17. CASE UNCHANGED vars
  BY <1>17 DEF vars, TypeOK, Held
<1>18. QED
  BY <1>1, <1>2, <1>3, <1>4, <1>5, <1>6, <1>7, <1>8, <1>9, <1>10, <1>11, <1>12,
     <1>13, <1>14, <1>15, <1>16, <1>17 DEF Next

\* Every reachable state is well typed, and no sequence number a record, a
\* request or a journal entry carries is ahead of the steps committed.
THEOREM TypeCorrect == Spec => []TypeOK
  BY InitType, StepType, PTL DEF Spec
-----------------------------------------------------------------------------
(***************************************************************************)
(* With serialized transactions, whatever the number of requests.  The     *)
(* argument: only one transaction is open at a time, so what it read is    *)
(* what it overwrites; each handler writes the side row its status needs;  *)
(* a revert restores a snapshot, all of which were sound when taken.       *)
(***************************************************************************)

\* The writes of a handler leave a record whose status is backed.
LEMMA CommitSound ==
  ASSUME TypeOK, NEW q \in Requests, NEW r \in Records, Commit(q),
         req[q].rec = r, Sound(State(r))
  PROVE  Sound(State(r)')
<1> DEFINE a == req[q].by
           op == req[q].op
<1>1. r \in Records /\ a \in Staff /\ op \in Ops
  BY DEF Commit, TypeOK, RequestStates
<1>2. /\ side[r] \in Sides /\ clock \in Nat
      /\ a # NoRow /\ Nobody # NoRow
  BY <1>1, ConstantsAssumption DEF TypeOK, Steps
<1>3. /\ State(r)'.side = SideAfter(op, a, r)
      /\ State(r)'.status = IF op = "update" THEN row[r].status ELSE To[op]
  <2>1. side'[r] = SideAfter(op, a, r)
    BY <1>1 DEF Commit, TypeOK
  <2>2. row'[r].status = IF op = "update" THEN row[r].status ELSE To[op]
    BY <1>1 DEF Commit, TypeOK, Rows
  <2>3. QED
    BY <2>1, <2>2 DEF State
<1>4. State(r).side = side[r] /\ State(r).status = row[r].status
  BY DEF State
<1>5. ASSUME op = "arrive" PROVE Sound(State(r)')
  BY <1>2, <1>3, <1>4, <1>5 DEF Sound, Backed, SideAfter, Sides, To, Ops
<1>6. ASSUME op = "in_progress" PROVE Sound(State(r)')
  BY <1>2, <1>3, <1>4, <1>6 DEF Sound, Backed, SideAfter, Sides, To, Ops
<1>7. ASSUME op = "complete" PROVE Sound(State(r)')
  <2>1. SideAfter(op, a, r).worker # NoRow
    BY <1>2, <1>7 DEF SideAfter, Sides
  <2>2. QED
    BY <1>3, <1>7, <2>1 DEF Sound, Backed, To, Ops
<1>8. ASSUME op = "update" PROVE Sound(State(r)')
  <2>1. SideAfter(op, a, r).worker # NoRow
    BY <1>2, <1>8 DEF SideAfter, Sides
  <2>2. /\ SideAfter(op, a, r).arrival = side[r].arrival
        /\ SideAfter(op, a, r).rejection = side[r].rejection
        /\ SideAfter(op, a, r).referral = side[r].referral
    BY <1>2, <1>8 DEF SideAfter, Sides
  <2>3. QED
    BY <1>3, <1>4, <1>8, <2>1, <2>2 DEF Sound, Backed
<1>9. ASSUME op = "reject" PROVE Sound(State(r)')
  BY <1>2, <1>3, <1>4, <1>9 DEF Sound, Backed, SideAfter, Sides, To, Ops
<1>10. ASSUME op = "refer" PROVE Sound(State(r)')
  BY <1>2, <1>3, <1>4, <1>10 DEF Sound, Backed, SideAfter, Sides, To, Ops
<1>11. ASSUME op \in {"confirm", "no_show"} PROVE Sound(State(r)')
  BY <1>2, <1>3, <1>4, <1>11 DEF Sound, Backed, SideAfter, To, Ops
<1>12. QED
  BY <1>1, <1>5, <1>6, <1>7, <1>8, <1>9, <1>10, <1>11 DEF Ops

\* The nightly cleanup leaves records whose status is backed.
LEMMA CloseExpiredSound ==
  ASSUME TypeOK, CloseExpired, NEW r \in Records, Live(r), Sound(State(r))
  PROVE  Sound(State(r)')
<1>1. side[r] \in Sides /\ clock \in Nat /\ r \in DOMAIN side /\ r \in DOMAIN row
  BY DEF TypeOK, Steps
<1>2. State(r).side = side[r] /\ State(r).status = row[r].status
  BY DEF State
<1>3. State(r)'.side = side'[r] /\ State(r)'.status = row'[r].status
  BY DEF State
<1>4. side'[r] \in {side[r], [side[r] EXCEPT !.finish = clock + 1]}
  BY <1>1 DEF CloseExpired
<1>5. side[r].worker = NoRow => side'[r] = side[r]
  BY <1>1 DEF CloseExpired
<1>6. \/ row'[r].status = row[r].status
      \/ row'[r].status = "no_show"
      \/ row'[r].status = "completed" /\ row[r].status = "in_progress"
  BY <1>1 DEF CloseExpired
<1>7. QED
  BY <1>1, <1>2, <1>3, <1>4, <1>5, <1>6 DEF Sound, Backed, Sides

\* Initially nothing is open, kept or deleted.
LEMMA InitSerial == Init => SerialInv
  BY ConstantsAssumption
  DEF Init, SerialInv, InTx, ReadsAreCurrent, Held, Idle, Live, Sound, Backed, State,
      NoSides, DeletedLeavesNoRows, PushedSnapshotsExact

\* The entries reverts can restore are sound and were stamped in the past.
KeptSound(e) == Sound(e.prev) /\ e.id <= clock

\* A step of request q that changes no record and no side row keeps the
\* invariant if what q now holds satisfies it.
LEMMA QuietStep ==
  ASSUME TypeOK, SerialInv, NEW q \in Requests,
         row' = row, side' = side, origin' = origin, clock' = clock,
         \A p \in Requests \ {q} : req'[p] = req[p],
         InTx(q)' => \A p \in Requests \ {q} : ~InTx(p),
         ReadsAreCurrent(q)',
         \A e \in Held(q)' : KeptSound(e),
         \A a \in Staff : \A e \in journal'[a] : KeptSound(e),
         req'[q].pc # "push"
  PROVE  SerialInv'
<1>1. \A p1, p2 \in Requests : InTx(p1)' /\ InTx(p2)' => p1 = p2
  BY DEF SerialInv, InTx
<1>2. \A p \in Requests : ReadsAreCurrent(p)'
  BY DEF SerialInv, ReadsAreCurrent, Live, State, Superseded
<1>3. \A p \in Requests : \A e \in Held(p)' : Sound(e.prev)' /\ (e.id <= clock)'
  BY DEF SerialInv, Held, KeptSound, Sound, Backed
<1>4. \A a \in Staff : \A e \in journal'[a] : Sound(e.prev)' /\ (e.id <= clock)'
  BY DEF KeptSound, Sound, Backed
<1>5. \A r \in Records : Live(r)' => Sound(State(r))'
  BY DEF SerialInv, Live, State, Sound, Backed
<1>6. DeletedLeavesNoRows' /\ PushedSnapshotsExact'
  BY DEF SerialInv, DeletedLeavesNoRows, PushedSnapshotsExact, Live
<1>7. QED
  BY <1>1, <1>2, <1>3, <1>4, <1>5, <1>6 DEF SerialInv

\* A step after which no transaction is open keeps the invariant if the kept
\* entries, the records and the pushed snapshots satisfy it.
LEMMA WriteStep ==
  ASSUME \A p \in Requests : ~InTx(p)',
         \A p \in Requests : \A e \in Held(p)' : KeptSound(e)',
         \A a \in Staff : \A e \in journal'[a] : KeptSound(e)',
         \A r \in Records : Live(r)' => Sound(State(r))',
         DeletedLeavesNoRows', PushedSnapshotsExact'
  PROVE  SerialInv'
  BY DEF SerialInv, InTx, ReadsAreCurrent, KeptSound

\* A committed step that gives records their next sequence numbers does not
\* disturb what other requests are about to push.
LEMMA PushesStay ==
  ASSUME TypeOK, SerialInv, NEW q \in Requests, req'[q] = req[q],
         clock' = clock + 1,
         \A r \in Records : \A n \in Steps :
           origin'[r][n] = origin[r][n] \/ origin'[r][n].id = clock + 1
  PROVE  req'[q].pc = "push" =>
           LET e == req'[q].entry
           IN /\ e.prevSeq + 1 = e.seq
              /\ origin'[e.rec][e.seq].id = e.id => origin'[e.rec][e.seq].before = e.prev
<1> SUFFICES ASSUME req[q].pc = "push"
             PROVE  LET e == req[q].entry
                    IN /\ e.prevSeq + 1 = e.seq
                       /\ origin'[e.rec][e.seq].id = e.id
                            => origin'[e.rec][e.seq].before = e.prev
  OBVIOUS
<1> DEFINE e == req[q].entry
<1>1. e \in Entries /\ e.rec \in Records /\ e.seq \in Steps /\ e.id \in Nat
  BY DEF TypeOK, RequestStates, Entries, Steps
<1>2. e.id <= clock /\ clock \in Nat
  BY DEF SerialInv, Held, TypeOK, Steps
<1>3. /\ e.prevSeq + 1 = e.seq
      /\ origin[e.rec][e.seq].id = e.id => origin[e.rec][e.seq].before = e.prev
  BY DEF SerialInv, PushedSnapshotsExact
<1>4. QED
  BY <1>1, <1>2, <1>3

\* With serialized transactions, every step preserves the invariant.
LEMMA StepSerial ==
  ASSUME Serializable
  PROVE  TypeOK /\ SerialInv /\ [Next]_vars => SerialInv'
<1> SUFFICES ASSUME TypeOK, SerialInv, [Next]_vars PROVE SerialInv'
  OBVIOUS
<1> USE ConstantsAssumption
<1>j. \A a \in Staff : \A e \in journal[a] : KeptSound(e)
  BY DEF SerialInv, KeptSound
<1>1. ASSUME NEW q \in Requests, NEW a \in Staff, NEW r \in Records, NEW op \in Ops,
             Check(q, a, r, op)
      PROVE  SerialInv'
  <2>1. req'[q].pc = "checked" /\ \A p \in Requests \ {q} : req'[p] = req[p]
    BY <1>1 DEF Check, Become, TypeOK
  <2>2. ~InTx(q)' /\ ReadsAreCurrent(q)' /\ Held(q)' = {}
    BY <2>1 DEF InTx, ReadsAreCurrent, Held
  <2>3. QED
    BY <1>1, <1>j, <2>1, <2>2, QuietStep DEF Check
<1>2. ASSUME NEW q \in Requests, ReadRecord(q) PROVE SerialInv'
  <2>1. req'[q].pc = "read" /\ \A p \in Requests \ {q} : req'[p] = req[p] /\ ~InTx(p)
    BY <1>2 DEF ReadRecord, MayEnterTx, Become, TypeOK
  <2>2. ReadsAreCurrent(q)' /\ Held(q)' = {}
    BY <1>2, <2>1 DEF ReadRecord, Become, TypeOK, ReadsAreCurrent, Held, Live
  <2>3. QED
    BY <1>2, <1>j, <2>1, <2>2, QuietStep DEF ReadRecord
<1>3. ASSUME NEW q \in Requests, Snapshot(q) PROVE SerialInv'
  <2>1. req'[q].pc = "snapped" /\ \A p \in Requests \ {q} : req'[p] = req[p] /\ ~InTx(p)
    BY <1>3 DEF Snapshot, Become, TypeOK, SerialInv, InTx
  <2>2. ReadsAreCurrent(q) /\ req[q].rec \in Records
    BY <1>3 DEF SerialInv, TypeOK, RequestStates, Snapshot
  <2>3. ReadsAreCurrent(q)' /\ Held(q)' = {}
    BY <1>3, <2>1, <2>2 DEF Snapshot, Become, TypeOK, ReadsAreCurrent, Held, Live, State
  <2>4. QED
    BY <1>3, <1>j, <2>1, <2>3, QuietStep DEF Snapshot
<1>5. ASSUME NEW q \in Requests, NEW a \in Staff, NEW r \in Records, FindLatest(q, a, r)
      PROVE  SerialInv'
  <2>1. PICK e \in Latest(a, r) : req' = [req EXCEPT ![q] = [pc |-> "found", entry |-> e]]
    BY <1>5 DEF FindLatest, Become
  <2>2. KeptSound(e)
    BY <2>1, <1>j DEF Latest
  <2>3. /\ req'[q] = [pc |-> "found", entry |-> e]
        /\ \A p \in Requests \ {q} : req'[p] = req[p]
    BY <2>1 DEF TypeOK
  <2>4. ~InTx(q)' /\ ReadsAreCurrent(q)' /\ Held(q)' = {e}
    BY <2>3 DEF InTx, ReadsAreCurrent, Held
  <2>5. QED
    BY <1>5, <1>j, <2>2, <2>3, <2>4, QuietStep DEF FindLatest
<1>6. ASSUME NEW q \in Requests, Match(q) PROVE SerialInv'
  <2>1. /\ req'[q] = [pc |-> "matched", entry |-> req[q].entry]
        /\ \A p \in Requests \ {q} : req'[p] = req[p] /\ ~InTx(p)
    BY <1>6 DEF Match, MayEnterTx, Become, TypeOK
  <2>2. ReadsAreCurrent(q)' /\ Held(q)' = Held(q)
    BY <1>6, <2>1 DEF Match, ReadsAreCurrent, Held, Live, Superseded
  <2>3. \A e \in Held(q) : KeptSound(e)
    BY DEF SerialInv, KeptSound
  <2>4. QED
    BY <1>6, <1>j, <2>1, <2>2, <2>3, QuietStep DEF Match
<1>7. ASSUME NEW q \in Requests, PushFails(q) \/ ConsumeFails(q) \/ Fail(q)
      PROVE  SerialInv'
  <2>1. req'[q] = Idle /\ \A p \in Requests \ {q} : req'[p] = req[p]
    BY <1>7 DEF PushFails, ConsumeFails, Fail, Become, TypeOK
  <2>2. ~InTx(q)' /\ ReadsAreCurrent(q)' /\ Held(q)' = {} /\ req'[q].pc # "push"
    BY <2>1 DEF InTx, ReadsAreCurrent, Held, Idle
  <2>3. QED
    BY <1>7, <1>j, <2>1, <2>2, QuietStep DEF PushFails, ConsumeFails, Fail
<1>8. ASSUME NEW q \in Requests, Push(q) \/ Consume(q) PROVE SerialInv'
  <2>1. req'[q] = Idle /\ \A p \in Requests \ {q} : req'[p] = req[p]
    BY <1>8 DEF Push, Consume, Become, TypeOK
  <2>2. ~InTx(q)' /\ ReadsAreCurrent(q)' /\ Held(q)' = {} /\ req'[q].pc # "push"
    BY <2>1 DEF InTx, ReadsAreCurrent, Held, Idle
  <2>3. \A e \in Held(q) : KeptSound(e)
    BY DEF SerialInv, KeptSound
  <2>4. \A a \in Staff : \A e \in journal'[a] : KeptSound(e)
    BY <1>8, <1>j, <2>3 DEF Push, Consume, Held, TypeOK
  <2>5. QED
    BY <1>8, <2>1, <2>2, <2>4, QuietStep DEF Push, Consume
<1>9. ASSUME NEW q \in Requests, NEW r \in Records, BeginDelete(q, r) PROVE SerialInv'
  <2>1. /\ req'[q] = [pc |-> "deleting", rec |-> r, seen |-> side[r]]
        /\ \A p \in Requests \ {q} : req'[p] = req[p] /\ ~InTx(p)
    BY <1>9 DEF BeginDelete, MayEnterTx, Become, TypeOK
  <2>2. ReadsAreCurrent(q)' /\ Held(q)' = {}
    BY <1>9, <2>1 DEF BeginDelete, ReadsAreCurrent, Held, Live
  <2>3. QED
    BY <1>9, <1>j, <2>1, <2>2, QuietStep DEF BeginDelete
<1>k. \A p \in Requests : \A e \in Held(p) : KeptSound(e)
  BY DEF SerialInv, KeptSound
<1>l. ASSUME NEW q \in Requests, InTx(q) PROVE \A p \in Requests \ {q} : ~InTx(p)
  BY <1>l DEF SerialInv
<1>10. ASSUME NEW q \in Requests, Commit(q) PROVE SerialInv'
  <2>1. clock' = clock + 1 /\ clock \in Nat /\ clock + 1 \in Steps /\ journal' = journal
    BY <1>10 DEF Commit, TypeOK, Steps
  <2>2. PICK r \in Records, a \in Staff, op \in Ops :
          req[q].rec = r /\ req[q].by = a /\ req[q].op = op
    BY <1>10 DEF Commit, TypeOK, RequestStates
  <2>3. PICK n \in Steps : n = NextSeq(r) /\ n = row[r].seq + 1
    BY <2>1 DEF TypeOK, NextSeq, Rows, Steps
  <2>4. PICK b : b = State(r)
    OBVIOUS
  <2>5. Live(r) /\ req[q].prev = b /\ req[q].prevSeq = row[r].seq /\ Sound(b)
    BY <1>10, <2>2, <2>4 DEF Commit, SerialInv, ReadsAreCurrent
  <2>6. PICK e \in Entries :
          e = [id |-> clock + 1, rec |-> r, by |-> a, prevSeq |-> row[r].seq,
               seq |-> n, prev |-> b]
    BY <1>10, <2>1, <2>2, <2>5 DEF Entries, TypeOK, RequestStates, Rows, Commit
  <2>7. req'[q] = [pc |-> "push", entry |-> e] /\ \A p \in Requests \ {q} : req'[p] = req[p]
    BY <1>10, <2>2, <2>3, <2>5, <2>6 DEF Commit, Become, TypeOK
  <2>8. /\ row'[r].status = IF op = "update" THEN row[r].status ELSE To[op]
        /\ \A x \in Records \ {r} : row'[x] = row[x] /\ side'[x] = side[x]
    BY <1>10, <2>2 DEF Commit, TypeOK
  <2>9. \A p \in Requests : ~InTx(p)'
    BY <1>10, <1>l, <2>7 DEF Commit, InTx
  <2>10. \A f \in Entries : KeptSound(f) => KeptSound(f)'
    BY <2>1 DEF KeptSound, Sound, Backed, Entries, Steps
  <2>11. \A p \in Requests : \A f \in Held(p)' : KeptSound(f)'
    <3>1. \A p \in Requests : \A f \in Held(p)' : f = e \/ f \in Held(p)
      BY <2>7 DEF Held
    <3>2. \A p \in Requests : Held(p) \subseteq Entries
      BY DEF Held, TypeOK, RequestStates
    <3>3. KeptSound(e)'
      BY <2>1, <2>5, <2>6 DEF KeptSound, Sound, Backed
    <3>4. QED
      BY <1>k, <2>10, <3>1, <3>2, <3>3
  <2>12. \A c \in Staff : \A f \in journal'[c] : KeptSound(f)'
    BY <1>j, <2>1, <2>10 DEF TypeOK
  <2>13. \A x \in Records : Live(x)' => Sound(State(x))'
    <3>1. Sound(State(r))'
      BY <1>10, <2>2, <2>4, <2>5, CommitSound DEF Sound, Backed
    <3>2. ASSUME NEW x \in Records \ {r}, Live(x)' PROVE Sound(State(x))'
      <4>1. Live(x) /\ Sound(State(x))
        BY <2>8, <3>2 DEF Live, SerialInv
      <4>2. State(x)' = State(x)
        BY <2>8 DEF State
      <4>3. QED
        BY <4>1, <4>2 DEF Sound, Backed
    <3>3. QED
      BY <3>1, <3>2
  <2>14. DeletedLeavesNoRows'
    <3>1. Live(r)'
      BY <2>5, <2>8 DEF Live, To, Ops
    <3>2. QED
      BY <2>8, <3>1 DEF DeletedLeavesNoRows, SerialInv, Live
  <2>15. PushedSnapshotsExact'
    <3>1. origin' = [origin EXCEPT ![r][n] = [id |-> clock + 1, by |-> a, before |-> b]]
      BY <1>10, <2>2, <2>3, <2>4 DEF Commit, Origin
    <3>2. origin'[r][n].before = b
      BY <3>1 DEF TypeOK
    <3>3. \A x \in Records : \A m \in Steps :
            origin'[x][m] = origin[x][m] \/ origin'[x][m].id = clock + 1
      BY <3>1 DEF TypeOK
    <3>4. \A p \in Requests \ {q} : req'[p].pc = "push" =>
            LET f == req'[p].entry
            IN /\ f.prevSeq + 1 = f.seq
               /\ origin'[f.rec][f.seq].id = f.id => origin'[f.rec][f.seq].before = f.prev
      BY <2>1, <2>7, <3>3, PushesStay
    <3>5. e.prevSeq + 1 = e.seq /\ origin'[e.rec][e.seq].before = e.prev
      BY <2>3, <2>6, <3>2
    <3>6. QED
      BY <2>7, <3>4, <3>5 DEF PushedSnapshotsExact
  <2>16. QED
    BY <2>9, <2>11, <2>12, <2>13, <2>14, <2>15, WriteStep
<1>11. ASSUME NEW q \in Requests, Restore(q) PROVE SerialInv'
  <2> DEFINE e == req[q].entry
  <2>1. /\ e \in Entries /\ e.rec \in Records /\ e.prev \in Snapshots
        /\ KeptSound(e) /\ clock' = clock
    BY <1>11, <1>k DEF Restore, TypeOK, RequestStates, Held, Entries
  <2>2. /\ req'[q] = [pc |-> "consume", entry |-> e]
        /\ \A p \in Requests \ {q} : req'[p] = req[p]
    BY <1>11 DEF Restore, Become, TypeOK
  <2>3. \A p \in Requests : ~InTx(p)'
    BY <1>11, <1>l, <2>2 DEF Restore, InTx
  <2>4. \A p \in Requests : \A f \in Held(p)' : KeptSound(f)'
    BY <1>k, <2>1, <2>2 DEF Held, KeptSound, Sound, Backed
  <2>5. \A a \in Staff : \A f \in journal'[a] : KeptSound(f)'
    BY <1>11, <1>j DEF Restore, KeptSound, Sound, Backed
  <2>6. \A x \in Records : Live(x)' => Sound(State(x))'
    <3>1. row'[e.rec].status = e.prev.status /\ side'[e.rec] = e.prev.side
      BY <1>11, <2>1 DEF Restore, TypeOK
    <3>2. \A x \in Records \ {e.rec} : row'[x] = row[x] /\ side'[x] = side[x]
      BY <1>11, <2>1 DEF Restore, TypeOK
    <3>3. QED
      BY <2>1, <3>1, <3>2 DEF SerialInv, KeptSound, Sound, Backed, State, Live
  <2>7. DeletedLeavesNoRows'
    BY <1>11, <2>1 DEF Restore, DeletedLeavesNoRows, SerialInv, Live, TypeOK, Snapshots,
                       Working, Finished
  <2>8. PushedSnapshotsExact'
    BY <1>11, <2>2 DEF Restore, SerialInv, PushedSnapshotsExact
  <2>9. QED
    BY <2>3, <2>4, <2>5, <2>6, <2>7, <2>8, WriteStep
<1>12. ASSUME NEW q \in Requests, FinishDelete(q) PROVE SerialInv'
  <2> DEFINE r == req[q].rec
  <2>1. r \in Records /\ Live(r) /\ req[q].seen = side[r] /\ clock' = clock
    BY <1>12 DEF FinishDelete, TypeOK, RequestStates, SerialInv, ReadsAreCurrent
  <2>2. req'[q] = Idle /\ \A p \in Requests \ {q} : req'[p] = req[p]
    BY <1>12 DEF FinishDelete, Become, TypeOK
  <2>3. \A p \in Requests : ~InTx(p)'
    BY <1>12, <1>l, <2>2 DEF FinishDelete, InTx, Idle
  <2>4. \A p \in Requests : \A f \in Held(p)' : KeptSound(f)'
    BY <1>k, <2>1, <2>2 DEF Held, KeptSound, Sound, Backed, Idle
  <2>5. \A a \in Staff : \A f \in journal'[a] : KeptSound(f)'
    BY <1>12, <1>j DEF FinishDelete, KeptSound, Sound, Backed
  <2>6. row'[r].status = "deleted" /\ side'[r] = Remaining(side[r], side[r])
    BY <1>12, <2>1 DEF FinishDelete, TypeOK, Rows
  <2>7. \A x \in Records \ {r} : row'[x] = row[x] /\ side'[x] = side[x]
    BY <1>12, <2>1 DEF FinishDelete, TypeOK
  <2>8. side'[r] = NoSides
    <3>1. Sound(State(r)) /\ side[r] \in Sides /\ State(r).side = side[r]
      BY <2>1 DEF SerialInv, TypeOK, State
    <3>2. QED
      BY <2>6, <3>1 DEF Remaining, NoSides, Sound
  <2>9. \A x \in Records : Live(x)' => Sound(State(x))'
    BY <2>6, <2>7 DEF SerialInv, Sound, Backed, State, Live
  <2>10. DeletedLeavesNoRows'
    BY <2>7, <2>8 DEF DeletedLeavesNoRows, SerialInv, Live
  <2>11. PushedSnapshotsExact'
    BY <1>12, <2>2 DEF FinishDelete, SerialInv, PushedSnapshotsExact, Idle
  <2>12. QED
    BY <2>3, <2>4, <2>5, <2>9, <2>10, <2>11, WriteStep
<1>13. ASSUME NEW a \in Staff, SlideWindow(a) PROVE SerialInv'
  <2>1. \A b \in Staff : journal'[b] \subseteq journal[b]
    BY <1>13 DEF SlideWindow, TypeOK
  <2>2. QED
    BY ZenonT(30), <1>13, <2>1 DEF SlideWindow, SerialInv, InTx, ReadsAreCurrent, Held, Live, State,
         Superseded, Sound, Backed, DeletedLeavesNoRows, PushedSnapshotsExact
<1>14. ASSUME NEW r \in Records, DayEnds(r) PROVE SerialInv'
  BY ZenonT(30), <1>14 DEF DayEnds, SerialInv, InTx, ReadsAreCurrent, Held, Live, State,
       Superseded, Sound, Backed, DeletedLeavesNoRows, PushedSnapshotsExact
<1>15. ASSUME CloseExpired PROVE SerialInv'
  <2>1. clock' = clock + 1 /\ clock \in Nat /\ req' = req /\ journal' = journal
    BY <1>15 DEF CloseExpired, TypeOK, Steps
  <2>2. \A p \in Requests : ~InTx(p)'
    BY <1>15, <2>1 DEF CloseExpired, MayEnterTx, InTx
  <2>3. \A f \in Entries : KeptSound(f) => KeptSound(f)'
    BY <2>1 DEF KeptSound, Sound, Backed, Entries, Steps
  <2>4. \A p \in Requests : \A f \in Held(p)' : KeptSound(f)'
    BY <1>k, <2>1, <2>3 DEF Held, TypeOK, RequestStates
  <2>5. \A a \in Staff : \A f \in journal'[a] : KeptSound(f)'
    BY <1>j, <2>1, <2>3 DEF TypeOK
  <2>6. \A x \in Records : Live(x)' <=> Live(x)
    BY <1>15 DEF CloseExpired, Live
  <2>7. \A x \in Records : Live(x)' => Sound(State(x))'
    BY <1>15, <2>6, CloseExpiredSound DEF SerialInv, Sound, Backed
  <2>8. DeletedLeavesNoRows'
    BY <1>15, <2>6 DEF CloseExpired, DeletedLeavesNoRows, SerialInv, NoSides
  <2>9. \A x \in Records : \A n \in Steps :
          origin'[x][n] = origin[x][n] \/ origin'[x][n].id = clock + 1
    BY <1>15 DEF CloseExpired, Origin, TypeOK
  <2>10. PushedSnapshotsExact'
    BY <2>1, <2>9, PushesStay DEF PushedSnapshotsExact
  <2>11. QED
    BY <2>2, <2>4, <2>5, <2>7, <2>8, <2>10, WriteStep
<1>16. CASE UNCHANGED vars
  BY <1>16 DEF vars, SerialInv, InTx, ReadsAreCurrent, Held, Live, State,
       Superseded, Sound, Backed, DeletedLeavesNoRows, PushedSnapshotsExact
<1>17. QED
  BY <1>1, <1>2, <1>3, <1>5, <1>6, <1>7, <1>8, <1>9, <1>10, <1>11, <1>12, <1>13,
     <1>14, <1>15, <1>16 DEF Next

\* With serialized transactions, and any number of requests, reverts, deletes and
\* cleanups interleaved in any order, a record's status is always backed by its
\* side rows.
THEOREM SerializedStatusBacked ==
  ASSUME Serializable PROVE Spec => []StatusBackedByRows
<1>1. SerialInv => StatusBackedByRows
  BY DEF SerialInv, StatusBackedByRows, Sound
<1>2. QED
  BY <1>1, InitType, StepType, InitSerial, StepSerial, PTL DEF Spec

\* ... a deleted ticket leaves no side row behind.
THEOREM SerializedDeleteComplete ==
  ASSUME Serializable PROVE Spec => []DeletedLeavesNoRows
<1>1. SerialInv => DeletedLeavesNoRows
  BY DEF SerialInv
<1>2. QED
  BY <1>1, InitType, StepType, InitSerial, StepSerial, PTL DEF Spec

\* ... and the journal is told exactly what the record was before the action.
THEOREM SerializedSnapshotsExact ==
  ASSUME Serializable PROVE Spec => []PushedSnapshotsExact
<1>1. SerialInv => PushedSnapshotsExact
  BY DEF SerialInv
<1>2. QED
  BY <1>1, InitType, StepType, InitSerial, StepSerial, PTL DEF Spec

\* ... and serialized transactions do what the name says: they exclude each other,
\* what one has read is what it overwrites, and whatever a revert may write back
\* is backed by its side rows.
THEOREM SerializedTransactionsIsolated ==
  ASSUME Serializable PROVE Spec => []SerialInv
  BY InitType, StepType, InitSerial, StepSerial, PTL DEF Spec
-----------------------------------------------------------------------------
(***************************************************************************)
(* One request at a time, on either database.  The nightly cleanup, the    *)
(* end of a day and the loss of journal entries still come in anywhere,    *)
(* and under READ COMMITTED the cleanup comes in between the statements of *)
(* a transaction, so that a snapshot may be torn: its status is the one    *)
(* before the cleanup and its side rows are those after it.  The argument: *)
(* the cleanup never takes a side row or an approver away, so even a torn  *)
(* snapshot is whole.                                                      *)
(***************************************************************************)

\* One request at a time.
OneAtATime == \A p, q \in Requests : p = q

Approved(s) ==
  s.status \in {"confirmed", "arrived", "in_progress", "completed", "rejected", "referred"}
    => s.approver # Nobody

Whole(s) == Sound(s) /\ Approved(s)

\* What holds of a request between two of its steps: an action that keeps the
\* approver finds one, what it has read is whole together with the side rows there
\* are now, and a delete has seen every side row.
InFlight(q) ==
  LET t == req[q]
  IN /\ t.pc \in {"checked", "read", "snapped"} /\ t.op \in {"arrive", "in_progress", "complete"}
          => row[t.rec].approver # Nobody
     /\ t.pc = "read" =>
          Whole([status |-> t.status, approver |-> t.approver, side |-> side[t.rec]])
     /\ t.pc = "snapped" => Whole(t.prev)
     /\ t.pc = "deleting" => /\ Live(t.rec)
                             /\ [side[t.rec] EXCEPT !.finish = 0] = [t.seen EXCEPT !.finish = 0]

AloneInv ==
  /\ \A r \in Records : Live(r) => Whole(State(r))
  /\ DeletedLeavesNoRows
  /\ \A a \in Staff : \A e \in journal[a] : Whole(e.prev)
  /\ \A q \in Requests : \A e \in Held(q) : Whole(e.prev)
  /\ \A q \in Requests : InFlight(q)

LEMMA InitAlone == Init => AloneInv
  BY ConstantsAssumption
  DEF Init, AloneInv, InFlight, Held, Idle, Live, Whole, Sound, Backed, Approved, State,
      NoSides, DeletedLeavesNoRows

\* A step of the request that changes neither records nor side rows keeps the
\* invariant if what it holds afterwards, and what is in the journal, is whole.
LEMMA AloneQuiet ==
  ASSUME OneAtATime, AloneInv, NEW q \in Requests, row' = row, side' = side,
         \A a \in Staff : \A e \in journal'[a] : Whole(e.prev),
         \A e \in Held(q)' : Whole(e.prev),
         InFlight(q)'
  PROVE  AloneInv'
<1>1. \A p \in Requests : p = q
  BY DEF OneAtATime
<1>2. \A s : Whole(s)' <=> Whole(s)
  BY DEF Whole, Sound, Backed, Approved
<1>3. \A r \in Records : Live(r)' => Whole(State(r))'
  BY <1>2 DEF AloneInv, Live, State, Whole, Sound, Backed, Approved
<1>4. DeletedLeavesNoRows'
  BY DEF AloneInv, DeletedLeavesNoRows, Live
<1>5. \A a \in Staff : \A e \in journal'[a] : Whole(e.prev)'
  BY DEF Whole, Sound, Backed, Approved
<1>6. \A p \in Requests : \A e \in Held(p)' : Whole(e.prev)'
  BY <1>1 DEF Whole, Sound, Backed, Approved
<1> QED BY <1>1, <1>3, <1>4, <1>5, <1>6 DEF AloneInv

\* The writes of a handler name an approver whenever the status needs one.
LEMMA CommitApproved ==
  ASSUME TypeOK, NEW q \in Requests, NEW r \in Records, Commit(q), req[q].rec = r, InFlight(q),
         Approved(State(r))
  PROVE  Approved(State(r)')
<1>1. PICK a \in Staff, op \in Ops : req[q].by = a /\ req[q].op = op /\ req[q].pc = "snapped"
  BY DEF Commit, TypeOK, RequestStates
<1>2. /\ row'[r].status = IF op = "update" THEN row[r].status ELSE To[op]
      /\ row'[r].approver = IF op \in {"confirm", "reject", "refer"} THEN a ELSE row[r].approver
  BY <1>1 DEF Commit, TypeOK, ApproverAfter
<1>3. op \in {"arrive", "in_progress", "complete"} => row[r].approver # Nobody
  BY <1>1 DEF InFlight
<1>4. op = "no_show" => To[op] = "no_show"
  BY DEF To, Ops
<1>5. op \in {"confirm", "reject", "refer", "arrive", "in_progress", "complete", "no_show", "update"}
  BY <1>1 DEF Ops
<1> QED BY <1>1, <1>2, <1>3, <1>4, <1>5, ConstantsAssumption DEF Approved, State

\* The cleanup leaves a record that is whole, and only adds to finish times.
LEMMA CloseExpiredKeeps ==
  ASSUME TypeOK, CloseExpired, NEW r \in Records
  PROVE  /\ row'[r].approver = row[r].approver
         /\ Live(r)' <=> Live(r)
         /\ Approved(State(r)) => Approved(State(r)')
         /\ side'[r] \in {side[r], [side[r] EXCEPT !.finish = clock + 1]}
         /\ side[r].worker = NoRow => side'[r] = side[r]
<1>1. \/ row'[r].status = row[r].status
      \/ row'[r].status = "no_show" /\ row[r].status # "deleted"
      \/ row'[r].status = "completed" /\ row[r].status = "in_progress"
  BY DEF CloseExpired
<1>2. row'[r].approver = row[r].approver
  BY DEF CloseExpired
<1>3. /\ side'[r] \in {side[r], [side[r] EXCEPT !.finish = clock + 1]}
      /\ side[r].worker = NoRow => side'[r] = side[r]
  BY DEF CloseExpired
<1>4. State(r).status = row[r].status /\ State(r).approver = row[r].approver
      /\ State(r)'.status = row'[r].status /\ State(r)'.approver = row'[r].approver
  BY DEF State
<1> QED BY <1>1, <1>2, <1>3, <1>4 DEF Approved, Live

LEMMA StepAlone ==
  ASSUME OneAtATime
  PROVE  TypeOK /\ AloneInv /\ [Next]_vars => AloneInv'
<1> SUFFICES ASSUME TypeOK, AloneInv, [Next]_vars PROVE AloneInv'
  OBVIOUS
<1> USE ConstantsAssumption
<1>j. \A a \in Staff : \A e \in journal[a] : Whole(e.prev)
  BY DEF AloneInv
<1>k. \A p \in Requests : \A e \in Held(p) : Whole(e.prev)
  BY DEF AloneInv
<1>p. \A s : Whole(s)' <=> Whole(s)
  BY DEF Whole, Sound, Backed, Approved
<1>1. ASSUME NEW q \in Requests, NEW a \in Staff, NEW r \in Records, NEW op \in Ops,
             Check(q, a, r, op)
      PROVE  AloneInv'
  <2>1. req'[q] = [pc |-> "checked", by |-> a, rec |-> r, op |-> op] /\ row[r].status \in From[op]
    BY <1>1 DEF Check, Become, TypeOK
  <2>2. op \in {"arrive", "in_progress", "complete"} => row[r].approver # Nobody
    <3>1. op \in {"arrive", "in_progress", "complete"} =>
            row[r].status \in {"confirmed", "arrived", "in_progress"}
      BY <2>1 DEF From, Ops
    <3>2. row[r].status \in {"confirmed", "arrived", "in_progress"} => row[r].approver # Nobody
      BY DEF AloneInv, Live, Whole, Approved, State
    <3> QED BY <3>1, <3>2
  <2>3. InFlight(q)' /\ Held(q)' = {}
    BY <1>1, <2>1, <2>2 DEF Check, InFlight, Held
  <2> QED BY <1>1, <1>j, <2>3, AloneQuiet DEF Check
<1>2. ASSUME NEW q \in Requests, ReadRecord(q) PROVE AloneInv'
  <2>1. PICK r \in Records : req[q].rec = r
    BY <1>2 DEF ReadRecord, TypeOK, RequestStates
  <2>2. /\ req'[q] = [pc |-> "read", by |-> req[q].by, rec |-> r, op |-> req[q].op,
                      prevSeq |-> row[r].seq, status |-> row[r].status, approver |-> row[r].approver]
        /\ req[q].pc = "checked" /\ Live(r)
    BY <1>2, <2>1 DEF ReadRecord, Become, TypeOK
  <2>3. Whole([status |-> row[r].status, approver |-> row[r].approver, side |-> side[r]])
    BY <2>2 DEF AloneInv, State
  <2>4. InFlight(q)' /\ Held(q)' = {}
    <3>1. req[q].op \in {"arrive", "in_progress", "complete"} => row[r].approver # Nobody
      BY <2>1, <2>2 DEF AloneInv, InFlight
    <3> QED BY <1>2, <2>2, <2>3, <3>1, <1>p DEF ReadRecord, InFlight, Held, Whole, Sound, Backed, Approved
  <2> QED BY <1>2, <1>j, <2>4, AloneQuiet DEF ReadRecord
<1>3. ASSUME NEW q \in Requests, Snapshot(q) PROVE AloneInv'
  <2>1. PICK r \in Records : req[q].rec = r
    BY <1>3 DEF Snapshot, TypeOK, RequestStates
  <2> PICK b : b = [status |-> req[q].status, approver |-> req[q].approver, side |-> side[r]]
    OBVIOUS
  <2>2. /\ req'[q] = [pc |-> "snapped", by |-> req[q].by, rec |-> r, op |-> req[q].op,
                      prevSeq |-> req[q].prevSeq, prev |-> b]
        /\ req[q].pc = "read"
    BY <1>3, <2>1 DEF Snapshot, Become, TypeOK
  <2>3. Whole(b) /\ (req[q].op \in {"arrive", "in_progress", "complete"} => row[r].approver # Nobody)
    BY <2>1, <2>2 DEF AloneInv, InFlight
  <2>4. InFlight(q)' /\ Held(q)' = {}
    BY <1>3, <2>2, <2>3 DEF Snapshot, InFlight, Held, Whole, Sound, Backed, Approved
  <2> QED BY <1>3, <1>j, <2>4, AloneQuiet DEF Snapshot
<1>4. ASSUME NEW q \in Requests, NEW a \in Staff, NEW r \in Records, FindLatest(q, a, r)
      PROVE  AloneInv'
  <2>1. PICK e \in journal[a] : req'[q] = [pc |-> "found", entry |-> e]
    BY <1>4 DEF FindLatest, Become, Latest, TypeOK
  <2>2. InFlight(q)' /\ Held(q)' = {e}
    BY <2>1 DEF InFlight, Held
  <2> QED BY <1>4, <1>j, <2>2, AloneQuiet DEF FindLatest
<1>5. ASSUME NEW q \in Requests, Match(q) PROVE AloneInv'
  <2>1. req'[q] = [pc |-> "matched", entry |-> req[q].entry] /\ req[q].pc = "found"
    BY <1>5 DEF Match, Become, TypeOK
  <2>2. InFlight(q)' /\ Held(q)' = Held(q)
    BY <2>1 DEF InFlight, Held
  <2> QED BY <1>5, <1>j, <1>k, <2>2, AloneQuiet DEF Match
<1>6. ASSUME NEW q \in Requests, PushFails(q) \/ ConsumeFails(q) \/ Fail(q) \/ Push(q) \/ Consume(q)
      PROVE  AloneInv'
  <2>1. req'[q] = Idle
    BY <1>6 DEF PushFails, ConsumeFails, Fail, Push, Consume, Become, TypeOK
  <2>2. InFlight(q)' /\ Held(q)' = {}
    BY <2>1 DEF InFlight, Held, Idle
  <2>3. \A a \in Staff : \A e \in journal'[a] : e \in journal[a] \/ e \in Held(q)
    BY <1>6 DEF PushFails, ConsumeFails, Fail, Push, Consume, Held, TypeOK
  <2>4. row' = row /\ side' = side
    BY <1>6 DEF PushFails, ConsumeFails, Fail, Push, Consume
  <2> QED BY <1>j, <1>k, <2>2, <2>3, <2>4, AloneQuiet
<1>7. ASSUME NEW q \in Requests, NEW r \in Records, BeginDelete(q, r) PROVE AloneInv'
  <2>1. req'[q] = [pc |-> "deleting", rec |-> r, seen |-> side[r]]
    BY <1>7 DEF BeginDelete, Become, TypeOK
  <2>2. InFlight(q)' /\ Held(q)' = {}
    BY <1>7, <2>1 DEF BeginDelete, InFlight, Held, Live
  <2> QED BY <1>7, <1>j, <2>2, AloneQuiet DEF BeginDelete
<1>8. ASSUME NEW q \in Requests, Commit(q) PROVE AloneInv'
  <2>1. PICK r \in Records : req[q].rec = r /\ Live(r)
    BY <1>8 DEF Commit, TypeOK, RequestStates
  <2>2. Whole(State(r)) /\ InFlight(q) /\ Whole(req[q].prev)
    BY <1>8, <2>1 DEF Commit, AloneInv, InFlight
  <2>3. Whole(State(r)')
    BY <1>8, <2>1, <2>2, CommitSound, CommitApproved DEF Whole
  <2>4. \A x \in Records \ {r} : row'[x] = row[x] /\ side'[x] = side[x]
    BY <1>8, <2>1 DEF Commit, TypeOK
  <2>5. \A x \in Records \ {r} : (Live(x)' <=> Live(x)) /\ State(x)' = State(x)
    BY <2>4 DEF Live, State
  <2>6. Live(r)'
    <3>1. PICK op \in Ops : req[q].op = op
      BY <1>8 DEF Commit, TypeOK, RequestStates
    <3>2. row'[r].status = IF op = "update" THEN row[r].status ELSE To[op]
      BY <1>8, <2>1, <3>1 DEF Commit, TypeOK
    <3>3. op # "update" => To[op] # "deleted"
      BY DEF To, Ops
    <3> QED BY <2>1, <3>2, <3>3 DEF Live
  <2>7. \A x \in Records : Live(x)' => Whole(State(x)')
    BY <2>3, <2>5 DEF AloneInv
  <2>8. DeletedLeavesNoRows'
    BY <2>4, <2>5, <2>6 DEF AloneInv, DeletedLeavesNoRows
  <2>9. req'[q].pc = "push" /\ req'[q].entry.prev = req[q].prev /\ journal' = journal
    BY <1>8 DEF Commit, Become, TypeOK
  <2>10. InFlight(q)' /\ \A e \in Held(q)' : Whole(e.prev)
    BY <2>2, <2>9 DEF InFlight, Held
  <2>11. \A p \in Requests : p = q
    BY DEF OneAtATime
  <2> QED BY <1>j, <2>7, <2>8, <2>9, <2>10, <2>11 DEF AloneInv, Whole, Sound, Backed, Approved
<1>9. ASSUME NEW q \in Requests, Restore(q) PROVE AloneInv'
  <2>1. PICK e \in Entries : e = req[q].entry /\ Held(q) = {e}
    BY <1>9 DEF Restore, Held, TypeOK, RequestStates
  <2>2. Whole(e.prev) /\ e.rec \in Records /\ e.prev \in Snapshots /\ Live(e.rec)
    BY <1>9, <1>k, <2>1 DEF Restore, Entries
  <2>3. State(e.rec)' = e.prev
    <3>1. /\ row'[e.rec].status = e.prev.status /\ row'[e.rec].approver = e.prev.approver
          /\ side'[e.rec] = e.prev.side
      BY <1>9, <2>1, <2>2 DEF Restore, TypeOK
    <3>2. e.prev = [status |-> e.prev.status, approver |-> e.prev.approver, side |-> e.prev.side]
      BY <2>2 DEF Snapshots
    <3> QED BY <3>1, <3>2 DEF State
  <2>4. \A x \in Records \ {e.rec} : row'[x] = row[x] /\ side'[x] = side[x]
    BY <1>9, <2>1 DEF Restore, TypeOK
  <2>5. \A x \in Records \ {e.rec} : (Live(x)' <=> Live(x)) /\ State(x)' = State(x)
    BY <2>4 DEF Live, State
  <2>6. Live(e.rec)'
    BY <2>2, <2>3 DEF State, Live, Snapshots, Working, Finished
  <2>7. \A x \in Records : Live(x)' => Whole(State(x)')
    BY <2>2, <2>3, <2>5 DEF AloneInv
  <2>8. DeletedLeavesNoRows'
    BY <2>4, <2>5, <2>6 DEF AloneInv, DeletedLeavesNoRows
  <2>9. req'[q] = [pc |-> "consume", entry |-> e] /\ journal' = journal
    BY <1>9, <2>1 DEF Restore, Become, TypeOK
  <2>10. InFlight(q)' /\ \A f \in Held(q)' : Whole(f.prev)
    BY <2>2, <2>9 DEF InFlight, Held
  <2>11. \A p \in Requests : p = q
    BY DEF OneAtATime
  <2> QED BY <1>j, <2>7, <2>8, <2>9, <2>10, <2>11 DEF AloneInv, Whole, Sound, Backed, Approved
<1>10. ASSUME NEW q \in Requests, FinishDelete(q) PROVE AloneInv'
  <2>1. PICK r \in Records, s \in Sides : req[q].rec = r /\ req[q].seen = s
    BY <1>10 DEF FinishDelete, TypeOK, RequestStates
  <2>2. Live(r) /\ [side[r] EXCEPT !.finish = 0] = [s EXCEPT !.finish = 0]
    BY <1>10, <2>1 DEF FinishDelete, AloneInv, InFlight
  <2>3. row'[r].status = "deleted" /\ side'[r] = Remaining(side[r], s)
    BY <1>10, <2>1 DEF FinishDelete, TypeOK, Rows
  <2>4. \A x \in Records \ {r} : row'[x] = row[x] /\ side'[x] = side[x]
    BY <1>10, <2>1 DEF FinishDelete, TypeOK
  <2>5. side'[r] = NoSides
    <3>1. Sound(State(r)) /\ side[r] \in Sides /\ State(r).side = side[r]
      BY <2>2 DEF AloneInv, Whole, TypeOK, State
    <3>2. /\ side[r].arrival = s.arrival /\ side[r].worker = s.worker
          /\ side[r].rejection = s.rejection /\ side[r].referral = s.referral
      BY <2>2, <3>1 DEF Sides
    <3> QED BY <2>3, <3>1, <3>2 DEF Remaining, NoSides, Sound
  <2>6. \A x \in Records \ {r} : (Live(x)' <=> Live(x)) /\ State(x)' = State(x)
    BY <2>4 DEF Live, State
  <2>7. \A x \in Records : Live(x)' => Whole(State(x)')
    BY <2>3, <2>6 DEF AloneInv, Live
  <2>8. DeletedLeavesNoRows'
    BY <2>4, <2>5, <2>6 DEF AloneInv, DeletedLeavesNoRows
  <2>9. req'[q] = Idle /\ journal' = journal
    BY <1>10 DEF FinishDelete, Become, TypeOK
  <2>10. InFlight(q)' /\ Held(q)' = {}
    BY <2>9 DEF InFlight, Held, Idle
  <2>11. \A p \in Requests : p = q
    BY DEF OneAtATime
  <2> QED BY <1>j, <2>7, <2>8, <2>9, <2>10, <2>11 DEF AloneInv, Whole, Sound, Backed, Approved
<1>11. ASSUME NEW a \in Staff, SlideWindow(a) PROVE AloneInv'
  <2>1. \A b \in Staff : journal'[b] \subseteq journal[b]
    BY <1>11 DEF SlideWindow, TypeOK
  <2>2. row' = row /\ side' = side /\ req' = req
    BY <1>11 DEF SlideWindow
  <2>3. \A q \in Requests : InFlight(q)' /\ Held(q)' = Held(q)
    BY <2>2 DEF AloneInv, InFlight, Held, Live, Whole, Sound, Backed, Approved
  <2>4. \A r \in Records : Live(r)' => Whole(State(r))'
    BY <2>2 DEF AloneInv, Live, State, Whole, Sound, Backed, Approved
  <2> QED BY <1>j, <1>k, <2>1, <2>2, <2>3, <2>4
          DEF AloneInv, DeletedLeavesNoRows, Live, Whole, Sound, Backed, Approved
<1>12. ASSUME UNCHANGED <<row, side, journal, req>> PROVE AloneInv'
  <2>1. \A q \in Requests : InFlight(q)' /\ Held(q)' = Held(q)
    BY <1>12 DEF AloneInv, InFlight, Held, Live, Whole, Sound, Backed, Approved
  <2>2. \A r \in Records : Live(r)' => Whole(State(r))'
    BY <1>12 DEF AloneInv, Live, State, Whole, Sound, Backed, Approved
  <2> QED BY <1>12, <1>j, <1>k, <2>1, <2>2
          DEF AloneInv, DeletedLeavesNoRows, Live, Whole, Sound, Backed, Approved
<1>13. ASSUME CloseExpired PROVE AloneInv'
  <2>1. req' = req /\ journal' = journal
    BY <1>13 DEF CloseExpired
  <2>2. \A x \in Records : Live(x)' => Whole(State(x)')
    <3> SUFFICES ASSUME NEW x \in Records, Live(x)' PROVE Whole(State(x)')
      OBVIOUS
    <3>1. Live(x) /\ Whole(State(x)) /\ Approved(State(x)')
      BY <1>13, CloseExpiredKeeps DEF AloneInv, Whole
    <3> QED BY <1>13, <3>1, CloseExpiredSound DEF Whole
  <2>3. DeletedLeavesNoRows'
    BY <1>13, CloseExpiredKeeps DEF AloneInv, DeletedLeavesNoRows, NoSides
  <2>4. ASSUME NEW q \in Requests PROVE InFlight(q)'
    <3>1. CASE req[q].pc \in {"checked", "read", "snapped", "deleting"}
      <4>1. PICK r \in Records : req[q].rec = r
        BY <3>1 DEF TypeOK, RequestStates
      <4>2. /\ row'[r].approver = row[r].approver /\ (Live(r)' <=> Live(r))
            /\ side'[r] \in {side[r], [side[r] EXCEPT !.finish = clock + 1]}
            /\ side[r].worker = NoRow => side'[r] = side[r]
            /\ side[r] \in Sides
        BY <1>13, CloseExpiredKeeps DEF TypeOK
      <4>3. ASSUME req[q].pc = "read"
            PROVE  Whole([status |-> req[q].status, approver |-> req[q].approver, side |-> side'[r]])
        <5>1. Whole([status |-> req[q].status, approver |-> req[q].approver, side |-> side[r]])
          BY <4>1, <4>3 DEF AloneInv, InFlight
        <5>2. /\ side'[r].arrival = side[r].arrival /\ side'[r].worker = side[r].worker
              /\ side'[r].rejection = side[r].rejection /\ side'[r].referral = side[r].referral
              /\ side'[r].desc = side[r].desc
              /\ side[r].worker = NoRow => side'[r].finish = side[r].finish
          BY <4>2 DEF Sides
        <5> QED BY <5>1, <5>2 DEF Whole, Sound, Backed, Approved
      <4>4. [side'[r] EXCEPT !.finish = 0] = [side[r] EXCEPT !.finish = 0]
        BY <4>2 DEF Sides
      <4> QED BY <2>1, <4>1, <4>2, <4>3, <4>4 DEF AloneInv, InFlight, Whole, Sound, Backed, Approved
    <3>2. CASE req[q].pc \notin {"checked", "read", "snapped", "deleting"}
      BY <2>1, <3>2 DEF InFlight
    <3> QED BY <3>1, <3>2
  <2>5. \A q \in Requests : Held(q)' = Held(q)
    BY <2>1 DEF Held
  <2> QED BY <1>j, <1>k, <2>1, <2>2, <2>3, <2>4, <2>5 DEF AloneInv, Whole, Sound, Backed, Approved
<1>14. QED
  <2>1. (\E r \in Records : DayEnds(r)) \/ UNCHANGED vars => UNCHANGED <<row, side, journal, req>>
    BY DEF DayEnds, vars
  <2> QED BY <1>1, <1>2, <1>3, <1>4, <1>5, <1>6, <1>7, <1>8, <1>9, <1>10, <1>11, <1>12, <1>13, <2>1
          DEF Next

\* One request at a time, on either database, with the cleanup anywhere in between:
\* the status of a record is backed by its side rows.
THEOREM AloneStatusBacked ==
  ASSUME OneAtATime PROVE Spec => []StatusBackedByRows
<1>1. AloneInv => StatusBackedByRows
  BY DEF AloneInv, StatusBackedByRows, Whole, Sound
<1> QED BY <1>1, InitType, StepType, InitAlone, StepAlone, PTL DEF Spec

\* ... a deleted ticket leaves no side row behind.
THEOREM AloneDeleteComplete ==
  ASSUME OneAtATime PROVE Spec => []DeletedLeavesNoRows
<1>1. AloneInv => DeletedLeavesNoRows
  BY DEF AloneInv
<1> QED BY <1>1, InitType, StepType, InitAlone, StepAlone, PTL DEF Spec

\* ... and a record that left "pending" by an action has an approver.  The status is
\* tested before the transaction begins, so that this fails for two requests: a
\* record whose confirmation is reverted in between is marked as arrived.
THEOREM AloneApproved ==
  ASSUME OneAtATime PROVE Spec => []ApprovedOncePastPending
<1>1. AloneInv => ApprovedOncePastPending
  BY DEF AloneInv, ApprovedOncePastPending, Whole, Approved, State, Live
<1> QED BY <1>1, InitType, StepType, InitAlone, StepAlone, PTL DEF Spec
=============================================================================
