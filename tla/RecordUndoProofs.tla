-------------------------- MODULE RecordUndoProofs --------------------------
(***************************************************************************)
(* When transactions are serialized, a spent journal entry is always       *)
(* removed and no entry is being reverted by two requests at once, a       *)
(* revert undoes the newest change of its record and nothing else, however *)
(* staff actions, other reverts, deletes, the nightly cleanup, the loss of *)
(* entries and failed requests overlap: the records and their histories    *)
(* are the documents and stacks of UndoStack.                              *)
(***************************************************************************)
EXTENDS RecordActionsProofs

Reverting(q) == req[q].pc \in {"found", "matched", "consume"}

\* No two requests revert the same entry at once.
RevertsApart ==
  \A p, q \in Requests : p # q /\ Reverting(p) /\ Reverting(q) => req[p].entry # req[q].entry

\* An entry that is about to be pushed is nowhere else yet.
PushesFresh ==
  \A q \in Requests : req[q].pc = "push" =>
    /\ \A a \in Staff : req[q].entry \notin journal[a]
    /\ \A p \in Requests \ {q} : req[q].entry \notin Held(p)

LEMMA AloneApart == OneAtATime => RevertsApart
  BY DEF OneAtATime, RevertsApart

\* An entry a request holds is spent only if the request itself has spent it.
LEMMA HeldUnspent ==
  ASSUME RevertsApart, PushesFresh, NEW q \in Requests, req[q].pc # "consume", NEW e \in Held(q)
  PROVE  e \notin Spent
<1> SUFFICES ASSUME NEW p \in Requests, req[p].pc = "consume", req[p].entry = e PROVE FALSE
  BY DEF Spent
<1>1. p # q /\ e = req[q].entry /\ req[q].pc \in {"push", "found", "matched"}
  BY DEF Held
<1>2. e \in Held(p) /\ Reverting(p)
  BY DEF Held, Reverting
<1> QED BY <1>1, <1>2 DEF RevertsApart, PushesFresh, Reverting

\* Initially the journal is empty.
LEMMA InitHistory == Init => JournalIsHistory
  BY DEF Init, JournalIsHistory, Held, Idle

\* A step that moves no record keeps the invariant if the entries it leaves in
\* the journal and in its request are unspent ones that were there.
LEMMA QuietHistory ==
  ASSUME row' = row, origin' = origin,
         \A a \in Staff : \A e \in journal'[a] : e.by = a /\ (e \notin Spent' => Undoable(e)),
         \A p \in Requests : \A e \in Held(p)' \ Spent' : Undoable(e)
  PROVE  JournalIsHistory'
  BY DEF JournalIsHistory, Undoable

\* A record's next sequence number is newer than every entry's that can be undone.
LEMMA NextStaysUndoable ==
  ASSUME TypeOK, NEW e \in Entries, Undoable(e),
         row'[e.rec].seq = row[e.rec].seq \/ row'[e.rec].seq = row[e.rec].seq + 1,
         \A n \in Steps : n <= row[e.rec].seq => origin'[e.rec][n] = origin[e.rec][n]
  PROVE  Undoable(e)'
  BY DEF Undoable, Entries, TypeOK, Rows, Steps

\* Two entries that can be undone and agree on record and number are the same.
LEMMA UndoableUnique ==
  ASSUME NEW e \in Entries, NEW f \in Entries, Undoable(e), Undoable(f),
         e.rec = f.rec, e.seq = f.seq
  PROVE  e = f
<1>1. e.id = f.id /\ e.by = f.by /\ e.prev = f.prev
  BY DEF Undoable
<1>2. e.prevSeq = f.prevSeq
  BY DEF Undoable, Entries, Steps
<1>3. QED
  BY <1>1, <1>2 DEF Entries

\* What a step of request q makes of the spent entries and of the fresh ones.
LEMMA OthersStay ==
  ASSUME TypeOK, NEW q \in Requests, \A p \in Requests \ {q} : req'[p] = req[p]
  PROVE  /\ \A p \in Requests \ {q} : Held(p)' = Held(p)
         /\ req[q].pc # "consume" /\ req'[q].pc # "consume" => Spent' = Spent
         /\ Spent \subseteq Spent' \cup (IF req[q].pc = "consume" THEN {req[q].entry} ELSE {})
         /\ Spent' \subseteq Spent \cup (IF req'[q].pc = "consume" THEN {req'[q].entry} ELSE {})
  BY DEF Held, Spent

\* A request that pushes nothing new leaves the pushes of the others fresh if what
\* it holds, and what is in the journal, was not about to be pushed by them.
LEMMA FreshStay ==
  ASSUME TypeOK, PushesFresh, NEW q \in Requests, \A p \in Requests \ {q} : req'[p] = req[p],
         req'[q].pc # "push",
         \A a \in Staff : \A e \in journal'[a] : e \in journal[a] \/ e \in Held(q),
         \A e \in Held(q)' : e \in Held(q) \/ \E a \in Staff : e \in journal[a]
  PROVE  PushesFresh'
<1> SUFFICES ASSUME NEW p \in Requests, req'[p].pc = "push"
             PROVE  /\ \A a \in Staff : req'[p].entry \notin journal'[a]
                    /\ \A o \in Requests \ {p} : req'[p].entry \notin Held(o)'
  BY DEF PushesFresh
<1>1. p # q /\ req'[p] = req[p]
  OBVIOUS
<1>2. /\ \A a \in Staff : req[p].entry \notin journal[a]
      /\ \A o \in Requests \ {p} : req[p].entry \notin Held(o)
  BY <1>1 DEF PushesFresh
<1>3. \A o \in Requests \ {q} : Held(o)' = Held(o)
  BY DEF Held
<1> QED BY <1>1, <1>2, <1>3

LEMMA InitFresh == Init => PushesFresh
  BY DEF Init, PushesFresh, Idle

LEMMA StepFresh ==
  TypeOK /\ SerialInv /\ PushesFresh /\ [Next]_vars => PushesFresh'
<1> SUFFICES ASSUME TypeOK, SerialInv, PushesFresh, [Next]_vars PROVE PushesFresh'
  OBVIOUS
<1>1. ASSUME NEW q \in Requests,
             \/ \E a \in Staff, r \in Records, op \in Ops : Check(q, a, r, op)
             \/ ReadRecord(q) \/ Snapshot(q) \/ PushFails(q) \/ ConsumeFails(q) \/ FinishDelete(q) \/ Fail(q)
             \/ \E r \in Records : BeginDelete(q, r)
      PROVE  PushesFresh'
  <2>1. /\ \A p \in Requests \ {q} : req'[p] = req[p]
        /\ req'[q].pc \in {"idle", "checked", "read", "snapped", "deleting"}
        /\ journal' = journal
    BY <1>1 DEF Check, ReadRecord, Snapshot, PushFails, ConsumeFails, FinishDelete, Fail, BeginDelete,
                Become, TypeOK, Idle
  <2>2. Held(q)' = {}
    BY <2>1 DEF Held
  <2> QED BY <2>1, <2>2, FreshStay
<1>2. ASSUME NEW q \in Requests, NEW a \in Staff, NEW r \in Records, FindLatest(q, a, r) PROVE PushesFresh'
  <2>1. PICK e \in journal[a] : req' = [req EXCEPT ![q] = [pc |-> "found", entry |-> e]]
    BY <1>2 DEF FindLatest, Become, Latest
  <2>2. /\ \A p \in Requests \ {q} : req'[p] = req[p]
        /\ req'[q] = [pc |-> "found", entry |-> e] /\ journal' = journal
    BY <1>2, <2>1 DEF FindLatest, TypeOK
  <2>3. Held(q)' = {e}
    BY <2>2 DEF Held
  <2> QED BY <2>2, <2>3, FreshStay
<1>3. ASSUME NEW q \in Requests, Match(q) \/ Restore(q) PROVE PushesFresh'
  <2>1. /\ \A p \in Requests \ {q} : req'[p] = req[p]
        /\ req'[q].pc \in {"matched", "consume"} /\ req'[q].entry = req[q].entry
        /\ req[q].pc \in {"found", "matched"} /\ journal' = journal
    BY <1>3 DEF Match, Restore, Become, TypeOK
  <2>2. Held(q)' = Held(q)
    BY <2>1 DEF Held
  <2> QED BY <2>1, <2>2, FreshStay
<1>4. ASSUME NEW q \in Requests, Push(q) \/ Consume(q) PROVE PushesFresh'
  <2>1. /\ \A p \in Requests \ {q} : req'[p] = req[p]
        /\ req'[q] = Idle
        /\ \A a \in Staff : \A e \in journal'[a] : e \in journal[a] \/ e \in Held(q)
    BY <1>4 DEF Push, Consume, Become, TypeOK, Held
  <2>2. Held(q)' = {} /\ req'[q].pc # "push"
    BY <2>1 DEF Held, Idle
  <2> QED BY <2>1, <2>2, FreshStay
<1>5. ASSUME NEW q \in Requests, Commit(q) PROVE PushesFresh'
  <2>1. /\ \A p \in Requests \ {q} : req'[p] = req[p]
        /\ req'[q].pc = "push" /\ req'[q].entry.id = clock + 1 /\ journal' = journal /\ clock \in Nat
    BY <1>5 DEF Commit, Become, TypeOK, Steps
  <2>2. \A p \in Requests : \A e \in Held(p) : e.id <= clock /\ e.id \in Nat
    BY DEF SerialInv, TypeOK, RequestStates, Held, Entries, Steps
  <2>3. \A a \in Staff : \A e \in journal[a] : e.id <= clock /\ e.id \in Nat
    BY DEF SerialInv, TypeOK, Entries, Steps
  <2>4. \A p \in Requests \ {q} : Held(p)' = Held(p) /\ req'[q].entry \notin Held(p)
    BY <2>1, <2>2 DEF Held
  <2>5. \A a \in Staff : req'[q].entry \notin journal'[a]
    BY <2>1, <2>3
  <2>6. Held(q)' = {req'[q].entry}
    BY <2>1 DEF Held
  <2>7. ASSUME NEW p \in Requests \ {q}, req'[p].pc = "push"
        PROVE  /\ \A a \in Staff : req'[p].entry \notin journal'[a]
               /\ \A o \in Requests \ {p} : req'[p].entry \notin Held(o)'
    <3>1. req[p].pc = "push" /\ req'[p].entry = req[p].entry /\ req[p].entry \in Held(p)
      BY <2>1, <2>7 DEF Held
    <3>2. req[p].entry # req'[q].entry
      BY <2>4, <3>1
    <3> QED BY <2>1, <2>4, <2>6, <3>1, <3>2 DEF PushesFresh
  <2> QED BY <2>4, <2>5, <2>7 DEF PushesFresh
<1>6. ASSUME NEW a \in Staff, SlideWindow(a) PROVE PushesFresh'
  <2>1. req' = req /\ \A b \in Staff : journal'[b] \subseteq journal[b]
    BY <1>6 DEF SlideWindow, TypeOK
  <2> QED BY <2>1 DEF PushesFresh, Held
<1>7. ASSUME CloseExpired \/ (\E r \in Records : DayEnds(r)) \/ UNCHANGED vars PROVE PushesFresh'
  <2>1. req' = req /\ journal' = journal
    BY <1>7 DEF CloseExpired, DayEnds, vars
  <2> QED BY <2>1 DEF PushesFresh, Held
<1> QED BY <1>1, <1>2, <1>3, <1>4, <1>5, <1>6, <1>7 DEF Next

\* A step that moves no record keeps the invariant if the spent entries are the
\* same and what the request holds afterwards can be undone, or is spent.
LEMMA QuietHistoryOf ==
  ASSUME TypeOK, JournalIsHistory, NEW q \in Requests, row' = row, origin' = origin,
         \A p \in Requests \ {q} : req'[p] = req[p], Spent' = Spent,
         \A a \in Staff : \A e \in journal'[a] : e \in journal[a] \/ (e.by = a /\ Undoable(e)),
         \A e \in Held(q)' : e \in Spent \/ Undoable(e)
  PROVE  JournalIsHistory'
<1>1. \A p \in Requests : \A e \in Held(p)' \ Spent' : Undoable(e)
  BY OthersStay DEF JournalIsHistory
<1>2. \A a \in Staff : \A e \in journal'[a] : e.by = a /\ (e \notin Spent' => Undoable(e))
  BY DEF JournalIsHistory
<1> QED BY <1>1, <1>2, QuietHistory

\* Every step preserves the invariant as long as reverts stay apart.
LEMMA StepHistory ==
  ASSUME Serializable, ~ConsumeMayFail
  PROVE  TypeOK /\ SerialInv /\ PushesFresh /\ RevertsApart /\ JournalIsHistory /\ [Next]_vars
           => JournalIsHistory'
<1> SUFFICES ASSUME TypeOK, SerialInv, PushesFresh, RevertsApart, JournalIsHistory, [Next]_vars
             PROVE  JournalIsHistory'
  OBVIOUS
<1> USE ConstantsAssumption
<1>a. \A a \in Staff : \A e \in journal[a] :
        e \in Entries /\ e.by = a /\ (e \notin Spent => Undoable(e))
  BY DEF JournalIsHistory, TypeOK
<1>b. \A q \in Requests : \A e \in Held(q) : e \in Entries
  BY DEF TypeOK, RequestStates, Held
<1>c. \A q \in Requests : req[q].pc # "consume" => \A e \in Held(q) : e \notin Spent /\ Undoable(e)
  BY HeldUnspent DEF JournalIsHistory
<1>1. ASSUME NEW q \in Requests,
             \/ \E a \in Staff, r \in Records, op \in Ops : Check(q, a, r, op)
             \/ ReadRecord(q) \/ Snapshot(q) \/ PushFails(q) \/ Fail(q)
             \/ \E r \in Records : BeginDelete(q, r)
      PROVE  JournalIsHistory'
  <2>1. /\ row' = row /\ origin' = origin /\ journal' = journal
        /\ \A p \in Requests \ {q} : req'[p] = req[p]
        /\ req[q].pc # "consume"
        /\ req'[q].pc \in {"idle", "checked", "read", "snapped", "deleting"}
    BY <1>1 DEF Check, ReadRecord, Snapshot, PushFails, Fail, BeginDelete, Become, TypeOK, Idle
  <2>2. Spent' = Spent /\ Held(q)' = {}
    BY <2>1, OthersStay DEF Held
  <2> QED BY <2>1, <2>2, QuietHistoryOf
<1>2. ASSUME NEW q \in Requests, NEW a \in Staff, NEW r \in Records, FindLatest(q, a, r)
      PROVE  JournalIsHistory'
  <2>1. PICK e \in journal[a] : req' = [req EXCEPT ![q] = [pc |-> "found", entry |-> e]]
    BY <1>2 DEF FindLatest, Become, Latest
  <2>2. /\ row' = row /\ origin' = origin /\ journal' = journal
        /\ \A p \in Requests \ {q} : req'[p] = req[p]
        /\ req'[q] = [pc |-> "found", entry |-> e] /\ req[q].pc # "consume"
    BY <1>2, <2>1 DEF FindLatest, TypeOK
  <2>3. Spent' = Spent /\ Held(q)' = {e}
    BY <2>2, OthersStay DEF Held
  <2> QED BY <1>a, <2>2, <2>3, QuietHistoryOf
<1>3. ASSUME NEW q \in Requests, Match(q) PROVE JournalIsHistory'
  <2>1. /\ row' = row /\ origin' = origin /\ journal' = journal
        /\ \A p \in Requests \ {q} : req'[p] = req[p]
        /\ req'[q] = [pc |-> "matched", entry |-> req[q].entry] /\ req[q].pc = "found"
    BY <1>3 DEF Match, Become, TypeOK
  <2>2. Spent' = Spent /\ Held(q)' = Held(q)
    BY <2>1, OthersStay DEF Held
  <2> QED BY <1>c, <2>1, <2>2, QuietHistoryOf
<1>4. ASSUME NEW q \in Requests, Push(q) PROVE JournalIsHistory'
  <2>1. /\ row' = row /\ origin' = origin /\ \A p \in Requests \ {q} : req'[p] = req[p]
        /\ req'[q] = Idle /\ req[q].pc = "push"
    BY <1>4 DEF Push, Become, TypeOK
  <2>2. Spent' = Spent /\ Held(q)' = {}
    BY <2>1, OthersStay DEF Held, Idle
  <2>3. PICK e \in Entries : e = req[q].entry /\ Undoable(e)
    BY <1>b, <1>c, <2>1 DEF Held
  <2>4. \A a \in Staff : \A f \in journal'[a] : f \in journal[a] \/ (f = e /\ f.by = a)
    BY <1>4, <2>3 DEF Push, TypeOK
  <2> QED BY <2>1, <2>2, <2>3, <2>4, QuietHistoryOf
<1>5. ASSUME NEW q \in Requests, Consume(q) PROVE JournalIsHistory'
  <2>1. /\ row' = row /\ origin' = origin /\ \A p \in Requests \ {q} : req'[p] = req[p]
        /\ req'[q] = Idle /\ req[q].pc = "consume"
    BY <1>5 DEF Consume, Become, TypeOK
  <2>2. PICK e \in Entries : e = req[q].entry /\ e.by \in Staff
    BY <1>b, <2>1 DEF Held, Entries
  <2>3. Spent \subseteq Spent' \cup {e} /\ Held(q)' = {}
    BY <2>1, <2>2, OthersStay DEF Held, Idle
  <2>4. \A a \in Staff : \A f \in journal'[a] : f \in journal[a] /\ f # e
    <3>1. journal' = [journal EXCEPT ![e.by] = journal[e.by] \ {e}]
      BY <1>5, <2>2 DEF Consume
    <3>2. \A a \in Staff : journal'[a] = IF a = e.by THEN journal[a] \ {e} ELSE journal[a]
      BY <2>2, <3>1 DEF TypeOK
    <3> SUFFICES ASSUME NEW a \in Staff, NEW f \in journal'[a]
                 PROVE  f \in journal[a] /\ f # e
      OBVIOUS
    <3>3. CASE a = e.by
      BY <3>2, <3>3
    <3>4. CASE a # e.by
      <4>1. f \in journal[a]
        BY <3>2, <3>4
      <4>2. f.by = a
        BY <1>a, <4>1
      <4> QED BY <3>4, <4>1, <4>2
    <3> QED BY <3>3, <3>4
  <2>5. \A p \in Requests \ {q} : Held(p)' = Held(p) /\ e \notin Held(p)
    <3> SUFFICES ASSUME NEW p \in Requests \ {q}, e \in Held(p) PROVE FALSE
      BY <2>1, OthersStay
    <3>1. Reverting(q) /\ e \in Held(q)
      BY <2>1, <2>2 DEF Reverting, Held
    <3>2. CASE req[p].pc = "push"
      BY <2>2, <3>1, <3>2 DEF PushesFresh, Held
    <3>3. CASE Reverting(p)
      BY <2>2, <3>1, <3>3 DEF RevertsApart, Reverting, Held
    <3> QED BY <3>2, <3>3 DEF Held, Reverting
  <2>6. \A p \in Requests : \A f \in Held(p)' \ Spent' : Undoable(f)
    BY <2>3, <2>5 DEF JournalIsHistory
  <2>7. \A a \in Staff : \A f \in journal'[a] : f.by = a /\ (f \notin Spent' => Undoable(f))
    BY <1>a, <2>3, <2>4
  <2> QED BY <2>1, <2>6, <2>7, QuietHistory
<1>6. ASSUME NEW q \in Requests, FinishDelete(q) PROVE JournalIsHistory'
  <2>1. /\ \A p \in Requests \ {q} : req'[p] = req[p]
        /\ req'[q] = Idle /\ req[q].pc = "deleting"
        /\ origin' = origin /\ journal' = journal
    BY <1>6 DEF FinishDelete, Become, TypeOK
  <2>2. Spent' = Spent /\ Held(q)' = {} /\ \A p \in Requests \ {q} : Held(p)' = Held(p)
    BY <2>1, OthersStay DEF Held, Idle
  <2>3. \A r \in Records : row'[r].seq = row[r].seq
    <3>1. PICK x \in Records : row' = [row EXCEPT ![x].status = "deleted"]
      BY <1>6 DEF FinishDelete, TypeOK, RequestStates
    <3> QED BY <3>1 DEF TypeOK, Rows
  <2>4. \A e \in Entries : Undoable(e) => Undoable(e)'
    BY <2>1, <2>3 DEF Undoable, Entries
  <2> QED BY <1>a, <1>b, <2>1, <2>2, <2>4 DEF JournalIsHistory
<1>7. ASSUME NEW q \in Requests, ConsumeFails(q) PROVE JournalIsHistory'
  BY <1>7 DEF ConsumeFails
<1>8. ASSUME NEW q \in Requests, Commit(q) PROVE JournalIsHistory'
  <2>1. PICK r \in Records, a \in Staff : req[q].rec = r /\ req[q].by = a
    BY <1>8 DEF Commit, TypeOK, RequestStates
  <2>2. PICK n \in Steps : n = NextSeq(r) /\ n = row[r].seq + 1
    BY <1>8 DEF Commit, TypeOK, NextSeq, Rows, Steps
  <2>3. PICK b : b = State(r) /\ req[q].prev = b /\ req[q].prevSeq = row[r].seq
    BY <1>8, <2>1 DEF Commit, SerialInv, ReadsAreCurrent
  <2>4. PICK e : e = [id |-> clock + 1, rec |-> r, by |-> a, prevSeq |-> row[r].seq,
                      seq |-> n, prev |-> b]
    OBVIOUS
  <2>5. /\ \A p \in Requests \ {q} : req'[p] = req[p]
        /\ req'[q] = [pc |-> "push", entry |-> e] /\ req[q].pc = "snapped" /\ journal' = journal
    BY <1>8, <2>1, <2>2, <2>3, <2>4 DEF Commit, Become, TypeOK
  <2>6. Spent' = Spent /\ Held(q)' = {e} /\ \A p \in Requests \ {q} : Held(p)' = Held(p)
    BY <2>5, OthersStay DEF Held
  <2>7. origin' = [origin EXCEPT ![r][n] = [id |-> clock + 1, by |-> a, before |-> b]]
    BY <1>8, <2>1, <2>2, <2>3 DEF Commit, Origin
  <2>8. /\ row'[r].seq = n
        /\ \A x \in Records \ {r} : row'[x].seq = row[x].seq
    BY <1>8, <2>1, <2>2 DEF Commit, TypeOK
  <2>9. \A x \in Records : \A m \in Steps :
          m <= row[x].seq => origin'[x][m] = origin[x][m]
    BY <2>2, <2>7 DEF TypeOK, Rows, Steps
  <2>10. \A f \in Entries : Undoable(f) => Undoable(f)'
    BY <2>2, <2>8, <2>9, NextStaysUndoable DEF Entries
  <2>11. Undoable(e)'
    <3>1. origin'[r][n] = [id |-> clock + 1, by |-> a, before |-> b]
      BY <2>7 DEF TypeOK
    <3>2. e.rec = r /\ e.seq = n /\ e.prevSeq = row[r].seq /\ e.id = clock + 1
          /\ e.by = a /\ e.prev = b
      BY <2>4
    <3>3. row'[r].seq >= n
      BY <2>8 DEF Steps
    <3> QED BY <2>2, <2>8, <3>1, <3>2, <3>3 DEF Undoable
  <2> QED BY <1>a, <1>b, <2>5, <2>6, <2>10, <2>11 DEF JournalIsHistory
<1>9. ASSUME NEW q \in Requests, Restore(q) PROVE JournalIsHistory'
  <2>1. req[q].pc = "matched" /\ journal' = journal /\ origin' = origin
    BY <1>9 DEF Restore
  <2>2. PICK e \in Entries : e = req[q].entry /\ Held(q) = {e}
    BY <1>b, <2>1 DEF Held
  <2>3. /\ req'[q] = [pc |-> "consume", entry |-> e]
        /\ \A p \in Requests \ {q} : req'[p] = req[p]
    BY <1>9, <2>2 DEF Restore, Become, TypeOK
  <2>4. Spent' = Spent \cup {e} /\ Held(q)' = {e} /\ \A p \in Requests \ {q} : Held(p)' = Held(p)
    BY SMTT(30), <2>1, <2>3 DEF Spent, Held
  <2>5. Undoable(e) /\ row[e.rec].seq = e.seq
    BY <1>c, <2>1, <2>2 DEF SerialInv, ReadsAreCurrent, Superseded
  <2>6. /\ row'[e.rec].seq = e.prevSeq
        /\ \A x \in Records \ {e.rec} : row'[x].seq = row[x].seq
    BY <1>9, <2>2 DEF Restore, SeqRestored, TypeOK, Entries
  <2>7. ASSUME NEW f \in Entries, f # e, Undoable(f) PROVE Undoable(f)'
    <3>1. CASE f.rec = e.rec
      <4>1. f.seq # e.seq
        BY <2>5, <2>7, <3>1, UndoableUnique
      <4>2. f.seq <= e.prevSeq
        BY <2>5, <2>7, <3>1, <4>1 DEF Undoable, Entries, Steps
      <4> QED BY <2>1, <2>6, <2>7, <3>1, <4>2 DEF Undoable
    <3>2. CASE f.rec # e.rec
      BY <2>1, <2>6, <2>7, <3>2 DEF Undoable, Entries
    <3> QED BY <3>1, <3>2
  <2> QED BY <1>a, <1>b, <2>1, <2>4, <2>7 DEF JournalIsHistory
<1>10. ASSUME NEW a \in Staff, SlideWindow(a) PROVE JournalIsHistory'
  <2>1. \A b \in Staff : journal'[b] \subseteq journal[b]
    BY <1>10 DEF SlideWindow, TypeOK
  <2>2. req' = req /\ row' = row /\ origin' = origin
    BY <1>10 DEF SlideWindow
  <2>3. Spent' = Spent /\ \A p \in Requests : Held(p)' = Held(p)
    BY <2>2 DEF Spent, Held
  <2> QED BY <1>a, <2>1, <2>2, <2>3, QuietHistory DEF JournalIsHistory
<1>11. ASSUME NEW r \in Records, DayEnds(r) PROVE JournalIsHistory'
  BY <1>11 DEF DayEnds, JournalIsHistory, Undoable, Held, Spent
<1>12. ASSUME CloseExpired PROVE JournalIsHistory'
  <2>1. journal' = journal /\ req' = req
    BY <1>12 DEF CloseExpired
  <2>2. \A x \in Records : row'[x].seq \in {row[x].seq, row[x].seq + 1}
    BY <1>12 DEF CloseExpired, NextSeq
  <2>3. \A x \in Records : \A m \in Steps :
          m # row[x].seq + 1 => origin'[x][m] = origin[x][m]
    BY <1>12 DEF CloseExpired, NextSeq, TypeOK
  <2>4. \A f \in Entries : Undoable(f) => Undoable(f)'
    <3>1. \A x \in Records : \A m \in Steps : m <= row[x].seq => m # row[x].seq + 1
      BY DEF TypeOK, Rows, Steps
    <3> QED BY <2>2, <2>3, <3>1, NextStaysUndoable DEF Entries
  <2>5. Spent' = Spent /\ \A p \in Requests : Held(p)' = Held(p)
    BY <2>1 DEF Spent, Held
  <2> QED BY <1>a, <1>b, <2>1, <2>4, <2>5 DEF JournalIsHistory
<1>13. CASE UNCHANGED vars
  BY <1>13 DEF vars, JournalIsHistory, Undoable, Held, Spent
<1> QED BY <1>1, <1>2, <1>3, <1>4, <1>5, <1>6, <1>7, <1>8, <1>9, <1>10, <1>11, <1>12, <1>13
        DEF Next

\* Any number of requests: as long as no entry is being reverted twice at once, the
\* journal holds nothing but the history it can undo.
THEOREM ApartJournalIsHistory ==
  ASSUME Serializable, ~ConsumeMayFail
  PROVE  Spec /\ []RevertsApart => []JournalIsHistory
  BY InitType, StepType, InitSerial, StepSerial, InitFresh, StepFresh, InitHistory, StepHistory, PTL
  DEF Spec

\* One request at a time: the journal holds nothing but the history it can undo.
THEOREM SequentialJournalIsHistory ==
  ASSUME Serializable, ~ConsumeMayFail, OneAtATime
  PROVE  Spec => []JournalIsHistory
  BY AloneApart, ApartJournalIsHistory, PTL

\* Any number of requests: as long as no entry is being reverted twice at once, a
\* revert undoes the newest change of its record, made by the staff member who
\* reverts, and leaves the record as it was before.
THEOREM ApartRevertIsLIFO ==
  ASSUME Serializable, ~ConsumeMayFail
  PROVE  Spec /\ []RevertsApart => RevertUndoesOwnNewest
<1> DEFINE A == \A q \in Requests : Restore(q) =>
                  LET e == req[q].entry
                      o == origin[e.rec][row[e.rec].seq]
                  IN o.by = e.by /\ o.before = State(e.rec)'
<1>1. ASSUME TypeOK, SerialInv, PushesFresh, RevertsApart, JournalIsHistory PROVE A
  <2> SUFFICES ASSUME NEW q \in Requests, Restore(q)
               PROVE  LET e == req[q].entry
                          o == origin[e.rec][row[e.rec].seq]
                      IN o.by = e.by /\ o.before = State(e.rec)'
    OBVIOUS
  <2>1. PICK e \in Entries : e = req[q].entry /\ Held(q) = {e}
    BY <1>1 DEF Restore, Held, TypeOK, RequestStates
  <2>2. req'[q].entry = e
    BY <1>1, <2>1 DEF Restore, Become, TypeOK
  <2>3. e \notin Spent
    BY <1>1, <2>1, HeldUnspent DEF Restore
  <2>4. Undoable(e) /\ row[e.rec].seq = e.seq
    BY <1>1, <2>1, <2>3 DEF JournalIsHistory, SerialInv, ReadsAreCurrent, Superseded, Restore
  <2>5. origin[e.rec][row[e.rec].seq] = [id |-> e.id, by |-> e.by, before |-> e.prev]
    BY <2>4 DEF Undoable
  <2>6. State(e.rec)' = e.prev
    <3>1. row'[e.rec].status = e.prev.status /\ row'[e.rec].approver = e.prev.approver
      BY <1>1, <2>1 DEF Restore, TypeOK, Entries
    <3>2. side'[e.rec] = e.prev.side
      BY <1>1, <2>1 DEF Restore, TypeOK, Entries
    <3>3. e.prev = [status |-> e.prev.status, approver |-> e.prev.approver,
                    side |-> e.prev.side]
      BY DEF Entries, Snapshots
    <3>4. QED
      BY <3>1, <3>2, <3>3 DEF State
  <2>7. QED
    BY <2>1, <2>2, <2>5, <2>6
<1>2. TypeOK /\ SerialInv /\ PushesFresh /\ RevertsApart /\ JournalIsHistory => [A]_vars
  BY <1>1
<1>3. QED
  BY <1>2, InitType, StepType, InitSerial, StepSerial, InitFresh, StepFresh, InitHistory, StepHistory, PTL
  DEF Spec, RevertUndoesOwnNewest

\* One request at a time: a revert undoes the newest change of its record, made by
\* the staff member who reverts, and leaves the record as it was before.
THEOREM SequentialRevertIsLIFO ==
  ASSUME Serializable, ~ConsumeMayFail, OneAtATime
  PROVE  Spec => RevertUndoesOwnNewest
  BY AloneApart, ApartRevertIsLIFO, PTL
-----------------------------------------------------------------------------
(***************************************************************************)
(* The requests implement the abstract undo stack.                         *)
(***************************************************************************)
Layers == [by: Staff \cup {Nobody}, before: Snapshots]

DocOf(r) == IF Live(r) THEN State(r) ELSE Fresh

StackOf(r) ==
  IF Live(r) THEN [n \in 1..row[r].seq |-> [by |-> origin[r][n].by, before |-> origin[r][n].before]]
  ELSE <<>>

\* A sequence that is another with one element more, or with the last one gone.
LEMMA OneMore ==
  ASSUME NEW S, NEW s \in Seq(S), NEW t \in Seq(S), Len(t) = Len(s) + 1,
         \A n \in 1..Len(s) : t[n] = s[n]
  PROVE  t = Append(s, t[Len(t)])
<1>1. Len(s) \in Nat /\ Len(t) \in 1..Len(t)
  OBVIOUS
<1>2. t[Len(t)] \in S
  BY <1>1
<1>3. /\ Append(s, t[Len(t)]) \in Seq(S) /\ Len(Append(s, t[Len(t)])) = Len(t)
      /\ \A n \in 1..Len(s) : Append(s, t[Len(t)])[n] = s[n]
      /\ Append(s, t[Len(t)])[Len(s) + 1] = t[Len(t)]
  BY <1>1, <1>2
<1>4. \A n \in 1..Len(t) : n \in 1..Len(s) \/ n = Len(s) + 1
  BY <1>1
<1>5. \A n \in 1..Len(t) : Append(s, t[Len(t)])[n] = t[n]
  BY <1>3, <1>4
<1> QED BY <1>3, <1>5

LEMMA OneLess ==
  ASSUME NEW S, NEW s \in Seq(S), NEW t \in Seq(S), Len(s) = Len(t) + 1,
         \A n \in 1..Len(t) : t[n] = s[n]
  PROVE  t = SubSeq(s, 1, Len(s) - 1)
<1>1. Len(t) \in Nat /\ Len(s) \in Nat
  OBVIOUS
<1>2. /\ SubSeq(s, 1, Len(t)) \in Seq(S) /\ Len(SubSeq(s, 1, Len(t))) = Len(t)
      /\ \A n \in 1..Len(t) : SubSeq(s, 1, Len(t))[n] = s[n]
  BY <1>1
<1>3. t = SubSeq(s, 1, Len(t))
  BY <1>2
<1>4. Len(s) - 1 = Len(t)
  BY <1>1
<1> QED BY <1>3, <1>4

\* A record's stack has as many layers as its number says.
StacksTyped ==
  \A r \in Records :
    /\ DocOf(r) \in Snapshots /\ StackOf(r) \in Seq(Layers)
    /\ Live(r) => /\ Len(StackOf(r)) = row[r].seq /\ row[r].seq \in Nat
                  /\ \A n \in 1..row[r].seq :
                       StackOf(r)[n] = [by |-> origin[r][n].by, before |-> origin[r][n].before]

LEMMA StackTyped == TypeOK => StacksTyped
<1> SUFFICES ASSUME TypeOK, NEW r \in Records
             PROVE  /\ DocOf(r) \in Snapshots /\ StackOf(r) \in Seq(Layers)
                    /\ Live(r) => /\ Len(StackOf(r)) = row[r].seq /\ row[r].seq \in Nat
                                  /\ \A n \in 1..row[r].seq :
                                       StackOf(r)[n] = [by |-> origin[r][n].by, before |-> origin[r][n].before]
  BY DEF StacksTyped
<1>1. row[r] \in Rows /\ side[r] \in Sides /\ row[r].seq \in Nat
  BY DEF TypeOK, Rows, Steps
<1>2. Live(r) => State(r) \in Snapshots
  BY <1>1 DEF Live, State, Snapshots, Rows
<1>3. Fresh \in Snapshots
  BY ConstantsAssumption DEF Fresh, Snapshots, NoSides, Sides, Steps, Working
<1>4. \A n \in 1..row[r].seq : n \in Steps
  BY <1>1, ConstantsAssumption DEF TypeOK, Rows, Steps
<1>5. \A n \in 1..row[r].seq : [by |-> origin[r][n].by, before |-> origin[r][n].before] \in Layers
  BY <1>4 DEF TypeOK, Origins, Layers
<1>6. ASSUME Live(r) PROVE StackOf(r) \in Seq(Layers) /\ Len(StackOf(r)) = row[r].seq
  BY <1>1, <1>5, <1>6 DEF StackOf
<1> QED BY <1>1, <1>2, <1>3, <1>6 DEF DocOf, StackOf
\* A step that gives a record its next number puts a layer on its stack.
LEMMA LayerAdded ==
  ASSUME TypeOK, TypeOK', NEW r \in Records, Live(r), Live(r)', NEW a \in Staff \cup {Nobody},
         row'[r].seq = row[r].seq + 1,
         origin'[r] = [origin[r] EXCEPT ![row[r].seq + 1] = Origin(a, r)]
  PROVE  StackOf(r)' = Append(StackOf(r), [by |-> a, before |-> DocOf(r)])
<1> PICK s, t, n : s = StackOf(r) /\ t = StackOf(r)' /\ n = row[r].seq
  OBVIOUS
<1>1. /\ s \in Seq(Layers) /\ Len(s) = n /\ n \in Nat
      /\ \A i \in 1..n : s[i] = [by |-> origin[r][i].by, before |-> origin[r][i].before]
  BY StackTyped DEF StacksTyped
<1>2. /\ t \in Seq(Layers) /\ Len(t) = n + 1
      /\ \A i \in 1..(n + 1) : t[i] = [by |-> origin'[r][i].by, before |-> origin'[r][i].before]
  <2>1. StacksTyped'
    BY StackTyped, PTL
  <2> QED BY <2>1 DEF StacksTyped
<1>3. n + 1 \in Steps
  BY ConstantsAssumption DEF TypeOK, Rows, Steps
<1>4. origin'[r][n + 1] = Origin(a, r) /\ \A i \in 1..n : origin'[r][i] = origin[r][i]
  <2>1. origin[r] \in [Steps -> Origins]
    BY DEF TypeOK
  <2>2. \A i \in 1..n : i # n + 1 /\ i \in Steps
    BY <1>1, <1>3, ConstantsAssumption DEF Steps
  <2> QED BY <1>3, <2>1, <2>2
<1>5. \A i \in 1..n : t[i] = s[i]
  <2> SUFFICES ASSUME NEW i \in 1..n PROVE t[i] = s[i]
    OBVIOUS
  <2>1. i \in 1..(n + 1)
    BY <1>1
  <2>2. t[i] = [by |-> origin'[r][i].by, before |-> origin'[r][i].before]
    BY <1>2, <2>1
  <2>3. s[i] = [by |-> origin[r][i].by, before |-> origin[r][i].before]
    BY <1>1
  <2>4. origin'[r][i] = origin[r][i]
    BY <1>4
  <2> QED BY <2>2, <2>3, <2>4, Zenon
<1>6. t[n + 1] = [by |-> a, before |-> DocOf(r)]
  BY <1>1, <1>2, <1>4 DEF Origin, DocOf
<1>7. t = Append(s, t[Len(t)])
  BY <1>1, <1>2, <1>5, OneMore
<1> QED BY <1>2, <1>6, <1>7

\* The stacks' variables, record by record.
Docs == [r \in Records |-> DocOf(r)]

Stacks == [r \in Records |-> StackOf(r)]

Gone == {r \in Records : ~Live(r)}

LEMMA ChangeSeen ==
  ASSUME NEW r, NEW a, r \notin Gone, Docs' \in [Records -> Snapshots],
         \A x \in Records \ {r} : Docs'[x] = Docs[x],
         Stacks' = [Stacks EXCEPT ![r] = Append(@, [by |-> a, before |-> Docs[r]])],
         Gone' = Gone
  PROVE  Undo!Change(a, r)
BY DEF Undo!Change, Docs, Stacks, Gone, DocOf, StackOf

\* A step that moves no record is none for the stacks.
LEMMA NothingChanges ==
  ASSUME UNCHANGED <<row, side, origin>>
  PROVE  UNCHANGED Undo!undoVars
  BY DEF Undo!undoVars, Live, State

\* A staff action is a change.
LEMMA CommitChanges ==
  ASSUME TypeOK, TypeOK', SerialInv, NEW q \in Requests, Commit(q)
  PROVE  \E r \in Records, a \in Staff : Undo!Change(a, r)
<1>1. PICK r \in Records, a \in Staff, op \in Ops : req[q].rec = r /\ req[q].by = a /\ req[q].op = op
  BY DEF Commit, TypeOK, RequestStates
<1>2. /\ Live(r)
      /\ row' = [row EXCEPT ![r] = [status   |-> IF op = "update" THEN row[r].status ELSE To[op],
                                    approver |-> ApproverAfter(op, a, r), seq |-> row[r].seq + 1]]
      /\ side' = [side EXCEPT ![r] = SideAfter(op, a, r)]
      /\ origin' = [origin EXCEPT ![r][row[r].seq + 1] = Origin(a, r)]
  BY <1>1 DEF Commit, NextSeq
<1>3. Live(r)'
  <2>1. op # "update" => To[op] # "deleted"
    BY DEF To, Ops
  <2>2. row'[r].status = IF op = "update" THEN row[r].status ELSE To[op]
    BY <1>2 DEF TypeOK
  <2> QED BY <1>2, <2>1, <2>2 DEF Live
<1>4. /\ row'[r].seq = row[r].seq + 1
      /\ origin'[r] = [origin[r] EXCEPT ![row[r].seq + 1] = Origin(a, r)]
  BY <1>2 DEF TypeOK
<1>5. StackOf(r)' = Append(StackOf(r), [by |-> a, before |-> DocOf(r)])
  BY <1>2, <1>3, <1>4, LayerAdded
<1>6. \A x \in Records \ {r} : row'[x] = row[x] /\ side'[x] = side[x] /\ origin'[x] = origin[x]
  BY <1>2 DEF TypeOK
<1>7. \A x \in Records \ {r} : (Live(x)' <=> Live(x)) /\ DocOf(x)' = DocOf(x) /\ StackOf(x)' = StackOf(x)
  BY <1>6 DEF Live, DocOf, State, StackOf
<1>8. \A x \in Records : DocOf(x)' \in Snapshots
  <2>1. StacksTyped'
    BY StackTyped, PTL
  <2> QED BY <2>1 DEF StacksTyped
<1>9. Undo!Change(a, r)
  <2>1. r \notin Gone /\ Gone' = Gone
    BY <1>2, <1>3, <1>7 DEF Gone
  <2>2. Docs' \in [Records -> Snapshots] /\ \A x \in Records \ {r} : Docs'[x] = Docs[x]
    BY <1>7, <1>8 DEF Docs
  <2>3. Stacks' = [Stacks EXCEPT ![r] = Append(@, [by |-> a, before |-> Docs[r]])]
    BY <1>5, <1>7 DEF Docs, Stacks
  <2> QED BY <2>1, <2>2, <2>3, ChangeSeen
<1> QED BY <1>9
LEMMA UndoSeen ==
  ASSUME NEW r, NEW a, r \notin Gone, Stacks[r] # <<>>, Stacks[r][Len(Stacks[r])].by = a,
         Docs' = [Docs EXCEPT ![r] = Stacks[r][Len(Stacks[r])].before],
         Stacks' = [Stacks EXCEPT ![r] = SubSeq(@, 1, Len(@) - 1)],
         Gone' = Gone
  PROVE  Undo!Undo(a, r)
BY DEF Undo!Undo, Docs, Stacks, Gone, DocOf, StackOf

LEMMA DeleteSeen ==
  ASSUME NEW r, r \notin Gone, Gone' = Gone \cup {r},
         Stacks' = [Stacks EXCEPT ![r] = <<>>],
         \A x \in Records \ {r} : Docs'[x] = Docs[x]
  PROVE  Undo!Delete(r)
BY DEF Undo!Delete, Docs, Stacks, Gone, DocOf, StackOf

LEMMA SystemSeen ==
  ASSUME NEW D, NEW E, D # {}, (D \cup E) \cap Gone = {}, Docs' \in [Records -> Snapshots],
         \A x \in Records \ (D \cup E) : Docs'[x] = Docs[x],
         \A x \in D : Stacks'[x] = Append(Stacks[x], [by |-> Nobody, before |-> Docs[x]]),
         \A x \in Records \ D : Stacks'[x] = Stacks[x],
         Gone' = Gone
  PROVE  Undo!SystemChange(D, E)
BY DEF Undo!SystemChange, Docs, Stacks, Gone, DocOf, StackOf

\* A revert takes back the change on top of the stack, which is the reverter's own.
LEMMA RestoreUndoes ==
  ASSUME TypeOK, TypeOK', SerialInv, PushesFresh, RevertsApart, JournalIsHistory, NEW q \in Requests,
         Restore(q)
  PROVE  \E r \in Records, a \in Staff : Undo!Undo(a, r)
<1>1. PICK e \in Entries : e = req[q].entry /\ Held(q) = {e}
  BY DEF Restore, Held, TypeOK, RequestStates
<1> PICK r, k : r = e.rec /\ k = e.prevSeq
  OBVIOUS
<1>2. e \notin Spent
  BY <1>1, HeldUnspent DEF Restore
<1>3. Undoable(e) /\ row[r].seq = e.seq /\ r \in Records /\ e.by \in Staff /\ e.prev \in Snapshots /\ k \in Nat
  BY <1>1, <1>2 DEF JournalIsHistory, SerialInv, ReadsAreCurrent, Superseded, Restore, Entries, Steps
<1>4. row[r].seq = k + 1 /\ origin[r][k + 1] = [id |-> e.id, by |-> e.by, before |-> e.prev]
  BY <1>3 DEF Undoable
<1>5. /\ Live(r) /\ origin' = origin
      /\ row' = [row EXCEPT ![r] = [status |-> e.prev.status, approver |-> e.prev.approver, seq |-> k]]
      /\ side' = [side EXCEPT ![r] = e.prev.side]
  BY <1>1 DEF Restore, SeqRestored
<1>6. Live(r)' /\ DocOf(r)' = e.prev /\ row'[r].seq = k
  <2>1. row'[r] = [status |-> e.prev.status, approver |-> e.prev.approver, seq |-> k] /\ side'[r] = e.prev.side
    BY <1>3, <1>5 DEF TypeOK
  <2>2. e.prev.status # "deleted"
    BY <1>3 DEF Snapshots, Working, Finished
  <2>3. e.prev = [status |-> e.prev.status, approver |-> e.prev.approver, side |-> e.prev.side]
    BY <1>3 DEF Snapshots
  <2> QED BY <2>1, <2>2, <2>3 DEF Live, DocOf, State
<1>7. \A x \in Records \ {r} : row'[x] = row[x] /\ side'[x] = side[x] /\ origin'[x] = origin[x]
  BY <1>5 DEF TypeOK
<1>8. \A x \in Records \ {r} : (Live(x)' <=> Live(x)) /\ DocOf(x)' = DocOf(x) /\ StackOf(x)' = StackOf(x)
  BY <1>7 DEF Live, DocOf, State, StackOf
<1> PICK s, t : s = StackOf(r) /\ t = StackOf(r)'
  OBVIOUS
<1>9. /\ s \in Seq(Layers) /\ Len(s) = k + 1
      /\ \A n \in 1..(k + 1) : s[n] = [by |-> origin[r][n].by, before |-> origin[r][n].before]
  BY <1>3, <1>4, <1>5, StackTyped DEF StacksTyped
<1>10. /\ t \in Seq(Layers) /\ Len(t) = k
       /\ \A n \in 1..k : t[n] = [by |-> origin[r][n].by, before |-> origin[r][n].before]
  <2>1. StacksTyped'
    BY StackTyped, PTL
  <2> QED BY <1>3, <1>5, <1>6, <2>1 DEF StacksTyped
<1>11. t = SubSeq(s, 1, Len(s) - 1)
  <2>1. \A n \in 1..k : t[n] = s[n]
    <3> SUFFICES ASSUME NEW n \in 1..k PROVE t[n] = s[n]
      OBVIOUS
    <3>1. n \in 1..(k + 1)
      BY <1>3
    <3> QED BY <1>9, <1>10, <3>1
  <2> QED BY <1>9, <1>10, <2>1, OneLess
<1>12. s # <<>> /\ s[Len(s)] = [by |-> e.by, before |-> e.prev]
  <2>1. k + 1 \in 1..(k + 1)
    BY <1>3
  <2>2. s[k + 1] = [by |-> e.by, before |-> e.prev]
    BY <1>4, <1>9, <2>1
  <2> QED BY <1>3, <1>9, <2>2
<1>13. r \notin Gone /\ Gone' = Gone
  BY <1>5, <1>6, <1>8 DEF Gone
<1>14. Stacks[r] = s /\ Stacks' = [Stacks EXCEPT ![r] = SubSeq(@, 1, Len(@) - 1)]
  BY <1>3, <1>8, <1>11 DEF Stacks
<1>15. Docs' = [Docs EXCEPT ![r] = e.prev]
  BY <1>3, <1>6, <1>8 DEF Docs
<1>16. Undo!Undo(e.by, r)
  <2>1. /\ Stacks[r] # <<>> /\ Stacks[r][Len(Stacks[r])].by = e.by
        /\ Docs' = [Docs EXCEPT ![r] = Stacks[r][Len(Stacks[r])].before]
    <3>1. Stacks[r] = s /\ s # <<>>
      BY <1>12, <1>14
    <3>2. s[Len(s)].by = e.by /\ s[Len(s)].before = e.prev
      BY <1>12
    <3> QED BY <1>15, <3>1, <3>2, Zenon
  <2> QED BY <1>13, <1>14, <2>1, UndoSeen
<1> QED BY <1>3, <1>16

\* A customer's delete takes the record and its stack.
LEMMA DeleteRemoves ==
  ASSUME TypeOK, SerialInv, NEW q \in Requests, FinishDelete(q)
  PROVE  \E r \in Records : Undo!Delete(r)
<1>1. PICK r \in Records : /\ req[q].rec = r /\ req[q].pc = "deleting"
                           /\ row' = [row EXCEPT ![r].status = "deleted"] /\ origin' = origin
                           /\ side' = [side EXCEPT ![r] = Remaining(side[r], req[q].seen)]
  BY DEF FinishDelete, TypeOK, RequestStates
<1>2. Live(r)
  BY <1>1 DEF SerialInv, ReadsAreCurrent
<1>3. ~Live(r)'
  BY <1>1 DEF Live, TypeOK, Rows
<1>4. \A x \in Records \ {r} : row'[x] = row[x] /\ side'[x] = side[x] /\ origin'[x] = origin[x]
  BY <1>1 DEF TypeOK
<1>5. \A x \in Records \ {r} : (Live(x)' <=> Live(x)) /\ DocOf(x)' = DocOf(x) /\ StackOf(x)' = StackOf(x)
  BY <1>4 DEF Live, DocOf, State, StackOf
<1>6. r \notin Gone /\ Gone' = Gone \cup {r}
  BY <1>2, <1>3, <1>5 DEF Gone
<1>7. Stacks' = [Stacks EXCEPT ![r] = <<>>]
  <2>1. StackOf(r)' = <<>>
    BY <1>3 DEF StackOf
  <2> QED BY <1>5, <2>1 DEF Stacks
<1>8. \A x \in Records \ {r} : Docs'[x] = Docs[x]
  BY <1>5 DEF Docs
<1> QED BY <1>6, <1>7, <1>8, DeleteSeen

\* The cleanup puts a layer on the records it closes and touches finished ones without.
LEMMA CleanupChanges ==
  ASSUME TypeOK, TypeOK', CloseExpired
  PROVE  \E D, E \in SUBSET Records : Undo!SystemChange(D, E)
<1> PICK missed, done, stamped :
      /\ missed = {r \in expired : row[r].status \in {"pending", "confirmed", "arrived"}}
      /\ done = {r \in expired : row[r].status = "in_progress"}
      /\ stamped = IF done = {} THEN {} ELSE done \cup {r \in expired : row[r].status = "completed"}
  OBVIOUS
<1> PICK D, E : D = missed \cup done /\ E = stamped
  OBVIOUS
<1>1. /\ D # {}
      /\ row' = [r \in Records |->
           IF r \in D THEN [status |-> IF r \in done THEN "completed" ELSE "no_show",
                            approver |-> row[r].approver, seq |-> row[r].seq + 1]
           ELSE row[r]]
      /\ side' = [r \in Records |->
           IF r \in E /\ side[r].worker # NoRow THEN [side[r] EXCEPT !.finish = clock + 1] ELSE side[r]]
      /\ origin' = [r \in Records |->
           IF r \in D THEN [origin[r] EXCEPT ![row[r].seq + 1] = Origin(Nobody, r)] ELSE origin[r]]
  BY DEF CloseExpired, NextSeq
<1>2. D \in SUBSET Records /\ E \in SUBSET Records /\ \A r \in D \cup E : Live(r)
  BY DEF TypeOK, Live
<1>3. \A r \in D : Live(r)' /\ row'[r].seq = row[r].seq + 1
  BY <1>1, <1>2 DEF Live
<1>4. \A r \in Records \ D : row'[r] = row[r] /\ origin'[r] = origin[r] /\ (Live(r)' <=> Live(r))
  BY <1>1 DEF Live
<1>5. \A r \in Records \ (D \cup E) : Docs'[r] = Docs[r]
  BY <1>1, <1>4 DEF Docs, DocOf, State
<1>6. Gone' = Gone /\ (D \cup E) \cap Gone = {}
  BY <1>2, <1>3, <1>4 DEF Gone
<1>7. ASSUME NEW r \in D PROVE StackOf(r)' = Append(StackOf(r), [by |-> Nobody, before |-> DocOf(r)])
  <2>1. /\ r \in Records /\ Live(r) /\ Live(r)' /\ row'[r].seq = row[r].seq + 1
        /\ origin'[r] = [origin[r] EXCEPT ![row[r].seq + 1] = Origin(Nobody, r)]
    BY <1>1, <1>2, <1>3
  <2> QED BY <2>1, LayerAdded
<1>8. \A r \in Records \ D : StackOf(r)' = StackOf(r)
  BY <1>4 DEF StackOf
<1>9. /\ \A r \in D : Stacks'[r] = Append(Stacks[r], [by |-> Nobody, before |-> Docs[r]])
      /\ \A r \in Records \ D : Stacks'[r] = Stacks[r]
  BY <1>2, <1>7, <1>8 DEF Stacks, Docs
<1>10. Docs' \in [Records -> Snapshots]
  <2>1. StacksTyped'
    BY StackTyped, PTL
  <2> QED BY <2>1 DEF StacksTyped, Docs
<1>11. D # {}
  BY <1>1
<1>12. Undo!SystemChange(D, E)
  BY ZenonT(30), <1>5, <1>6, <1>9, <1>10, <1>11, SystemSeen
<1> QED BY <1>2, <1>12
LEMMA UndoInit == Init => Undo!Init
<1> SUFFICES ASSUME Init PROVE Undo!Init
  OBVIOUS
<1>1. TypeOK
  BY InitType
<1>2. ASSUME NEW r \in Records PROVE Live(r) /\ StackOf(r) = <<>> /\ DocOf(r) \in Snapshots
  <2>1. row[r].seq = 0 /\ Live(r)
    BY DEF Init, Live
  <2>2. StackOf(r) \in Seq(Layers) /\ Len(StackOf(r)) = 0 /\ DocOf(r) \in Snapshots
    BY <1>1, <2>1, StackTyped DEF StacksTyped
  <2> QED BY <2>1, <2>2
<1>3. Docs \in [Records -> Snapshots] /\ Stacks = [r \in Records |-> <<>>] /\ Gone = {}
  BY <1>2 DEF Docs, Stacks, Gone
<1> QED BY <1>3 DEF Undo!Init, Docs, Stacks, Gone, DocOf, StackOf

LEMMA UndoStep ==
  TypeOK /\ TypeOK' /\ SerialInv /\ PushesFresh /\ RevertsApart /\ JournalIsHistory /\ [Next]_vars
    => [Undo!Next]_(Undo!undoVars)
<1> SUFFICES ASSUME TypeOK, TypeOK', SerialInv, PushesFresh, RevertsApart, JournalIsHistory, [Next]_vars
             PROVE  Undo!Next \/ UNCHANGED Undo!undoVars
  OBVIOUS
<1>1. ASSUME NEW q \in Requests, Commit(q) PROVE Undo!Next
  BY <1>1, CommitChanges DEF Undo!Next
<1>2. ASSUME NEW q \in Requests, Restore(q) PROVE Undo!Next
  BY <1>2, RestoreUndoes DEF Undo!Next
<1>3. ASSUME NEW q \in Requests, FinishDelete(q) PROVE Undo!Next
  BY <1>3, DeleteRemoves DEF Undo!Next
<1>4. ASSUME CloseExpired PROVE Undo!Next
  BY <1>4, CleanupChanges DEF Undo!Next
<1>5. ASSUME NEW q \in Requests,
             \/ \E a \in Staff, r \in Records : FindLatest(q, a, r) \/ \E op \in Ops : Check(q, a, r, op)
             \/ ReadRecord(q) \/ Snapshot(q) \/ Push(q) \/ PushFails(q) \/ Match(q)
             \/ Consume(q) \/ ConsumeFails(q) \/ Fail(q)
             \/ \E r \in Records : BeginDelete(q, r)
      PROVE  UNCHANGED Undo!undoVars
  <2>1. UNCHANGED <<row, side, origin>>
    BY <1>5 DEF FindLatest, Check, ReadRecord, Snapshot, Push, PushFails, Match, Consume, ConsumeFails,
                Fail, BeginDelete
  <2> QED BY <2>1, NothingChanges
<1>6. ASSUME UNCHANGED vars \/ (\E a \in Staff : SlideWindow(a)) \/ \E r \in Records : DayEnds(r)
      PROVE  UNCHANGED Undo!undoVars
  <2>1. UNCHANGED <<row, side, origin>>
    BY <1>6 DEF vars, SlideWindow, DayEnds
  <2> QED BY <2>1, NothingChanges
<1> QED BY <1>1, <1>2, <1>3, <1>4, <1>5, <1>6 DEF Next

\* With serialized transactions, no failed removal and no entry reverted twice at
\* once, any number of requests with the journal and the sequence numbers implement
\* the abstract undo stack.
THEOREM ApartImplementsUndoStack ==
  ASSUME Serializable, ~ConsumeMayFail
  PROVE  Spec /\ []RevertsApart => UndoStackImplemented
<1>1. Spec /\ []RevertsApart => [](TypeOK /\ SerialInv /\ PushesFresh /\ RevertsApart /\ JournalIsHistory)
  BY InitType, StepType, InitSerial, StepSerial, InitFresh, StepFresh, InitHistory, StepHistory, PTL
  DEF Spec
<1>2. Spec /\ []RevertsApart => Undo!Spec
  BY <1>1, UndoInit, UndoStep, PTL DEF Spec, Undo!Spec
<1> QED BY <1>2 DEF UndoStackImplemented

\* Served one at a time, they do without any proviso.
THEOREM ImplementsUndoStack ==
  ASSUME Serializable, ~ConsumeMayFail, OneAtATime
  PROVE  Spec => UndoStackImplemented
  BY AloneApart, ApartImplementsUndoStack, PTL
=============================================================================
