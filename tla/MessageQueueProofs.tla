------------------------- MODULE MessageQueueProofs -------------------------
(***************************************************************************)
(* Theorems about MessageQueue, for any number of producers, any capacity, *)
(* number of attempts and bound on the messages.                           *)
(***************************************************************************)
EXTENDS MessageQueue, SequenceTheorems, TLAPS

\* The producers that hold a delivery id and have not pushed it yet.
Numbered == {p \in Producers : producer[p].pc = "numbered"}

\* Delivery ids are drawn in ascending order; the ones not drawn were never sent.
IdsDrawn ==
  /\ \A n \in 1..Len(items) : items[n].id <= seq
  /\ \A p \in Numbered : producer[p].id <= seq
  /\ \A i \in Ids : i > seq => calls[i] = 0

\* No delivery id is in two places.
IdsDistinct ==
  /\ \A m, n \in 1..Len(items) : items[m].id = items[n].id => m = n
  /\ \A p, q \in Numbered : producer[p].id = producer[q].id => p = q
  /\ \A p \in Numbered : \A n \in 1..Len(items) : items[n].id # producer[p].id

\* Only the head was ever sent, and its attempts count the calls that have been
\* answered and looked at.
AttemptsAreCalls ==
  /\ \A n \in 1..Len(items) : items[n].attempts < MaxAttempts
  /\ \A n \in 2..Len(items) : items[n].attempts = 0 /\ calls[items[n].id] = 0
  /\ \A p \in Numbered : calls[producer[p].id] = 0
  /\ items # <<>> =>
       /\ worker.pc \in {"sending", "answered"} => calls[items[1].id] = items[1].attempts + 1
       /\ worker.pc \notin {"sending", "answered", "stopped"} => calls[items[1].id] = items[1].attempts

\* How far the shutdown has come.
ShutdownOrder ==
  /\ (runner = "new") <=> (worker.pc = "new")
  /\ runner \notin {"new", "running"} => cancelled
  /\ runner \in {"new", "running"} => closed = {}
  /\ runner = "closing" => closed = {"manager"}
  /\ runner \in {"signal", "waiting", "done"} => closed = {"manager", "queue"}
  /\ runner = "done" => worker.pc = "stopped"

\* After a late call the worker only waits for the answer, and stops.
LateCallIsLast ==
  /\ ~cancelled => lateCalls = 0
  /\ lateCalls <= 1
  /\ lateCalls = 1 => worker.pc \in {"sending", "answered", "stopped"}

IInv ==
  /\ TypeOK
  /\ IdsDrawn
  /\ IdsDistinct
  /\ AttemptsAreCalls
  /\ WorkerHoldsHead
  /\ NoLostWakeup
  /\ ShutdownOrder
  /\ LateCallIsLast
-----------------------------------------------------------------------------
\* The steps that touch neither the queue, nor the delivery ids, nor the calls,
\* and leave the worker with or without a call that was not looked at.
Quiet ==
  /\ UNCHANGED <<seq, items, calls>>
  /\ worker'.pc \in {"sending", "answered"} => worker.pc \in {"sending", "answered"}
  /\ worker'.pc \notin {"sending", "answered", "stopped"} =>
       worker.pc \notin {"sending", "answered", "stopped"}
  /\ Numbered' \subseteq Numbered
  /\ \A p \in Numbered' : producer'[p] = producer[p]

\* The inductive invariant holds at the start.
THEOREM InitIInv == Init => IInv
<1> SUFFICES ASSUME Init PROVE IInv
  OBVIOUS
<1> USE ConstantsAssumption
<1>1. Numbered = {} /\ Len(items) = 0 /\ items = <<>>
  BY DEF Init, Numbered, Idle
<1>2. TypeOK
  <2>1. worker \in WorkerStates /\ producer \in [Producers -> ProducerStates]
    BY DEF Init, Idle, At, WorkerStates, ProducerStates
  <2>2. calls \in [Ids -> 0..MaxAttempts]
    BY DEF Init
  <2>3. items \in Seq(Items) /\ Len(items) <= QueueSize
    BY <1>1
  <2>4. fate \in [Ids -> {"none", "accepted", "refused", "sent", "dropped"}]
    BY DEF Init
  <2>5. seq \in 0..MaxMessages /\ lateCalls \in Nat
    BY DEF Init
  <2> QED BY <2>1, <2>2, <2>3, <2>4, <2>5 DEF Init, TypeOK
<1>3. IdsDrawn /\ IdsDistinct /\ AttemptsAreCalls
  BY <1>1 DEF Init, IdsDrawn, IdsDistinct, AttemptsAreCalls
<1>4. WorkerHoldsHead /\ NoLostWakeup /\ ShutdownOrder /\ LateCallIsLast
  BY DEF Init, At, WorkerHoldsHead, InHand, NoLostWakeup, ShutdownOrder, LateCallIsLast
<1> QED BY <1>2, <1>3, <1>4 DEF IInv

\* What an append, and taking away the head, do to the positions of the queue.
LEMMA AppendPositions ==
  ASSUME NEW S, NEW s \in Seq(S), NEW d \in S
  PROVE  /\ Append(s, d) \in Seq(S)
         /\ Len(Append(s, d)) = Len(s) + 1
         /\ \A n \in 1..Len(s) : Append(s, d)[n] = s[n]
         /\ Append(s, d)[Len(s) + 1] = d
  OBVIOUS

LEMMA TailPositions ==
  ASSUME NEW S, NEW s \in Seq(S), s # <<>>
  PROVE  /\ Tail(s) \in Seq(S)
         /\ Len(Tail(s)) = Len(s) - 1
         /\ \A n \in 1..Len(s) - 1 : Tail(s)[n] = s[n + 1]
         /\ Len(s) > 0
         /\ Head(s) = s[1]
         /\ s[1] \in S
  OBVIOUS

LEMMA HeadPositions ==
  ASSUME NEW S, NEW s \in Seq(S), NEW d \in S, s # <<>>
  PROVE  /\ [s EXCEPT ![1] = d] \in Seq(S)
         /\ Len([s EXCEPT ![1] = d]) = Len(s)
         /\ [s EXCEPT ![1] = d][1] = d
         /\ \A n \in 2..Len(s) : [s EXCEPT ![1] = d][n] = s[n]
  OBVIOUS

\* What the actions rely on, field by field.
LEMMA Fields ==
  ASSUME TypeOK
  PROVE  /\ \A p \in Producers :
              /\ producer[p].pc \in {"idle", "numbered", "signal"}
              /\ producer[p].pc # "idle" => producer[p].id \in Ids
         /\ worker.pc \in {"new", "head", "asleep", "stopped", "timer", "sending", "answered"}
         /\ InHand => worker.id \in Ids
         /\ worker.pc = "answered" => worker.answer \in Answers
  BY DEF TypeOK, ProducerStates, WorkerStates, InHand

LEMMA HeadIsItem ==
  ASSUME TypeOK, items # <<>>
  PROVE  /\ Len(items) > 0
         /\ Head(items) = items[1]
         /\ items[1] \in Items
         /\ items[1].id \in Ids
         /\ items[1].attempts \in 0..MaxAttempts
<1>1. items \in Seq(Items)
  BY DEF TypeOK
<1>2. Len(items) > 0 /\ Head(items) = items[1] /\ items[1] \in Items
  BY <1>1, TailPositions
<1> QED BY <1>2 DEF Items

\* TypeOK needs the link between calls and attempts: no call is one too many.
LEMMA TypeStep ==
  ASSUME TypeOK, AttemptsAreCalls, WorkerHoldsHead, ShutdownOrder, Next
  PROVE  TypeOK'
<1> USE ConstantsAssumption, Fields
<1>1. CASE \E p \in Producers : Enqueue(p)
  <2> PICK p \in Producers : Enqueue(p)
    BY <1>1
  <2>1. seq + 1 \in Ids /\ seq' \in 0..MaxMessages
    BY DEF Enqueue, TypeOK, Ids
  <2>2. producer' \in [Producers -> ProducerStates]
    BY <2>1 DEF Enqueue, TypeOK, ProducerGoes, ProducerStates
  <2> QED BY <2>1, <2>2 DEF Enqueue, TypeOK
<1>2. CASE \E p \in Producers : Push(p)
  <2> PICK p \in Producers : Push(p)
    BY <1>2
  <2> DEFINE d == [id |-> producer[p].id, attempts |-> 0]
  <2>1. producer[p].id \in Ids /\ d \in Items
    BY DEF Push, Items
  <2>2. items' = Append(items, d)
    BY DEF Push, PushedBack
  <2>3. items' \in Seq(Items) /\ Len(items') <= QueueSize
    <3>1. items \in Seq(Items) /\ Len(items) < QueueSize
      BY DEF TypeOK, Push
    <3>2. items' \in Seq(Items) /\ Len(items') = Len(items) + 1
      BY <2>1, <2>2, <3>1, AppendPositions
    <3> QED BY <3>1, <3>2, LenProperties
  <2>4. producer' \in [Producers -> ProducerStates]
    BY <2>1 DEF Push, TypeOK, ProducerGoes, ProducerStates, Signals
  <2>5. fate' \in [Ids -> {"none", "accepted", "refused", "sent", "dropped"}]
    BY <2>1 DEF Push, TypeOK
  <2> QED BY <2>3, <2>4, <2>5 DEF Push, TypeOK
<1>3. CASE \E p \in Producers : Refuse(p) \/ Signal(p)
  <2> PICK p \in Producers : Refuse(p) \/ Signal(p)
    BY <1>3
  <2>1. producer' = [producer EXCEPT ![p] = Idle] /\ Idle \in ProducerStates
    BY DEF Refuse, Signal, ProducerGoes, ProducerStates, Idle
  <2>2. fate' \in [Ids -> {"none", "accepted", "refused", "sent", "dropped"}]
    BY DEF Refuse, Signal, TypeOK
  <2>3. producer' \in [Producers -> ProducerStates]
    BY <2>1 DEF TypeOK
  <2> QED BY <2>2, <2>3 DEF Refuse, Signal, TypeOK
<1>4. CASE Look \/ Wake \/ GiveUp \/ StopAfterSend \/ \E a \in Answers : Answer(a)
  <2>1. worker' \in WorkerStates
    <3>1. CASE Look
      BY <3>1, HeadIsItem DEF Look, WorkerStates, At
    <3>2. CASE Wake \/ GiveUp \/ StopAfterSend
      BY <3>2 DEF Wake, GiveUp, StopAfterSend, WorkerStates, At
    <3>3. CASE \E a \in Answers : Answer(a)
      BY <3>3 DEF Answer, WorkerStates, InHand
    <3> QED BY <1>4, <3>1, <3>2, <3>3
  <2> QED BY <1>4, <2>1 DEF Look, Wake, GiveUp, StopAfterSend, Answer, TypeOK
<1>5. CASE Send
  <2>1. worker.id \in Ids /\ worker' \in WorkerStates
    BY <1>5 DEF Send, WorkerStates, InHand
  <2>2. calls[worker.id] < MaxAttempts /\ calls[worker.id] \in 0..MaxAttempts
    <3>1. worker.pc = "timer" /\ InHand
      BY <1>5 DEF Send, InHand, At
    <3>2. items # <<>> /\ Head(items).id = worker.id
      BY <3>1 DEF WorkerHoldsHead
    <3>3. 1 \in 1..Len(items) /\ items[1].id = worker.id /\ items[1].attempts \in Nat
      BY <3>2, HeadIsItem, ConstantsAssumption
    <3>4. calls[worker.id] = items[1].attempts /\ items[1].attempts < MaxAttempts
      BY <3>1, <3>2, <3>3 DEF AttemptsAreCalls
    <3> QED BY <3>3, <3>4, ConstantsAssumption
  <2>3. calls' \in [Ids -> 0..MaxAttempts]
    BY <1>5, <2>1, <2>2 DEF Send, TypeOK
  <2>4. lateCalls' \in Nat
    BY <1>5 DEF Send, TypeOK
  <2> QED BY <1>5, <2>1, <2>3, <2>4 DEF Send, TypeOK
<1>6. CASE Settle
  <2>1. items # <<>>
    BY <1>6 DEF Settle, WorkerHoldsHead, InHand
  <2>2. items' \in Seq(Items) /\ Len(items') <= QueueSize
    BY <1>6, <2>1, TailPositions DEF Settle, TypeOK
  <2>3. fate' \in [Ids -> {"none", "accepted", "refused", "sent", "dropped"}]
    BY <1>6, <2>1, HeadIsItem DEF Settle, TypeOK
  <2>4. worker' \in WorkerStates
    BY <1>6 DEF Settle, WorkerStates, At
  <2> QED BY <1>6, <2>2, <2>3, <2>4 DEF Settle, TypeOK
<1>7. CASE Retry
  <2>1. items # <<>>
    BY <1>7 DEF Retry, WorkerHoldsHead, InHand
  <2> DEFINE d == [Head(items) EXCEPT !.attempts = @ + 1]
  <2>2. d \in Items
    BY <1>7, <2>1, HeadIsItem DEF Retry, LastAttempt, Items
  <2>3. items' = [items EXCEPT ![1] = d]
    BY <1>7 DEF Retry, Kept
  <2>4. items' \in Seq(Items) /\ Len(items') <= QueueSize
    BY <2>1, <2>2, <2>3, HeadPositions DEF TypeOK
  <2>5. worker' \in WorkerStates
    BY <1>7 DEF Retry, WorkerStates, At
  <2> QED BY <1>7, <2>4, <2>5 DEF Retry, TypeOK
<1>8. CASE RunnerStep \/ Cancel
  <2>1. worker' \in WorkerStates
    BY <1>8 DEF RunnerStep, Start, CloseManager, CloseQueue, SignalClose, Return, Cancel,
      WorkerStates, At, TypeOK
  <2>2. closed' \in {{}, {"manager"}, {"manager", "queue"}}
    BY <1>8 DEF RunnerStep, Start, CloseManager, CloseQueue, SignalClose, Return, Cancel, TypeOK,
      ShutdownOrder
  <2> QED BY <1>8, <2>1, <2>2 DEF RunnerStep, Start, CloseManager, CloseQueue, SignalClose,
        Return, Cancel, TypeOK
<1> QED BY <1>1, <1>2, <1>3, <1>4, <1>5, <1>6, <1>7, <1>8 DEF Next, ProducerStep, WorkerStep
-----------------------------------------------------------------------------
BookKeeping == IdsDrawn /\ IdsDistinct /\ AttemptsAreCalls

LEMMA NumberedHaveIds ==
  ASSUME TypeOK
  PROVE  \A p \in Numbered : p \in Producers /\ producer[p].pc = "numbered" /\ producer[p].id \in Ids
  BY Fields DEF Numbered

LEMMA ItemsHaveIds ==
  ASSUME TypeOK
  PROVE  /\ Len(items) \in Nat
         /\ items = <<>> <=> Len(items) = 0
         /\ \A n \in 1..Len(items) : items[n].id \in Ids /\ items[n].attempts \in 0..MaxAttempts
<1>1. items \in Seq(Items) /\ Len(items) \in Nat
  BY LenProperties DEF TypeOK
<1>2. \A n \in 1..Len(items) : items[n] \in Items
  BY <1>1
<1>3. items = <<>> <=> Len(items) = 0
  BY <1>1
<1> QED BY <1>1, <1>2, <1>3 DEF Items

LEMMA QuietBookKeeping ==
  ASSUME BookKeeping, Quiet
  PROVE  BookKeeping'
<1>1. /\ items' = items /\ calls' = calls /\ seq' = seq
      /\ \A p \in Numbered' : p \in Numbered /\ producer'[p] = producer[p]
  BY DEF Quiet
<1>2. IdsDrawn'
  BY <1>1 DEF BookKeeping, IdsDrawn
<1>3. IdsDistinct'
  BY <1>1 DEF BookKeeping, IdsDistinct
<1>4. AttemptsAreCalls'
  <2>1. /\ \A n \in 1..Len(items) : items'[n].attempts < MaxAttempts
        /\ \A n \in 2..Len(items) : items'[n].attempts = 0 /\ calls'[items'[n].id] = 0
        /\ \A p \in Numbered' : calls'[producer'[p].id] = 0
    BY <1>1 DEF BookKeeping, AttemptsAreCalls
  <2>2. items' # <<>> =>
          /\ worker'.pc \in {"sending", "answered"} => calls'[items'[1].id] = items'[1].attempts + 1
          /\ worker'.pc \notin {"sending", "answered", "stopped"} =>
               calls'[items'[1].id] = items'[1].attempts
    BY <1>1 DEF BookKeeping, AttemptsAreCalls, Quiet
  <2> QED BY <1>1, <2>1, <2>2 DEF AttemptsAreCalls
<1> QED BY <1>2, <1>3, <1>4 DEF BookKeeping

LEMMA EnqueueBookKeeping ==
  ASSUME TypeOK, BookKeeping, NEW p \in Producers, Enqueue(p)
  PROVE  BookKeeping'
<1> USE ConstantsAssumption
<1>1. /\ items' = items /\ calls' = calls /\ worker' = worker
      /\ seq \in Nat /\ seq' = seq + 1 /\ seq + 1 \in Ids
  BY DEF Enqueue, TypeOK, Ids
<1>2. producer'[p] = [pc |-> "numbered", id |-> seq + 1]
  BY DEF Enqueue, ProducerGoes, TypeOK
<1>3. \A q \in Numbered' : q # p => q \in Numbered /\ producer'[q] = producer[q]
  BY DEF Enqueue, ProducerGoes, TypeOK, Numbered
<1>4. producer'[p].id = seq + 1
  BY <1>2
<1>5. calls[seq + 1] = 0
  BY <1>1 DEF BookKeeping, IdsDrawn
<1>6. /\ \A n \in 1..Len(items) : items[n].id <= seq /\ items[n].id \in Nat
      /\ \A q \in Numbered : producer[q].id <= seq /\ producer[q].id \in Nat
  BY ItemsHaveIds, NumberedHaveIds DEF BookKeeping, IdsDrawn, Ids
<1>7. IdsDrawn'
  <2>1. \A n \in 1..Len(items') : items'[n].id <= seq'
    BY <1>1, <1>6
  <2>2. \A q \in Numbered' : producer'[q].id <= seq'
    BY <1>1, <1>3, <1>4, <1>6
  <2>3. \A i \in Ids : i > seq' => calls'[i] = 0
    BY <1>1 DEF BookKeeping, IdsDrawn, Ids
  <2> QED BY <2>1, <2>2, <2>3 DEF IdsDrawn
<1>8. IdsDistinct'
  <2>1. \A m, n \in 1..Len(items') : items'[m].id = items'[n].id => m = n
    BY <1>1 DEF BookKeeping, IdsDistinct
  <2>2. \A q, r \in Numbered' : producer'[q].id = producer'[r].id => q = r
    BY <1>1, <1>3, <1>4, <1>6 DEF BookKeeping, IdsDistinct
  <2>3. \A q \in Numbered' : \A n \in 1..Len(items') : items'[n].id # producer'[q].id
    BY <1>1, <1>3, <1>4, <1>6 DEF BookKeeping, IdsDistinct
  <2> QED BY <2>1, <2>2, <2>3 DEF IdsDistinct
<1>9. AttemptsAreCalls'
  <2>1. \A q \in Numbered' : calls'[producer'[q].id] = 0
    BY <1>1, <1>3, <1>4, <1>5 DEF BookKeeping, AttemptsAreCalls
  <2> QED BY <1>1, <2>1 DEF BookKeeping, AttemptsAreCalls
<1> QED BY <1>7, <1>8, <1>9 DEF BookKeeping

LEMMA PushBookKeeping ==
  ASSUME TypeOK, BookKeeping, WorkerHoldsHead, NEW p \in Producers, Push(p)
  PROVE  BookKeeping'
<1> USE ConstantsAssumption
<1> DEFINE i == producer[p].id
<1>1. p \in Numbered /\ i \in Ids
  BY Fields DEF Push, Numbered
<1>2. /\ calls' = calls /\ worker' = worker /\ seq' = seq
      /\ items' = Append(items, [id |-> i, attempts |-> 0])
  BY DEF Push, PushedBack
<1>3. \A q \in Numbered' : q # p /\ q \in Numbered /\ producer'[q] = producer[q]
  BY DEF Push, ProducerGoes, Signals, TypeOK, Numbered
<1>4. /\ Len(items') = Len(items) + 1 /\ Len(items) \in Nat
      /\ \A n \in 1..Len(items) : items'[n] = items[n]
      /\ items'[Len(items) + 1] = [id |-> i, attempts |-> 0]
  <2>1. items \in Seq(Items) /\ [id |-> i, attempts |-> 0] \in Items
    BY <1>1 DEF TypeOK, Items
  <2> QED BY <1>2, <2>1, AppendPositions, LenProperties
<1>5. items'[Len(items) + 1].id = i /\ items'[Len(items) + 1].attempts = 0
  BY <1>4
<1>6. i <= seq /\ calls[i] = 0 /\ \A n \in 1..Len(items) : items[n].id # i
  BY <1>1 DEF BookKeeping, IdsDrawn, IdsDistinct, AttemptsAreCalls
<1>7. \A n \in 1..Len(items') : n \in 1..Len(items) \/ n = Len(items) + 1
  BY <1>4
<1> HIDE DEF i
<1>8. IdsDrawn'
  BY <1>2, <1>3, <1>4, <1>5, <1>6, <1>7 DEF BookKeeping, IdsDrawn
<1>9. IdsDistinct'
  <2>1. \A m, n \in 1..Len(items') : items'[m].id = items'[n].id => m = n
    BY <1>4, <1>5, <1>6, <1>7 DEF BookKeeping, IdsDistinct
  <2>2. \A q, r \in Numbered' : producer'[q].id = producer'[r].id => q = r
    BY <1>3 DEF BookKeeping, IdsDistinct
  <2>3. \A q \in Numbered' : \A n \in 1..Len(items') : items'[n].id # producer'[q].id
    <3> SUFFICES ASSUME NEW q \in Numbered', NEW n \in 1..Len(items') PROVE items'[n].id # producer'[q].id
      OBVIOUS
    <3>1. producer'[q].id # i
      BY <1>1, <1>3 DEF BookKeeping, IdsDistinct, i
    <3> QED BY <1>3, <1>4, <1>5, <1>7, <3>1 DEF BookKeeping, IdsDistinct
  <2> QED BY <2>1, <2>2, <2>3 DEF IdsDistinct
<1>10. AttemptsAreCalls'
  <2>1. \A n \in 1..Len(items') : items'[n].attempts < MaxAttempts
    BY <1>4, <1>5, <1>7 DEF BookKeeping, AttemptsAreCalls
  <2>2. \A n \in 2..Len(items') : items'[n].attempts = 0 /\ calls'[items'[n].id] = 0
    BY <1>2, <1>4, <1>5, <1>6, <1>7 DEF BookKeeping, AttemptsAreCalls
  <2>3. \A q \in Numbered' : calls'[producer'[q].id] = 0
    BY <1>2, <1>3 DEF BookKeeping, AttemptsAreCalls
  <2>4. CASE items = <<>>
    <3>1. worker.pc \notin {"sending", "answered"}
      BY <2>4 DEF WorkerHoldsHead, InHand
    <3>2. calls'[items'[1].id] = items'[1].attempts
      BY <1>2, <1>5, <1>6, <2>4
    <3> QED BY <1>2, <2>1, <2>2, <2>3, <3>1, <3>2 DEF AttemptsAreCalls
  <2>5. CASE items # <<>>
    <3>1. items'[1] = items[1]
      BY <1>4, <2>5, ItemsHaveIds
    <3>2. /\ worker'.pc \in {"sending", "answered"} => calls'[items'[1].id] = items'[1].attempts + 1
          /\ worker'.pc \notin {"sending", "answered", "stopped"} =>
               calls'[items'[1].id] = items'[1].attempts
      BY <1>2, <2>5, <3>1 DEF BookKeeping, AttemptsAreCalls
    <3> QED BY <2>1, <2>2, <2>3, <3>2 DEF AttemptsAreCalls
  <2> QED BY <2>4, <2>5
<1> QED BY <1>8, <1>9, <1>10 DEF BookKeeping

LEMMA SendBookKeeping ==
  ASSUME TypeOK, BookKeeping, WorkerHoldsHead, Send
  PROVE  BookKeeping'
<1> USE ConstantsAssumption
<1>1. /\ items # <<>> /\ worker.id = items[1].id /\ items[1].id \in Ids /\ Len(items) > 0
      /\ worker.pc = "timer"
  BY HeadIsItem DEF WorkerHoldsHead, InHand, Send
<1>2. /\ items' = items /\ seq' = seq /\ producer' = producer /\ Numbered' = Numbered
      /\ calls' = [calls EXCEPT ![worker.id] = @ + 1] /\ worker'.pc = "sending"
  BY DEF Send, Numbered
<1>3. /\ calls'[items[1].id] = calls[items[1].id] + 1
      /\ \A i \in Ids : i # items[1].id => calls'[i] = calls[i]
  BY <1>1, <1>2 DEF TypeOK
<1>4. \A n \in 2..Len(items) : items[n].id # items[1].id /\ items[n].id \in Ids
  BY <1>1, ItemsHaveIds DEF BookKeeping, IdsDistinct
<1>5. \A p \in Numbered : producer[p].id # items[1].id /\ producer[p].id \in Ids
  BY <1>1, NumberedHaveIds, ItemsHaveIds DEF BookKeeping, IdsDistinct
<1>6. items[1].id <= seq /\ seq \in Nat
  BY <1>1, ItemsHaveIds DEF BookKeeping, IdsDrawn, TypeOK
<1>7. IdsDrawn'
  BY <1>2, <1>3, <1>6 DEF BookKeeping, IdsDrawn, Ids
<1>8. IdsDistinct'
  BY <1>2 DEF BookKeeping, IdsDistinct
<1>9. AttemptsAreCalls'
  <2>1. calls[items[1].id] = items[1].attempts
    BY <1>1 DEF BookKeeping, AttemptsAreCalls
  <2>2. \A n \in 2..Len(items') : items'[n].attempts = 0 /\ calls'[items'[n].id] = 0
    BY <1>2, <1>3, <1>4 DEF BookKeeping, AttemptsAreCalls
  <2>3. \A p \in Numbered' : calls'[producer'[p].id] = 0
    BY <1>2, <1>3, <1>5 DEF BookKeeping, AttemptsAreCalls
  <2> QED BY <1>2, <1>3, <2>1, <2>2, <2>3 DEF BookKeeping, AttemptsAreCalls
<1> QED BY <1>7, <1>8, <1>9 DEF BookKeeping

LEMMA SettleBookKeeping ==
  ASSUME TypeOK, BookKeeping, WorkerHoldsHead, Settle
  PROVE  BookKeeping'
<1> USE ConstantsAssumption
<1>1. items # <<>>
  BY DEF WorkerHoldsHead, InHand, Settle
<1>2. /\ items' = Tail(items) /\ seq' = seq /\ calls' = calls /\ producer' = producer
      /\ Numbered' = Numbered /\ worker'.pc = "head"
  BY DEF Settle, Numbered, At
<1>3. /\ Len(items) > 0 /\ Len(items') = Len(items) - 1 /\ Len(items) \in Nat
      /\ \A n \in 1..Len(items) - 1 : items'[n] = items[n + 1]
      /\ items' \in Seq(Items)
  <2>1. items \in Seq(Items)
    BY DEF TypeOK
  <2> QED BY <1>1, <1>2, <2>1, TailPositions, LenProperties
<1>4. \A n \in 1..Len(items') : n + 1 \in 2..Len(items) /\ items'[n] = items[n + 1]
  BY <1>3
<1>5. IdsDrawn'
  BY <1>2, <1>3, <1>4 DEF BookKeeping, IdsDrawn
<1>6. IdsDistinct'
  <2>1. \A m, n \in 1..Len(items') : items'[m].id = items'[n].id => m = n
    <3> SUFFICES ASSUME NEW m \in 1..Len(items'), NEW n \in 1..Len(items'),
                        items'[m].id = items'[n].id
                 PROVE  m = n
      OBVIOUS
    <3>1. m + 1 = n + 1
      BY <1>3, <1>4 DEF BookKeeping, IdsDistinct
    <3> QED BY <1>3, <3>1
  <2> QED BY <1>2, <1>3, <1>4, <2>1 DEF BookKeeping, IdsDistinct
<1>7. AttemptsAreCalls'
  <2>1. /\ \A n \in 1..Len(items') : items'[n].attempts = 0 /\ calls'[items'[n].id] = 0
        /\ \A n \in 1..Len(items') : items'[n].attempts < MaxAttempts
    BY <1>2, <1>3, <1>4 DEF BookKeeping, AttemptsAreCalls
  <2>2. items' # <<>> => 1 \in 1..Len(items')
    BY <1>3
  <2> QED BY <1>2, <1>3, <2>1, <2>2 DEF BookKeeping, AttemptsAreCalls
<1> QED BY <1>5, <1>6, <1>7 DEF BookKeeping

LEMMA RetryBookKeeping ==
  ASSUME TypeOK, BookKeeping, WorkerHoldsHead, Retry
  PROVE  /\ BookKeeping'
         /\ Len(items') = Len(items)
         /\ \A n \in 1..Len(items) : items'[n].id = items[n].id
<1> USE ConstantsAssumption
<1> DEFINE d == [Head(items) EXCEPT !.attempts = @ + 1]
<1>1. /\ items # <<>> /\ Len(items) > 0 /\ Head(items) = items[1] /\ items[1] \in Items
      /\ items[1].attempts \in Nat
  BY HeadIsItem DEF WorkerHoldsHead, InHand, Retry
<1>2. /\ items' = [items EXCEPT ![1] = d] /\ seq' = seq /\ calls' = calls /\ producer' = producer
      /\ Numbered' = Numbered /\ worker'.pc = "head" /\ worker.pc = "answered"
      /\ ~LastAttempt(Head(items).attempts)
  BY DEF Retry, Numbered, At, Kept
<1>3. d \in Items /\ d.id = items[1].id /\ d.attempts = items[1].attempts + 1 /\ d.attempts < MaxAttempts
  BY <1>1, <1>2 DEF LastAttempt, Items
<1> HIDE DEF d
<1>4. /\ Len(items') = Len(items) /\ Len(items) \in Nat
      /\ items'[1] = d /\ \A n \in 2..Len(items) : items'[n] = items[n]
      /\ items' \in Seq(Items)
  <2>1. items \in Seq(Items)
    BY DEF TypeOK
  <2> QED BY <1>1, <1>2, <1>3, <2>1, HeadPositions, LenProperties
<1>5. \A n \in 1..Len(items) : n = 1 \/ n \in 2..Len(items)
  BY <1>4
<1>6. \A n \in 1..Len(items) : items'[n].id = items[n].id
  BY <1>3, <1>4, <1>5
<1>7. IdsDrawn'
  BY <1>2, <1>4, <1>6 DEF BookKeeping, IdsDrawn
<1>8. IdsDistinct'
  BY <1>2, <1>4, <1>6 DEF BookKeeping, IdsDistinct
<1>9. AttemptsAreCalls'
  <2>1. calls[items[1].id] = items[1].attempts + 1
    BY <1>1, <1>2 DEF BookKeeping, AttemptsAreCalls
  <2>2. \A n \in 1..Len(items') : items'[n].attempts < MaxAttempts
    BY <1>3, <1>4, <1>5 DEF BookKeeping, AttemptsAreCalls
  <2>3. \A n \in 2..Len(items') : items'[n].attempts = 0 /\ calls'[items'[n].id] = 0
    BY <1>2, <1>4 DEF BookKeeping, AttemptsAreCalls
  <2>4. calls'[items'[1].id] = items'[1].attempts
    BY <1>2, <1>3, <1>4, <2>1
  <2> QED BY <1>2, <2>2, <2>3, <2>4 DEF BookKeeping, AttemptsAreCalls
<1> QED BY <1>4, <1>6, <1>7, <1>8, <1>9 DEF BookKeeping

\* The actions that are Quiet.
QuietAction ==
  \/ \E p \in Producers : Refuse(p) \/ Signal(p)
  \/ Look \/ Wake \/ GiveUp \/ StopAfterSend \/ (\E a \in Answers : Answer(a))
  \/ RunnerStep \/ Cancel

LEMMA QuietActionsAreQuiet ==
  ASSUME TypeOK, ShutdownOrder, QuietAction
  PROVE  Quiet
<1>1. CASE \E p \in Producers : Refuse(p) \/ Signal(p)
  <2> PICK p \in Producers : Refuse(p) \/ Signal(p)
    BY <1>1
  <2>1. \A q \in Numbered' : q \in Numbered /\ producer'[q] = producer[q]
    BY DEF Refuse, Signal, ProducerGoes, Idle, Numbered, TypeOK
  <2> QED BY <2>1 DEF Refuse, Signal, Quiet
<1>2. CASE Look \/ Wake \/ GiveUp \/ StopAfterSend \/ \E a \in Answers : Answer(a)
  <2>1. UNCHANGED <<seq, items, calls, producer>>
    BY <1>2 DEF Look, Wake, GiveUp, StopAfterSend, Answer
  <2>2. /\ worker'.pc \in {"sending", "answered"} => worker.pc \in {"sending", "answered"}
        /\ worker'.pc \notin {"sending", "answered", "stopped"} =>
             worker.pc \notin {"sending", "answered", "stopped"}
    BY <1>2 DEF Look, Wake, GiveUp, StopAfterSend, Answer, At
  <2> QED BY <2>1, <2>2 DEF Quiet, Numbered
<1>3. CASE RunnerStep \/ Cancel
  <2>1. UNCHANGED <<seq, items, calls, producer>>
    BY <1>3 DEF RunnerStep, Start, CloseManager, CloseQueue, SignalClose, Return, Cancel
  <2>2. worker' = worker \/ (worker.pc = "new" /\ worker'.pc = "head")
    BY <1>3 DEF RunnerStep, Start, CloseManager, CloseQueue, SignalClose, Return, Cancel, At,
      ShutdownOrder
  <2> QED BY <2>1, <2>2 DEF Quiet, Numbered
<1> QED BY <1>1, <1>2, <1>3 DEF QuietAction

LEMMA BookKeepingStep ==
  ASSUME TypeOK, BookKeeping, WorkerHoldsHead, ShutdownOrder, Next
  PROVE  BookKeeping'
<1>1. CASE QuietAction
  BY <1>1, QuietActionsAreQuiet, QuietBookKeeping
<1>2. CASE \E p \in Producers : Enqueue(p) \/ Push(p)
  BY <1>2, EnqueueBookKeeping, PushBookKeeping
<1>3. CASE Send \/ Settle \/ Retry
  BY <1>3, SendBookKeeping, SettleBookKeeping, RetryBookKeeping
<1> QED BY <1>1, <1>2, <1>3 DEF Next, ProducerStep, WorkerStep, QuietAction

LEMMA WorkerHoldsHeadStep ==
  ASSUME TypeOK, WorkerHoldsHead, ShutdownOrder, Next
  PROVE  WorkerHoldsHead'
<1> SUFFICES ASSUME InHand' PROVE items' # <<>> /\ worker'.id = Head(items').id
  BY DEF WorkerHoldsHead
<1>1. CASE \E p \in Producers : Push(p)
  <2> PICK p \in Producers : Push(p)
    BY <1>1
  <2> DEFINE d == [id |-> producer[p].id, attempts |-> 0]
  <2>1. items # <<>> /\ worker' = worker /\ worker.id = items[1].id
    BY HeadIsItem DEF Push, InHand, WorkerHoldsHead
  <2>2. items \in Seq(Items) /\ d \in Items /\ items' = Append(items, d)
    <3>1. producer[p].id \in Ids
      BY Fields DEF Push
    <3> QED BY <3>1, ConstantsAssumption DEF Push, PushedBack, TypeOK, Items
  <2>3. Len(items) > 0 /\ Len(items) \in Nat
    BY <2>1, <2>2, LenProperties, HeadIsItem
  <2>4. /\ items' \in Seq(Items) /\ Len(items') = Len(items) + 1
        /\ items'[1] = items[1]
    BY <2>2, <2>3, AppendPositions
  <2>5. items' # <<>> /\ Head(items') = items'[1]
    BY <2>3, <2>4, TailPositions
  <2> QED BY <2>1, <2>4, <2>5
<1>2. CASE Look
  BY <1>2 DEF Look, InHand, At
<1>3. CASE Send \/ \E a \in Answers : Answer(a)
  BY <1>3 DEF Send, Answer, InHand, WorkerHoldsHead
<1>4. CASE Wake \/ GiveUp \/ StopAfterSend \/ Settle \/ Retry
  BY <1>4 DEF Wake, GiveUp, StopAfterSend, Settle, Retry, InHand, At
<1>5. CASE RunnerStep \/ Cancel
  BY <1>5 DEF RunnerStep, Start, CloseManager, CloseQueue, SignalClose, Return, Cancel, At,
    InHand, WorkerHoldsHead
<1>6. CASE \E p \in Producers : Enqueue(p) \/ Refuse(p) \/ Signal(p)
  BY <1>6 DEF Enqueue, Refuse, Signal, InHand, WorkerHoldsHead
<1> QED BY <1>1, <1>2, <1>3, <1>4, <1>5, <1>6 DEF Next, ProducerStep, WorkerStep

LEMMA NoLostWakeupStep ==
  ASSUME TypeOK, NoLostWakeup, ShutdownOrder, Next
  PROVE  NoLostWakeup'
<1> DEFINE Waker == notify \/ \E p \in Producers : producer[p].pc = "signal"
<1> SUFFICES ASSUME worker'.pc = "asleep"
             PROVE  /\ items' # <<>> => Waker'
                    /\ "queue" \in closed' => notify' \/ runner' = "signal"
  BY DEF NoLostWakeup
<1>1. CASE \E p \in Producers : Enqueue(p) \/ Refuse(p)
  <2> PICK p \in Producers : Enqueue(p) \/ Refuse(p)
    BY <1>1
  <2>1. \A q \in Producers : producer[q].pc = "signal" => producer'[q].pc = "signal"
    BY DEF Enqueue, Refuse, ProducerGoes, TypeOK, Idle
  <2> QED BY <2>1 DEF Enqueue, Refuse, NoLostWakeup
<1>2. CASE \E p \in Producers : Push(p)
  <2> PICK p \in Producers : Push(p)
    BY <1>2
  <2>1. producer'[p].pc = "signal"
    BY DEF Push, ProducerGoes, Signals, TypeOK
  <2> QED BY <2>1 DEF Push, NoLostWakeup
<1>3. CASE (\E p \in Producers : Signal(p)) \/ SignalClose
  BY <1>3 DEF Signal, SignalClose, NoLostWakeup
<1>4. CASE Look
  BY <1>4 DEF Look, At
<1>5. CASE Wake \/ GiveUp \/ Send \/ StopAfterSend \/ Settle \/ Retry \/ \E a \in Answers : Answer(a)
  BY <1>5 DEF Wake, GiveUp, Send, StopAfterSend, Settle, Retry, Answer, At
<1>6. CASE Start
  BY <1>6 DEF Start, At
<1>7. CASE CloseManager \/ CloseQueue \/ Return \/ Cancel
  BY <1>7 DEF CloseManager, CloseQueue, Return, Cancel, NoLostWakeup, ShutdownOrder
<1> QED BY <1>1, <1>2, <1>3, <1>4, <1>5, <1>6, <1>7 DEF Next, ProducerStep, WorkerStep, RunnerStep

LEMMA ShutdownOrderStep ==
  ASSUME TypeOK, ShutdownOrder, Next
  PROVE  ShutdownOrder'
<1>1. CASE RunnerStep \/ Cancel
  BY <1>1 DEF RunnerStep, Start, CloseManager, CloseQueue, SignalClose, Return, Cancel, At,
    ShutdownOrder
<1>2. CASE WorkerStep
  BY <1>2 DEF WorkerStep, Look, Wake, GiveUp, Send, StopAfterSend, Settle, Retry, Answer, At,
    ShutdownOrder
<1>3. CASE \E p \in Producers : Enqueue(p) \/ ProducerStep(p)
  BY <1>3 DEF Enqueue, ProducerStep, Push, Refuse, Signal, ShutdownOrder
<1> QED BY <1>1, <1>2, <1>3 DEF Next

LEMMA LateCallStep ==
  ASSUME TypeOK, LateCallIsLast, ShutdownOrder, Next
  PROVE  LateCallIsLast'
<1>1. CASE RunnerStep \/ Cancel
  BY <1>1 DEF RunnerStep, Start, CloseManager, CloseQueue, SignalClose, Return, Cancel, At,
    ShutdownOrder, LateCallIsLast
<1>2. CASE Send
  BY <1>2 DEF Send, LateCallIsLast, TypeOK
<1>3. CASE Look \/ Wake \/ GiveUp \/ StopAfterSend \/ Settle \/ Retry \/ \E a \in Answers : Answer(a)
  BY <1>3 DEF Look, Wake, GiveUp, StopAfterSend, Settle, Retry, Answer, At, GoesOn, LateCallIsLast
<1>4. CASE \E p \in Producers : Enqueue(p) \/ ProducerStep(p)
  BY <1>4 DEF Enqueue, ProducerStep, Push, Refuse, Signal, LateCallIsLast
<1> QED BY <1>1, <1>2, <1>3, <1>4 DEF Next, WorkerStep

\* Every step of the code (queue.go, manager.go, run.go) keeps it.
THEOREM StepIInv == IInv /\ [Next]_vars => IInv'
<1> SUFFICES ASSUME IInv, [Next]_vars PROVE IInv'
  OBVIOUS
<1>1. CASE Next
  BY <1>1, TypeStep, BookKeepingStep, WorkerHoldsHeadStep, NoLostWakeupStep, ShutdownOrderStep,
    LateCallStep DEF IInv, BookKeeping
<1>2. CASE UNCHANGED vars
  <2>1. TypeOK' /\ WorkerHoldsHead' /\ NoLostWakeup'
    BY <1>2 DEF IInv, vars, TypeOK, WorkerHoldsHead, InHand, NoLostWakeup
  <2>2. Numbered' = Numbered
    BY <1>2 DEF vars, Numbered
  <2>3. IdsDrawn' /\ IdsDistinct' /\ AttemptsAreCalls' /\ ShutdownOrder' /\ LateCallIsLast'
    BY <1>2, <2>2 DEF IInv, vars, IdsDrawn, IdsDistinct, AttemptsAreCalls, ShutdownOrder,
      LateCallIsLast
  <2> QED BY <2>1, <2>3 DEF IInv
<1> QED BY <1>1, <1>2

\* So it always holds.
THEOREM AlwaysIInv == Spec => []IInv
  BY InitIInv, StepIInv, PTL DEF Spec
-----------------------------------------------------------------------------
\* Every variable keeps its type; a message is handed to the platform at most
\* MaxAttempts times and the queue never grows beyond its bound.
THEOREM TypeCorrect == Spec => []TypeOK
  BY AlwaysIInv, PTL DEF IInv

\* The message complete and fail remove is the one the worker has sent.
THEOREM WorkerOwnsHead == Spec => []WorkerHoldsHead
  BY AlwaysIInv, PTL DEF IInv

\* The worker never sleeps on a queue with messages, or on a closed one, unless a
\* wakeup is on its way.
THEOREM WakeupsArrive == Spec => []NoLostWakeup
  BY AlwaysIInv, PTL DEF IInv

\* At most one message is handed over after the shutdown has begun.
THEOREM LateCallsBounded == Spec => []AtMostOneLateCall
  BY AlwaysIInv, PTL DEF IInv, LateCallIsLast, AtMostOneLateCall

-----------------------------------------------------------------------------
\* The abstract queue of Fifo.
Waiting == [n \in 1..Len(items) |-> items[n].id]
Tries == IF items = <<>> THEN 0 ELSE calls[items[1].id]
Shut == runner = "done"

LEMMA WaitingIsSeq ==
  ASSUME TypeOK
  PROVE  /\ Waiting \in Seq(Ids)
         /\ Len(Waiting) = Len(items)
         /\ Waiting = <<>> <=> items = <<>>
  BY ItemsHaveIds DEF Waiting

\* A step that keeps the ids in the queue, the calls of the head and the runner's
\* end is a stutter of the abstract queue.
LEMMA StutterStep ==
  ASSUME TypeOK, TypeOK', Len(items') = Len(items),
         \A n \in 1..Len(items) : items'[n].id = items[n].id,
         calls' = calls, Shut' = Shut
  PROVE  UNCHANGED Fifo!fifoVars
<1>1. Len(items) \in Nat /\ Len(items') \in Nat
  BY LenProperties DEF TypeOK
<1>2. Waiting' = Waiting
  BY <1>1 DEF Waiting
<1>3. Tries' = Tries
  <2>1. items' = <<>> <=> items = <<>>
    BY DEF TypeOK
  <2>2. items # <<>> => 1 \in 1..Len(items)
    BY HeadIsItem, <1>1
  <2> QED BY <2>1, <2>2 DEF Tries
<1> QED BY <1>2, <1>3 DEF Fifo!fifoVars, Waiting, Tries, Shut

LEMMA FifoInit == Init => Fifo!Init
<1> SUFFICES ASSUME Init PROVE Fifo!Init
  OBVIOUS
<1>1. items = <<>> /\ Len(items) = 0 /\ runner # "done"
  BY DEF Init
<1>2. Waiting = <<>>
  BY <1>1 DEF Waiting
<1> QED BY <1>1, <1>2 DEF Fifo!Init, Waiting

LEMMA PushAccepts ==
  ASSUME IInv, IInv', NEW p \in Producers, Push(p), NEW i \in Ids, producer[p].id = i
  PROVE  Fifo!Accept(i)
<1> USE ConstantsAssumption
<1>1. TypeOK /\ TypeOK' /\ i \in Ids /\ p \in Numbered
  BY Fields DEF IInv, Push, Numbered
<1>2. /\ Len(items') = Len(items) + 1 /\ Len(items) \in Nat
      /\ \A n \in 1..Len(items) : items'[n] = items[n]
      /\ items'[Len(items) + 1] = [id |-> i, attempts |-> 0]
  <2>1. items \in Seq(Items) /\ [id |-> i, attempts |-> 0] \in Items
    BY <1>1 DEF TypeOK, Items
  <2> QED BY <2>1, AppendPositions, LenProperties DEF Push, PushedBack
<1>3. items'[Len(items) + 1].id = i
  BY <1>2
<1>4. Waiting' = Append(Waiting, i)
  <2>1. Waiting \in Seq(Ids) /\ Len(Waiting) = Len(items)
    BY <1>1, WaitingIsSeq
  <2>2. /\ Append(Waiting, i) \in Seq(Ids) /\ Len(Append(Waiting, i)) = Len(items) + 1
        /\ \A n \in 1..Len(items) : Append(Waiting, i)[n] = Waiting[n]
        /\ Append(Waiting, i)[Len(items) + 1] = i
    BY <1>1, <2>1, AppendPositions
  <2>3. \A n \in 1..Len(items) + 1 : Waiting'[n] = items'[n].id
    BY <1>2 DEF Waiting
  <2>4. \A n \in 1..Len(items) + 1 : Waiting'[n] = Append(Waiting, i)[n]
    <3> SUFFICES ASSUME NEW n \in 1..Len(items) + 1 PROVE Waiting'[n] = Append(Waiting, i)[n]
      OBVIOUS
    <3>1. CASE n = Len(items) + 1
      <4>1. Waiting'[n] = items'[n].id
        BY <2>3
      <4> QED BY <1>3, <2>2, <3>1, <4>1
    <3>2. CASE n \in 1..Len(items)
      <4>1. Waiting[n] = items[n].id
        BY <3>2 DEF Waiting
      <4> QED BY <1>2, <2>2, <2>3, <3>2, <4>1
    <3>3. n = Len(items) + 1 \/ n \in 1..Len(items)
      BY <1>2
    <3> QED BY <3>1, <3>2, <3>3
  <2>5. Waiting' \in Seq(Ids) /\ Len(Waiting') = Len(items) + 1
    <3>1. Waiting' = [n \in 1..Len(items) + 1 |-> items'[n].id]
      BY <1>2 DEF Waiting
    <3>2. \A n \in 1..Len(items) + 1 : items'[n].id \in Ids
      BY <1>1, <1>2, ItemsHaveIds, <2>2, <2>4, <3>1, LenProperties
    <3> QED BY <1>2, <3>1, <3>2
  <2> QED BY <2>2, <2>4, <2>5, SeqEqual
<1>5. Tries' = Tries
  <2>1. CASE items = <<>>
    <3>1. items' # <<>> /\ items'[1].id = i
      <4>1. Len(items) = 0 /\ Len(items) + 1 = 1
        BY <2>1
      <4>2. items'[1].id = i
        BY <1>3, <4>1
      <4>3. Len(items') = 1
        BY <1>2, <4>1
      <4> QED BY <4>2, <4>3
    <3>2. calls' = calls /\ calls[i] = 0
      BY <1>1 DEF IInv, AttemptsAreCalls, Push
    <3> QED BY <2>1, <3>1, <3>2 DEF Tries
  <2>2. CASE items # <<>>
    <3>1. 1 \in 1..Len(items) /\ items'[1] = items[1] /\ items' # <<>>
      BY <1>1, <1>2, <2>2, HeadIsItem
    <3> QED BY <2>2, <3>1 DEF Tries, Push
  <2> QED BY <2>1, <2>2
<1>6. ~Shut /\ Shut' = Shut /\ Len(Waiting) < QueueSize
  <2>1. Len(Waiting) = Len(items)
    BY <1>1, WaitingIsSeq
  <2> QED BY <2>1 DEF Push, IInv, ShutdownOrder, Shut
<1> QED BY <1>4, <1>5, <1>6 DEF Fifo!Accept, Waiting, Tries, Shut

LEMMA SendTries ==
  ASSUME IInv, IInv', Send
  PROVE  Fifo!Try
<1>1. /\ TypeOK /\ items # <<>> /\ worker.id = items[1].id /\ items[1].id \in Ids
      /\ items[1].attempts \in Nat /\ 1 \in 1..Len(items)
  BY HeadIsItem, ItemsHaveIds DEF IInv, Send, WorkerHoldsHead, InHand
<1>2. Waiting # <<>>
  BY <1>1, WaitingIsSeq
<1>3. Tries = items[1].attempts /\ Tries < MaxAttempts
  BY <1>1 DEF Tries, IInv, AttemptsAreCalls, Send
<1>4. Tries' = Tries + 1 /\ Waiting' = Waiting
  BY <1>1 DEF Tries, Waiting, Send, TypeOK
<1>5. ~Shut /\ Shut' = Shut
  BY DEF Shut, Send, IInv, ShutdownOrder
<1> QED BY <1>2, <1>3, <1>4, <1>5 DEF Fifo!Try, Waiting, Tries, Shut

LEMMA SettleLeaves ==
  ASSUME IInv, IInv', Settle
  PROVE  Fifo!Leave
<1>1. TypeOK /\ TypeOK' /\ items # <<>> /\ items \in Seq(Items)
  BY DEF IInv, Settle, WorkerHoldsHead, InHand, TypeOK
<1>2. /\ Len(items) > 0 /\ Len(items') = Len(items) - 1 /\ Len(items) \in Nat
      /\ \A n \in 1..Len(items) - 1 : items'[n] = items[n + 1]
      /\ items' \in Seq(Items)
  BY <1>1, TailPositions, LenProperties DEF Settle
<1>3. /\ Waiting \in Seq(Ids) /\ Len(Waiting) = Len(items) /\ Waiting # <<>>
      /\ Waiting' \in Seq(Ids) /\ Len(Waiting') = Len(items) - 1
  <2>1. \A n \in 1..Len(items) - 1 : items'[n].id \in Ids
    BY <1>1, <1>2, ItemsHaveIds
  <2>2. Waiting' = [n \in 1..Len(items) - 1 |-> items'[n].id]
    BY <1>2 DEF Waiting
  <2> QED BY <1>1, <1>2, <2>1, <2>2, WaitingIsSeq
<1>4. Waiting' = Tail(Waiting)
  <2>1. /\ Tail(Waiting) \in Seq(Ids) /\ Len(Tail(Waiting)) = Len(items) - 1
        /\ \A n \in 1..Len(items) - 1 : Tail(Waiting)[n] = Waiting[n + 1]
    BY <1>3, TailPositions
  <2>2. \A n \in 1..Len(items) - 1 : Waiting'[n] = items'[n].id /\ Waiting[n + 1] = items[n + 1].id
    BY <1>2 DEF Waiting
  <2>3. \A n \in 1..Len(items) - 1 : Waiting'[n] = Tail(Waiting)[n]
    BY <1>2, <2>1, <2>2
  <2> QED BY <1>3, <2>1, <2>3, SeqEqual
<1>5. Tries > 0
  <2>1. calls[items[1].id] = items[1].attempts + 1
    BY <1>1 DEF Settle, IInv, AttemptsAreCalls
  <2> QED BY <1>1, <2>1, HeadIsItem, ConstantsAssumption DEF Tries
<1>6. Tries' = 0
  <2>1. CASE items' = <<>>
    BY <2>1 DEF Tries
  <2>2. CASE items' # <<>>
    <3>1. 2 \in 2..Len(items) /\ 1 \in 1..Len(items) - 1
      BY <1>2, <2>2
    <3>2. items'[1] = items[1 + 1] /\ calls[items[2].id] = 0
      BY <1>2, <3>1 DEF IInv, AttemptsAreCalls
    <3> QED BY <2>2, <3>2 DEF Tries, Settle
  <2> QED BY <2>1, <2>2
<1>7. ~Shut /\ Shut' = Shut
  BY DEF Shut, Settle, IInv, ShutdownOrder
<1> QED BY <1>3, <1>4, <1>5, <1>6, <1>7 DEF Fifo!Leave, Waiting, Tries, Shut

LEMMA ReturnShuts ==
  ASSUME Return
  PROVE  Fifo!Shut
<1>1. Waiting' = Waiting /\ Tries' = Tries /\ Shut'
  BY DEF Return, Waiting, Tries, Shut
<1> QED BY <1>1 DEF Fifo!Shut, Waiting, Tries, Shut

LEMMA FifoStep == IInv /\ IInv' /\ [Next]_vars => [Fifo!Next]_Fifo!fifoVars
<1> SUFFICES ASSUME IInv, IInv', [Next]_vars PROVE [Fifo!Next]_Fifo!fifoVars
  OBVIOUS
<1>1. TypeOK /\ TypeOK'
  BY DEF IInv
<1>2. CASE \E p \in Producers : Push(p)
  <2> PICK p \in Producers : Push(p)
    BY <1>2
  <2>1. PICK i \in Ids : producer[p].id = i
    BY <1>1, Fields DEF Push
  <2>2. Fifo!Accept(i)
    BY <2>1, PushAccepts
  <2> QED BY <2>2 DEF Fifo!Next
<1>3. CASE Send
  BY <1>3, SendTries DEF Fifo!Next
<1>4. CASE Settle
  BY <1>4, SettleLeaves DEF Fifo!Next
<1>5. CASE Return
  BY <1>5, ReturnShuts DEF Fifo!Next
<1>6. CASE Retry
  <2>1. calls' = calls /\ Shut' = Shut
    BY <1>6 DEF Retry, Shut
  <2>2. Len(items') = Len(items) /\ \A n \in 1..Len(items) : items'[n].id = items[n].id
    BY <1>6, RetryBookKeeping DEF IInv, BookKeeping
  <2> QED BY <1>1, <2>1, <2>2, StutterStep
<1>7. ASSUME items' = items, calls' = calls, Shut' = Shut
      PROVE  UNCHANGED Fifo!fifoVars
  BY <1>1, <1>7, StutterStep
<1>8. CASE \E p \in Producers : Enqueue(p) \/ Refuse(p) \/ Signal(p)
  BY <1>7, <1>8 DEF Enqueue, Refuse, Signal, Shut
<1>9. CASE Look \/ Wake \/ GiveUp \/ StopAfterSend \/ \E a \in Answers : Answer(a)
  BY <1>7, <1>9 DEF Look, Wake, GiveUp, StopAfterSend, Answer, Shut
<1>10. CASE Start \/ CloseManager \/ CloseQueue \/ SignalClose \/ Cancel
  BY <1>7, <1>10 DEF Start, CloseManager, CloseQueue, SignalClose, Cancel, Shut
<1>11. CASE UNCHANGED vars
  BY <1>7, <1>11 DEF vars, Shut
<1> QED BY <1>2, <1>3, <1>4, <1>5, <1>6, <1>8, <1>9, <1>10, <1>11
      DEF Next, ProducerStep, WorkerStep, RunnerStep

\* For any number of producers and any shutdown the queue behaves like MessageFifo:
\* messages leave in the order of their acceptance, only the oldest is ever handed to
\* the platform, MaxAttempts times at most, and nothing happens after Run returned.
THEOREM ImplementsFifo == Spec => FifoImplemented
<1>1. Spec => Fifo!Init /\ [][Fifo!Next]_Fifo!fifoVars
  BY FifoInit, FifoStep, AlwaysIInv, PTL DEF Spec
<1> QED BY <1>1 DEF FifoImplemented, Fifo!Spec
-----------------------------------------------------------------------------
(***************************************************************************)
(* What became of each message, and why an accepted one goes on.           *)
(***************************************************************************)
Queued(i) == \E n \in 1..Len(items) : items[n].id = i

\* Accepted messages are the queue; a message that was refused was never handed to the
\* platform, one that is done with was.
FatesKept ==
  \A i \in Ids :
    /\ fate[i] = "accepted" <=> Queued(i)
    /\ fate[i] \in {"none", "refused"} => calls[i] = 0
    /\ fate[i] \in {"sent", "dropped"} => calls[i] > 0

\* Nothing became yet of the messages that are not pushed, or not numbered.
Undecided ==
  /\ \A p \in Numbered : fate[producer[p].id] = "none"
  /\ \A i \in Ids : i > seq => fate[i] = "none"

\* The worker stops for the shutdown only.
StopsForShutdown == worker.pc = "stopped" => cancelled

Fates == FatesKept /\ Undecided /\ StopsForShutdown

LEMMA InitFates == Init => Fates
<1> SUFFICES ASSUME Init PROVE Fates
  OBVIOUS
<1>1. /\ items = <<>> /\ seq = 0 /\ worker.pc = "new" /\ Numbered = {}
      /\ \A i \in Ids : fate[i] = "none" /\ calls[i] = 0
  BY DEF Init, At, Idle, Numbered
<1>2. \A i \in Ids : ~Queued(i)
  BY <1>1 DEF Queued
<1> QED BY <1>1, <1>2 DEF Fates, FatesKept, Undecided, StopsForShutdown

\* Steps that decide nothing, put nothing in the queue and take nothing from it.
LEMMA QuietFates ==
  ASSUME FatesKept, Undecided, UNCHANGED <<fate, calls, seq>>,
         Len(items') = Len(items), \A n \in 1..Len(items) : items'[n].id = items[n].id,
         \A p \in Numbered' : p \in Numbered /\ producer'[p] = producer[p]
  PROVE  FatesKept' /\ Undecided'
<1>1. \A i \in Ids : Queued(i)' <=> Queued(i)
  BY DEF Queued
<1>2. FatesKept'
  BY <1>1 DEF FatesKept
<1>3. Undecided'
  BY DEF Undecided
<1> QED BY <1>2, <1>3

LEMMA EnqueueFates ==
  ASSUME IInv, Fates, NEW p \in Producers, Enqueue(p)
  PROVE  FatesKept' /\ Undecided'
<1>1. UNCHANGED <<items, fate, calls>> /\ seq' = seq + 1 /\ seq + 1 \in Ids /\ seq \in Nat
  BY ConstantsAssumption DEF Enqueue, IInv, TypeOK, Ids
<1>2. /\ producer'[p].id = seq + 1
      /\ \A q \in Numbered' : q # p => q \in Numbered /\ producer'[q] = producer[q]
  BY DEF Enqueue, ProducerGoes, IInv, TypeOK, Numbered
<1>3. FatesKept'
  BY <1>1 DEF Fates, FatesKept, Queued
<1>4. fate[seq + 1] = "none"
  BY <1>1 DEF Fates, Undecided
<1>5. \A q \in Numbered' : fate'[producer'[q].id] = "none"
  BY <1>1, <1>2, <1>4 DEF Fates, Undecided
<1>6. \A i \in Ids : i > seq' => fate'[i] = "none"
  BY <1>1 DEF Fates, Undecided, Ids
<1> QED BY <1>3, <1>5, <1>6 DEF Undecided

LEMMA PushFates ==
  ASSUME IInv, Fates, NEW p \in Producers, Push(p)
  PROVE  FatesKept' /\ Undecided'
<1> PICK i : i = producer[p].id
  OBVIOUS
<1> PICK d : d = [id |-> i, attempts |-> 0]
  OBVIOUS
<1>1. i \in Ids /\ p \in Numbered /\ TypeOK
  BY Fields DEF Push, IInv, Numbered
<1>2. /\ items' = Append(items, d) /\ fate' = [fate EXCEPT ![i] = "accepted"]
      /\ UNCHANGED <<calls, seq>> /\ producer' = [producer EXCEPT ![p] = Signals(i)]
  BY DEF Push, PushedBack, ProducerGoes
<1>3. /\ Len(items') = Len(items) + 1 /\ Len(items) \in Nat /\ items'[Len(items) + 1] = d
      /\ \A n \in 1..Len(items) : items'[n] = items[n]
  <2>1. items \in Seq(Items) /\ d \in Items
    BY <1>1, ConstantsAssumption DEF TypeOK, Items
  <2> QED BY <1>2, <2>1, AppendPositions, LenProperties
<1>4. \A j \in Ids : Queued(j)' <=> (Queued(j) \/ j = i)
  <2>1. \A n \in 1..Len(items') : n \in 1..Len(items) \/ n = Len(items) + 1
    BY <1>3
  <2>2. d.id = i /\ 1..Len(items) \subseteq 1..Len(items') /\ Len(items) + 1 \in 1..Len(items')
    BY <1>3
  <2> QED BY <1>3, <2>1, <2>2 DEF Queued
<1>5. fate[i] = "none" /\ i <= seq
  BY <1>1 DEF Fates, Undecided, IInv, IdsDrawn
<1>6. \A j \in Ids : fate'[j] = IF j = i THEN "accepted" ELSE fate[j]
  BY <1>1, <1>2 DEF TypeOK
<1>7. FatesKept'
  <2> SUFFICES ASSUME NEW j \in Ids
               PROVE  /\ fate'[j] = "accepted" <=> Queued(j)'
                      /\ fate'[j] \in {"none", "refused"} => calls'[j] = 0
                      /\ fate'[j] \in {"sent", "dropped"} => calls'[j] > 0
    BY DEF FatesKept
  <2>1. CASE j = i
    BY <1>4, <1>6, <2>1
  <2>2. CASE j # i
    BY <1>2, <1>4, <1>6, <2>2 DEF Fates, FatesKept
  <2> QED BY <2>1, <2>2
<1>8. \A q \in Numbered' : q \in Numbered /\ q # p /\ producer'[q] = producer[q]
  BY <1>1, <1>2 DEF Numbered, TypeOK, Signals
<1>9. \A q \in Numbered' : producer[q].id # i /\ producer[q].id \in Ids
  BY <1>1, <1>8, NumberedHaveIds DEF IInv, IdsDistinct
<1>10. \A q \in Numbered' : fate'[producer'[q].id] = "none"
  BY <1>6, <1>8, <1>9 DEF Fates, Undecided
<1>11. \A j \in Ids : j > seq' => fate'[j] = "none"
  <2>1. seq \in Nat /\ i \in Nat
    BY <1>1 DEF TypeOK, Ids
  <2> QED BY <1>2, <1>5, <1>6, <2>1 DEF Fates, Undecided, Ids
<1> QED BY <1>7, <1>10, <1>11 DEF Undecided

LEMMA RefuseFates ==
  ASSUME IInv, Fates, NEW p \in Producers, Refuse(p)
  PROVE  FatesKept' /\ Undecided'
<1> PICK i : i = producer[p].id
  OBVIOUS
<1>1. i \in Ids /\ p \in Numbered /\ TypeOK
  BY Fields DEF Refuse, IInv, Numbered
<1>2. /\ fate' = [fate EXCEPT ![i] = "refused"] /\ UNCHANGED <<items, calls, seq>>
      /\ producer' = [producer EXCEPT ![p] = Idle]
  BY DEF Refuse, ProducerGoes
<1>3. \A j \in Ids : Queued(j)' <=> Queued(j)
  BY <1>2 DEF Queued
<1>4. fate[i] = "none" /\ i <= seq
  BY <1>1 DEF Fates, Undecided, IInv, IdsDrawn
<1>5. ~Queued(i) /\ calls[i] = 0
  BY <1>1, <1>4 DEF Fates, FatesKept
<1>6. \A j \in Ids : fate'[j] = IF j = i THEN "refused" ELSE fate[j]
  BY <1>1, <1>2 DEF TypeOK
<1>7. FatesKept'
  <2> SUFFICES ASSUME NEW j \in Ids
               PROVE  /\ fate'[j] = "accepted" <=> Queued(j)'
                      /\ fate'[j] \in {"none", "refused"} => calls'[j] = 0
                      /\ fate'[j] \in {"sent", "dropped"} => calls'[j] > 0
    BY DEF FatesKept
  <2>1. CASE j = i
    BY <1>2, <1>3, <1>5, <1>6, <2>1
  <2>2. CASE j # i
    BY <1>2, <1>3, <1>6, <2>2 DEF Fates, FatesKept
  <2> QED BY <2>1, <2>2
<1>8. \A q \in Numbered' : q \in Numbered /\ q # p /\ producer'[q] = producer[q]
  BY <1>1, <1>2 DEF Numbered, TypeOK, Idle
<1>9. \A q \in Numbered' : producer[q].id # i /\ producer[q].id \in Ids
  BY <1>1, <1>8, NumberedHaveIds DEF IInv, IdsDistinct
<1>10. \A q \in Numbered' : fate'[producer'[q].id] = "none"
  BY <1>6, <1>8, <1>9 DEF Fates, Undecided
<1>11. \A j \in Ids : j > seq' => fate'[j] = "none"
  <2>1. seq \in Nat /\ i \in Nat
    BY <1>1 DEF TypeOK, Ids
  <2> QED BY <1>2, <1>4, <1>6, <2>1 DEF Fates, Undecided, Ids
<1> QED BY <1>7, <1>10, <1>11 DEF Undecided

\* The message in the worker's hand is an accepted one.
LEMMA HandIsQueued ==
  ASSUME IInv, FatesKept, InHand
  PROVE  /\ items # <<>> /\ Len(items) > 0 /\ Len(items) \in Nat /\ Head(items) = items[1]
         /\ worker.id = items[1].id /\ worker.id \in Ids
         /\ Queued(worker.id) /\ fate[worker.id] = "accepted"
<1>1. items # <<>> /\ worker.id = Head(items).id
  BY DEF IInv, WorkerHoldsHead
<1>2. Len(items) > 0 /\ Head(items) = items[1] /\ items[1].id \in Ids
  BY <1>1, HeadIsItem DEF IInv
<1>3. Len(items) \in Nat
  BY LenProperties DEF IInv, TypeOK
<1>4. Queued(worker.id)
  <2>1. 1 \in 1..Len(items)
    BY <1>2, <1>3
  <2> QED BY <1>1, <1>2, <2>1 DEF Queued
<1> QED BY <1>1, <1>2, <1>3, <1>4 DEF FatesKept

LEMMA SendFates ==
  ASSUME IInv, Fates, Send
  PROVE  FatesKept' /\ Undecided'
<1> PICK i : i = worker.id
  OBVIOUS
<1>1. i \in Ids /\ fate[i] = "accepted" /\ TypeOK
  BY HandIsQueued DEF Send, InHand, Fates, IInv
<1>2. /\ calls' = [calls EXCEPT ![i] = @ + 1] /\ UNCHANGED <<items, fate, seq, producer>>
  BY DEF Send
<1>3. \A j \in Ids : calls'[j] = calls[j] \/ j = i
  BY <1>1, <1>2 DEF TypeOK
<1>4. \A j \in Ids : Queued(j)' <=> Queued(j)
  BY <1>2 DEF Queued
<1>5. FatesKept'
  BY <1>1, <1>2, <1>3, <1>4 DEF Fates, FatesKept
<1>6. Undecided'
  BY <1>2 DEF Fates, Undecided, Numbered
<1> QED BY <1>5, <1>6

LEMMA SettleFates ==
  ASSUME IInv, Fates, Settle
  PROVE  FatesKept' /\ Undecided'
<1> PICK i : i = worker.id
  OBVIOUS
<1>1. /\ i \in Ids /\ fate[i] = "accepted" /\ TypeOK /\ i = items[1].id /\ items # <<>>
      /\ Head(items) = items[1] /\ Len(items) > 0 /\ Len(items) \in Nat
  BY HandIsQueued DEF Settle, InHand, Fates, IInv
<1>2. /\ items' = Tail(items) /\ UNCHANGED <<calls, seq, producer>>
      /\ fate' = [fate EXCEPT ![i] = IF worker.answer = "ok" THEN "sent" ELSE "dropped"]
  BY <1>1 DEF Settle
<1>3. /\ Len(items') = Len(items) - 1
      /\ \A n \in 1..Len(items) - 1 : items'[n] = items[n + 1]
  BY <1>1, <1>2, TailPositions DEF TypeOK
<1>4. \A j \in Ids : Queued(j)' <=> (Queued(j) /\ j # i)
  <2>1. ASSUME NEW n \in 1..Len(items')
        PROVE  n + 1 \in 1..Len(items) /\ items'[n] = items[n + 1] /\ items[n + 1].id # i
    <3>1. n + 1 \in 1..Len(items) /\ items'[n] = items[n + 1] /\ n + 1 # 1 /\ 1 \in 1..Len(items)
      BY <1>1, <1>3, <2>1
    <3> QED BY <1>1, <3>1 DEF IInv, IdsDistinct
  <2>2. ASSUME NEW n \in 1..Len(items), items[n].id # i
        PROVE  n - 1 \in 1..Len(items') /\ items'[n - 1] = items[n]
    <3>1. n # 1
      BY <1>1, <2>2
    <3>2. n - 1 \in 1..Len(items) - 1 /\ (n - 1) + 1 = n
      BY <1>1, <3>1
    <3> QED BY <1>3, <3>2
  <2> QED BY <2>1, <2>2 DEF Queued
<1>5. \A j \in Ids : fate'[j] = fate[j] \/ (j = i /\ fate'[j] \in {"sent", "dropped"})
  BY <1>1, <1>2 DEF TypeOK
<1>6. fate'[i] \in {"sent", "dropped"}
  BY <1>1, <1>2 DEF TypeOK
<1>7. calls[i] > 0
  <2>1. calls[items[1].id] = items[1].attempts + 1
    BY <1>1 DEF Settle, IInv, AttemptsAreCalls
  <2>2. items[1].attempts \in Nat
    BY <1>1, HeadIsItem DEF Items
  <2> QED BY <1>1, <2>1, <2>2
<1>8. FatesKept'
  <2> SUFFICES ASSUME NEW j \in Ids
               PROVE  /\ fate'[j] = "accepted" <=> Queued(j)'
                      /\ fate'[j] \in {"none", "refused"} => calls'[j] = 0
                      /\ fate'[j] \in {"sent", "dropped"} => calls'[j] > 0
    BY DEF FatesKept
  <2>1. CASE j = i
    BY <1>2, <1>4, <1>6, <1>7, <2>1
  <2>2. CASE j # i
    BY <1>2, <1>4, <1>5, <2>2 DEF Fates, FatesKept
  <2> QED BY <2>1, <2>2
<1>9. Undecided'
  <2>1. \A p \in Numbered : producer[p].id \in Ids /\ producer[p].id # i
    BY <1>1, NumberedHaveIds DEF Fates, Undecided
  <2>2. \A j \in Ids : j > seq => j # i
    BY <1>1 DEF Fates, Undecided
  <2> QED BY <1>2, <1>5, <2>1, <2>2 DEF Fates, Undecided, Numbered
<1> QED BY <1>8, <1>9

LEMMA FatesNext ==
  ASSUME IInv, Fates, [Next]_vars
  PROVE  Fates'
<1>1. CASE UNCHANGED vars
  BY <1>1 DEF vars, Fates, FatesKept, Queued, Undecided, Numbered, StopsForShutdown
<1>2. CASE Next
  <2>1. FatesKept' /\ Undecided'
    <3>1. CASE \E p \in Producers : Enqueue(p) \/ Push(p) \/ Refuse(p)
      BY <3>1, EnqueueFates, PushFates, RefuseFates
    <3>2. CASE Send \/ Settle
      BY <3>2, SendFates, SettleFates
    <3>3. CASE Retry
      <4>1. /\ Len(items') = Len(items) /\ \A n \in 1..Len(items) : items'[n].id = items[n].id
            /\ UNCHANGED <<fate, calls, seq, producer>>
        BY <3>3, RetryBookKeeping DEF IInv, BookKeeping, Retry
      <4> QED BY <4>1, QuietFates DEF Fates, Numbered
    <3>4. CASE QuietAction /\ ~\E p \in Producers : Refuse(p)
      <4>1. Quiet
        BY <3>4, QuietActionsAreQuiet DEF IInv
      <4>2. UNCHANGED fate
        BY <3>4 DEF QuietAction, Signal, Look, Wake, GiveUp, StopAfterSend, Answer, RunnerStep,
          Start, CloseManager, CloseQueue, SignalClose, Return, Cancel
      <4> QED BY <4>1, <4>2, QuietFates DEF Fates, Quiet
    <3> QED BY <1>2, <3>1, <3>2, <3>3, <3>4 DEF Next, ProducerStep, WorkerStep, QuietAction
  <2>2. StopsForShutdown'
    <3>1. CASE \E p \in Producers : Enqueue(p) \/ ProducerStep(p)
      BY <3>1 DEF Enqueue, ProducerStep, Push, Refuse, Signal, Fates, StopsForShutdown
    <3>2. CASE WorkerStep
      BY <3>2 DEF WorkerStep, Look, Wake, GiveUp, Send, StopAfterSend, Settle, Retry, Answer, At,
        GoesOn, IInv, ShutdownOrder, StopsForShutdown
    <3>3. CASE RunnerStep \/ Cancel
      BY <3>3 DEF RunnerStep, Start, CloseManager, CloseQueue, SignalClose, Return, Cancel, At,
        Fates, StopsForShutdown
    <3> QED BY <1>2, <3>1, <3>2, <3>3 DEF Next
  <2> QED BY <2>1, <2>2 DEF Fates
<1> QED BY <1>1, <1>2

\* The bookkeeping of fates holds at all times (message/manager.go, queue.go).
THEOREM AlwaysFates == Spec => [](IInv /\ Fates)
  BY AlwaysIInv, InitFates, FatesNext, PTL DEF Spec

\* An accepted message is in the queue until it is sent or dropped, a refused one was
\* never handed to the platform, and none is dropped without a try (queue.go: push,
\* complete, fail).
THEOREM NoMessageLost == Spec => []FatesKept
  BY AlwaysFates, PTL DEF Fates

\* What became of a message is final: a refused one is never queued after all, a sent
\* one is not given up, and none is settled twice.
FatesFinal ==
  [][\A i \in Ids :
       /\ fate'[i] = "accepted" => fate[i] \in {"none", "accepted"}
       /\ fate[i] \in {"refused", "sent", "dropped"} => fate'[i] = fate[i]]_vars

\* What push, complete and fail decide about a message (queue.go) is never taken back.
THEOREM MessagesSettleOnce == Spec => FatesFinal
<1> DEFINE Final == \A i \in Ids :
                      /\ fate'[i] = "accepted" => fate[i] \in {"none", "accepted"}
                      /\ fate[i] \in {"refused", "sent", "dropped"} => fate'[i] = fate[i]
<1>1. ASSUME IInv, Fates, Next PROVE Final
  <2>1. ASSUME UNCHANGED fate PROVE Final
    BY <2>1
  <2>2. ASSUME NEW i \in Ids, NEW f, fate' = [fate EXCEPT ![i] = f],
               \/ fate[i] = "none"
               \/ fate[i] = "accepted" /\ f # "accepted"
        PROVE  Final
    BY <1>1, <2>2 DEF IInv, TypeOK
  <2>3. ASSUME NEW p \in Producers, Push(p) \/ Refuse(p) PROVE Final
    <3> PICK i : i = producer[p].id
      OBVIOUS
    <3>1. i \in Ids /\ p \in Numbered
      BY <1>1, <2>3, Fields DEF Push, Refuse, IInv, Numbered
    <3>2. fate[i] = "none"
      BY <1>1, <3>1 DEF Fates, Undecided
    <3>3. fate' = [fate EXCEPT ![i] = "accepted"] \/ fate' = [fate EXCEPT ![i] = "refused"]
      BY <2>3 DEF Push, Refuse
    <3> QED BY <2>2, <3>1, <3>2, <3>3
  <2>4. CASE Settle
    <3>1. worker.id \in Ids /\ fate[worker.id] = "accepted" /\ Head(items).id = worker.id
      BY <1>1, <2>4, HandIsQueued DEF Settle, InHand, Fates
    <3>2. \E f : f # "accepted" /\ fate' = [fate EXCEPT ![worker.id] = f]
      BY <2>4, <3>1 DEF Settle
    <3> QED BY <2>2, <3>1, <3>2
  <2>5. CASE (\E p \in Producers : Enqueue(p) \/ Signal(p)) \/ RunnerStep \/ Cancel
    BY <2>1, <2>5 DEF Enqueue, Signal, RunnerStep, Start, CloseManager, CloseQueue, SignalClose,
      Return, Cancel
  <2>6. CASE Look \/ Wake \/ GiveUp \/ Send \/ StopAfterSend \/ Retry \/ \E a \in Answers : Answer(a)
    BY <2>1, <2>6 DEF Look, Wake, GiveUp, Send, StopAfterSend, Retry, Answer
  <2> QED BY <1>1, <2>3, <2>4, <2>5, <2>6 DEF Next, ProducerStep, WorkerStep
<1>2. IInv /\ Fates /\ [Next]_vars => [Final]_vars
  BY <1>1
<1>3. Spec => [][Final]_vars
  BY <1>2, AlwaysFates, PTL DEF Spec
<1> QED BY <1>3 DEF FatesFinal

\* While the process is not stopped, an accepted message is in the queue of a worker
\* that is running, or not started yet, and that is awake or about to be woken.
GoesOnWithAccepted ==
  \A i \in Ids : fate[i] = "accepted" /\ ~cancelled =>
    /\ Queued(i)
    /\ worker.pc # "stopped"
    /\ worker.pc = "new" => runner = "new"
    /\ worker.pc = "asleep" => notify \/ \E p \in Producers : producer[p].pc = "signal"

\* What AcceptedSettled needs besides fairness: no accepted message is ever where
\* nobody will come for it (queue.go: push signals after the unlock, head).
THEOREM AcceptedGoOn == Spec => []GoesOnWithAccepted
<1>1. ASSUME IInv, Fates PROVE GoesOnWithAccepted
  <2> SUFFICES ASSUME NEW i \in Ids, fate[i] = "accepted", ~cancelled
               PROVE  /\ Queued(i) /\ worker.pc # "stopped" /\ (worker.pc = "new" => runner = "new")
                      /\ worker.pc = "asleep" => notify \/ \E p \in Producers : producer[p].pc = "signal"
    BY DEF GoesOnWithAccepted
  <2>1. Queued(i)
    BY <1>1 DEF Fates, FatesKept
  <2>2. items # <<>>
    BY <2>1 DEF Queued
  <2> QED BY <1>1, <2>1, <2>2 DEF IInv, NoLostWakeup, ShutdownOrder, Fates, StopsForShutdown
<1>2. IInv /\ Fates => GoesOnWithAccepted
  BY <1>1
<1> QED BY <1>2, AlwaysFates, PTL
=============================================================================
