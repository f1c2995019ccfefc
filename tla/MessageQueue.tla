---------------------------- MODULE MessageQueue ----------------------------
(***************************************************************************)
(* One sender's queue of outbound messages: Manager.Enqueue and            *)
(* senderQueue.push as called by concurrent producers, the worker          *)
(* senderQueue.run with head, complete and fail, and Manager.Run with the  *)
(* shutdown.  Senders share nothing but the shutdown, so one is enough.    *)
(*                                                                         *)
(* A step is what happens under one lock, or one operation on a channel.   *)
(* Pacing (GapPolicy, backoff) only decides how long the worker stays in   *)
(* "timer"; Sender.Send is external and may answer anything, including an  *)
(* error for a message that did arrive.                                    *)
(***************************************************************************)
EXTENDS Naturals, Sequences

CONSTANTS
  Producers,     \* goroutines that call Enqueue
  QueueSize,     \* Config.QueueSize
  MaxAttempts,   \* Config.MaxAttempts
  MaxMessages    \* bound on the number of messages

ASSUME ConstantsAssumption ==
  /\ QueueSize \in Nat \ {0}
  /\ MaxAttempts \in Nat \ {0}
  /\ MaxMessages \in Nat

VARIABLES
  seq,         \* Manager.seq, the last delivery id
  items,       \* senderQueue.items
  notify,      \* whether the channel senderQueue.notify holds its one token
  closed,      \* {} while open, then Manager.closed and senderQueue.closed
  cancelled,   \* whether the context of Run is done
  runner,      \* where Manager.Run is
  worker,      \* where senderQueue.run is, and the item it works on
  producer,    \* where each call of Enqueue is
  fate,        \* history: what became of each message
  calls,       \* history: how often Send was called with each message
  lateCalls    \* history: how often Send was called after the cancellation

vars == <<seq, items, notify, closed, cancelled, runner, worker, producer,
          fate, calls, lateCalls>>
-----------------------------------------------------------------------------
Ids == 1..MaxMessages

Items == [id: Ids, attempts: 0..MaxAttempts]

Answers == {"ok", "transient", "permanent"}

WorkerStates ==
       [pc: {"new", "head", "asleep", "stopped"}]
  \cup [pc: {"timer", "sending"}, id: Ids]
  \cup [pc: {"answered"}, id: Ids, answer: Answers]

ProducerStates == [pc: {"idle"}] \cup [pc: {"numbered", "signal"}, id: Ids]

Idle == [pc |-> "idle"]
At(pc) == [pc |-> pc]

ProducerGoes(p, s) == producer' = [producer EXCEPT ![p] = s]

PushedFront(s, d) == <<d>> \o s
PushedBack(s, d) == Append(s, d)

\* push leaves the lock and then signals.
Forgets(i) == Idle
Signals(i) == [pc |-> "signal", id |-> i]
-----------------------------------------------------------------------------
Init ==
  /\ seq = 0
  /\ items = <<>>
  /\ notify = FALSE
  /\ closed = {}
  /\ cancelled = FALSE
  /\ runner = "new"
  /\ worker = At("new")
  /\ producer = [p \in Producers |-> Idle]
  /\ fate = [i \in Ids |-> "none"]
  /\ calls = [i \in Ids |-> 0]
  /\ lateCalls = 0

\* Enqueue finds the manager open and draws the next delivery id.
Enqueue(p) ==
  /\ producer[p] = Idle
  /\ "manager" \notin closed
  /\ seq < MaxMessages
  /\ seq' = seq + 1
  /\ ProducerGoes(p, [pc |-> "numbered", id |-> seq + 1])
  /\ UNCHANGED <<items, notify, closed, cancelled, runner, worker, fate, calls, lateCalls>>

Push(p) ==
  /\ producer[p].pc = "numbered"
  /\ "queue" \notin closed
  /\ Len(items) < QueueSize
  /\ LET i == producer[p].id
     IN /\ items' = PushedBack(items, [id |-> i, attempts |-> 0])
        /\ fate' = [fate EXCEPT ![i] = "accepted"]
        /\ ProducerGoes(p, Signals(i))
  /\ UNCHANGED <<seq, notify, closed, cancelled, runner, worker, calls, lateCalls>>

\* The queue is closed, or it is full, or the caller's own context is done, which
\* may be at any time.
Refuse(p) ==
  /\ producer[p].pc = "numbered"
  /\ fate' = [fate EXCEPT ![producer[p].id] = "refused"]
  /\ ProducerGoes(p, Idle)
  /\ UNCHANGED <<seq, items, notify, closed, cancelled, runner, worker, calls, lateCalls>>

Signal(p) ==
  /\ producer[p].pc = "signal"
  /\ notify' = TRUE
  /\ ProducerGoes(p, Idle)
  /\ UNCHANGED <<seq, items, closed, cancelled, runner, worker, fate, calls, lateCalls>>
-----------------------------------------------------------------------------
\* head, under the lock.
Look ==
  /\ worker.pc = "head"
  /\ worker' = IF "queue" \in closed THEN At("stopped")
               ELSE IF items = <<>> THEN At("asleep")
               ELSE [pc |-> "timer", id |-> Head(items).id]
  /\ UNCHANGED <<seq, items, notify, closed, cancelled, runner, producer, fate, calls, lateCalls>>

Wake ==
  /\ worker.pc = "asleep"
  /\ notify
  /\ notify' = FALSE
  /\ worker' = At("head")
  /\ UNCHANGED <<seq, items, closed, cancelled, runner, producer, fate, calls, lateCalls>>

\* The select on ctx.Done() in head and in waitTimer.
GiveUp ==
  /\ worker.pc \in {"asleep", "timer"}
  /\ cancelled
  /\ worker' = At("stopped")
  /\ UNCHANGED <<seq, items, notify, closed, cancelled, runner, producer, fate, calls, lateCalls>>

\* The timer fires; the select may prefer it to a context that is done as well.
Send ==
  /\ worker.pc = "timer"
  /\ worker' = [pc |-> "sending", id |-> worker.id]
  /\ calls' = [calls EXCEPT ![worker.id] = @ + 1]
  /\ lateCalls' = lateCalls + (IF cancelled THEN 1 ELSE 0)
  /\ UNCHANGED <<seq, items, notify, closed, cancelled, runner, producer, fate>>

Answer(a) ==
  /\ worker.pc = "sending"
  /\ worker' = [pc |-> "answered", id |-> worker.id, answer |-> a]
  /\ UNCHANGED <<seq, items, notify, closed, cancelled, runner, producer, fate, calls, lateCalls>>

\* Whether the worker looks at the answer at all.
AlwaysGoesOn == TRUE
GoesOn == ~cancelled

StopAfterSend ==
  /\ worker.pc = "answered"
  /\ ~GoesOn
  /\ worker' = At("stopped")
  /\ UNCHANGED <<seq, items, notify, closed, cancelled, runner, producer, fate, calls, lateCalls>>

\* complete, or fail for the last time: the head of the queue goes.
LastAttemptMissed(n) == n + 1 > MaxAttempts
LastAttempt(n) == n + 1 >= MaxAttempts

Settle ==
  /\ worker.pc = "answered"
  /\ GoesOn
  /\ \/ worker.answer \in {"ok", "permanent"}
     \/ LastAttempt(Head(items).attempts)
  /\ items' = Tail(items)
  /\ fate' = [fate EXCEPT ![Head(items).id] =
                IF worker.answer = "ok" THEN "sent" ELSE "dropped"]
  /\ worker' = At("head")
  /\ UNCHANGED <<seq, notify, closed, cancelled, runner, producer, calls, lateCalls>>

\* fail, to be tried again: the head stays where it is.
Requeued(s, d) == Append(Tail(s), d)
Kept(s, d) == [s EXCEPT ![1] = d]

Retry ==
  /\ worker.pc = "answered"
  /\ GoesOn
  /\ worker.answer = "transient"
  /\ ~LastAttempt(Head(items).attempts)
  /\ items' = Kept(items, [Head(items) EXCEPT !.attempts = @ + 1])
  /\ worker' = At("head")
  /\ UNCHANGED <<seq, notify, closed, cancelled, runner, producer, fate, calls, lateCalls>>
-----------------------------------------------------------------------------
Start ==
  /\ runner = "new"
  /\ runner' = "running"
  /\ worker' = At("head")
  /\ UNCHANGED <<seq, items, notify, closed, cancelled, producer, fate, calls, lateCalls>>

\* SIGTERM.
Cancel ==
  /\ ~cancelled
  /\ cancelled' = TRUE
  /\ UNCHANGED <<seq, items, notify, closed, runner, worker, producer, fate, calls, lateCalls>>

CloseManager ==
  /\ runner = "running"
  /\ cancelled
  /\ closed' = closed \cup {"manager"}
  /\ runner' = "closing"
  /\ UNCHANGED <<seq, items, notify, cancelled, worker, producer, fate, calls, lateCalls>>

CloseQueue ==
  /\ runner = "closing"
  /\ closed' = closed \cup {"queue"}
  /\ runner' = "signal"
  /\ UNCHANGED <<seq, items, notify, cancelled, worker, producer, fate, calls, lateCalls>>

SignalClose ==
  /\ runner = "signal"
  /\ notify' = TRUE
  /\ runner' = "waiting"
  /\ UNCHANGED <<seq, items, closed, cancelled, worker, producer, fate, calls, lateCalls>>

Return ==
  /\ runner = "waiting"
  /\ worker.pc = "stopped"
  /\ runner' = "done"
  /\ UNCHANGED <<seq, items, notify, closed, cancelled, worker, producer, fate, calls, lateCalls>>
-----------------------------------------------------------------------------
WorkerStep ==
  \/ Look \/ Wake \/ GiveUp \/ Send \/ StopAfterSend \/ Settle \/ Retry
  \/ \E a \in Answers : Answer(a)

RunnerStep == Start \/ CloseManager \/ CloseQueue \/ SignalClose \/ Return

ProducerStep(p) == Push(p) \/ Refuse(p) \/ Signal(p)

Next ==
  \/ \E p \in Producers : Enqueue(p) \/ ProducerStep(p)
  \/ WorkerStep
  \/ RunnerStep
  \/ Cancel

Spec == Init /\ [][Next]_vars

\* Goroutines that can run do run, timers fire, and Send returns when its timeout
\* has passed.  Nobody has to enqueue, and the process need not be stopped.
FairSpec ==
  /\ Spec
  /\ WF_vars(WorkerStep)
  /\ WF_vars(RunnerStep)
  /\ \A p \in Producers : WF_vars(ProducerStep(p))
-----------------------------------------------------------------------------
InHand == worker.pc \in {"timer", "sending", "answered"}

\* Every variable has its type, and the attempts counted in the queue never exceed
\* the calls of Send.
TypeOK ==
  /\ seq \in 0..MaxMessages
  /\ items \in Seq(Items)
  /\ Len(items) <= QueueSize
  /\ notify \in BOOLEAN
  /\ closed \in {{}, {"manager"}, {"manager", "queue"}}
  /\ cancelled \in BOOLEAN
  /\ runner \in {"new", "running", "closing", "signal", "waiting", "done"}
  /\ worker \in WorkerStates
  /\ producer \in [Producers -> ProducerStates]
  /\ fate \in [Ids -> {"none", "accepted", "refused", "sent", "dropped"}]
  /\ calls \in [Ids -> 0..MaxAttempts]
  /\ lateCalls \in Nat

\* complete and fail take away the head of the queue without looking which message
\* it is: it is the one the worker has sent, whatever was pushed meanwhile.
WorkerHoldsHead == InHand => items # <<>> /\ worker.id = Head(items).id

\* The worker never sleeps on a queue that is not empty, or closed, unless somebody
\* is about to wake it: a token is in the channel, or will be put there.
NoLostWakeup ==
  worker.pc = "asleep" =>
    /\ items # <<>> => notify \/ \E p \in Producers : producer[p].pc = "signal"
    /\ "queue" \in closed => notify \/ runner = "signal"

\* After the context is cancelled at most one more message is handed to the
\* platform ("in-flight sends are canceled through ctx", manager.go on Run).
AtMostOneLateCall == lateCalls <= 1

\* The queue is FIFO, bounded, tries only its oldest message and no message more
\* than MaxAttempts times, and does nothing after Run has returned.
Fifo == INSTANCE MessageFifo WITH
  Messages <- Ids,
  Size     <- QueueSize,
  MaxTries <- MaxAttempts,
  waiting  <- [n \in 1..Len(items) |-> items[n].id],
  tries    <- IF items = <<>> THEN 0 ELSE calls[items[1].id],
  shut     <- runner = "done"

FifoImplemented == Fifo!Spec

\* Every accepted message is sent or dropped in the end, unless the process stops.
AcceptedSettled ==
  \A i \in Ids : fate[i] = "accepted" ~> (fate[i] \in {"sent", "dropped"} \/ cancelled)
=============================================================================
