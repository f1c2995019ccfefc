----------------------------- MODULE TaggerPool -----------------------------
(***************************************************************************)
(* A pool of chat sessions (agent/tagger/pool.go) and what one call of     *)
(* Pool.Tag does with the session it borrows (agent/session.go,            *)
(* agent/tagger/tagger.go).  The model provider is external: it answers    *)
(* anything, late or never, and reports any context size of at least one   *)
(* token a message.                                                        *)
(*                                                                         *)
(* A step is one operation on the channel of idle slots, or the return     *)
(* from the provider with everything the call does after it.               *)
(***************************************************************************)
EXTENDS Naturals, Sequences, SequencesExt

CONSTANTS
  Callers,     \* goroutines that call Pool.Tag
  Size,        \* PoolConfig.Size, the number of sessions
  Texts,       \* what is sent to be tagged
  Tags,        \* the names of the tag set
  NoTag,       \* Result.Name = ""
  MaxTokens    \* PoolConfig.ContextTokens

\* What NewPool and NewSession check; assumed by whoever uses the module.
PoolConfig ==
  /\ Size \in Nat \ {0}
  /\ MaxTokens \in Nat \ {0}
  /\ NoTag \notin Tags

VARIABLES
  idle,        \* the channel Pool.idle, oldest first
  session,     \* the session of each slot
  call         \* where each caller is in Pool.Tag

poolVars == <<idle, session, call>>
-----------------------------------------------------------------------------
Slots == 1..Size
NoSlot == 0

Prompt == [role |-> "system"]
User(t) == [role |-> "user", text |-> t]
Assistant(t) == [role |-> "assistant", text |-> t]

Messages == {Prompt} \cup {User(t) : t \in Texts} \cup {Assistant(t) : t \in Texts}

\* Session.Reset, also what NewSession starts with.
Fresh == [messages |-> <<Prompt>>, tokens |-> 0, exhausted |-> FALSE]

IsExhausted(s) == s.exhausted \/ s.tokens >= MaxTokens

NotCalling == [pc |-> "none", slot |-> NoSlot]
Waiting(t) == [pc |-> "waiting", slot |-> NoSlot, text |-> t]
Asking(t, s) == [pc |-> "asking", slot |-> s, text |-> t]
Failed == [pc |-> "failed", slot |-> NoSlot]
Answered(n) == [pc |-> "answered", slot |-> NoSlot, name |-> n]

CallGoes(c, to) == call' = [call EXCEPT ![c] = to]

Sessions == [messages : Seq(Messages), tokens : Nat, exhausted : BOOLEAN]

Calls == {NotCalling, Failed} \cup {Waiting(t) : t \in Texts}
           \cup {Asking(t, s) : t \in Texts, s \in Slots}
           \cup {Answered(n) : n \in Tags \cup {NoTag}}
-----------------------------------------------------------------------------
\* NewPool fills the channel with one tagger per slot.
Full == [i \in 1..Size |-> i]

Init ==
  /\ idle = Full
  /\ session = [s \in Slots |-> Fresh]
  /\ call = [c \in Callers |-> NotCalling]

\* The process that owns the pool has ended and the next one makes a new pool.
Renew ==
  /\ idle' = Full
  /\ session' = [s \in Slots |-> Fresh]
  /\ call' = [c \in Callers |-> NotCalling]

\* Pool.Tag starts its timeout and waits for a slot.
Begin(c, t) ==
  /\ call[c].pc = "none"
  /\ CallGoes(c, Waiting(t))
  /\ UNCHANGED <<idle, session>>

\* The timeout ends, or the caller is cancelled, before a slot is received.
GiveUp(c) ==
  /\ call[c].pc = "waiting"
  /\ CallGoes(c, Failed)
  /\ UNCHANGED <<idle, session>>

WithTurn(s, t) == [s EXCEPT !.messages = Append(@, User(t))]

\* The caller receives a slot; Chat appends the text and asks the provider.
Take(c) ==
  /\ call[c].pc = "waiting"
  /\ idle # <<>>
  /\ LET slot == Head(idle) IN
       /\ CallGoes(c, Asking(call[c].text, slot))
       /\ session' = [session EXCEPT ![slot] = WithTurn(@, call[c].text)]
  /\ idle' = Tail(idle)

RolledBackNot(s, spent) == [s EXCEPT !.exhausted = @ \/ spent]

\* Chat truncates to the messages it started with.
RolledBack(s, spent) ==
  [s EXCEPT !.messages = Front(@), !.exhausted = @ \/ spent]

\* Chat stores the assistant's message and the context size it is told, or its
\* own estimate of it.
WithReply(s, t, used, spent) ==
  [messages  |-> Append(s.messages, Assistant(t)),
   tokens    |-> used,
   exhausted |-> s.exhausted \/ spent \/ used >= MaxTokens]

PutBackUnlessSpent(slot, s) ==
  /\ session' = [session EXCEPT ![slot] = IF IsExhausted(s) THEN Fresh ELSE s]
  /\ idle' = IF IsExhausted(s) THEN idle ELSE Append(idle, slot)

\* The deferred function of Pool.Tag: a session near the limit is reset before
\* the slot goes back.
PutBack(slot, s) ==
  /\ session' = [session EXCEPT ![slot] = IF IsExhausted(s) THEN Fresh ELSE s]
  /\ idle' = Append(idle, slot)

\* The context had ended before the call, the provider failed or timed out,
\* answered nothing, or answered what finalize refuses; "spent" when it said
\* that the context is too long or cut its answer.
Fail(c, spent) ==
  /\ call[c].pc = "asking"
  /\ LET slot == call[c].slot IN PutBack(slot, RolledBack(session[slot], spent))
  /\ CallGoes(c, Failed)

\* The context sizes a provider may report; the estimate is never smaller.
Used(s) == {Len(s.messages) + 1, MaxTokens}

\* The provider's answer passes finalize: a name of the tag set, or no tag
\* (also for a name that is not in the set).
Answer(c, name, used, spent) ==
  /\ call[c].pc = "asking"
  /\ LET slot == call[c].slot IN
       PutBack(slot, WithReply(session[slot], call[c].text, used, spent))
  /\ CallGoes(c, Answered(name))

\* The caller reads what Pool.Tag returned.
Done(c) ==
  /\ call[c].pc \in {"failed", "answered"}
  /\ CallGoes(c, NotCalling)
  /\ UNCHANGED <<idle, session>>

\* The steps inside Pool.Tag.
Step(c, names) ==
  \/ GiveUp(c)
  \/ Take(c)
  \/ \E spent \in BOOLEAN : Fail(c, spent)
  \/ /\ call[c].pc = "asking"
     /\ \E name \in names \cup {NoTag}, spent \in BOOLEAN :
          \E used \in Used(session[call[c].slot]) : Answer(c, name, used, spent)

Next ==
  \/ Renew
  \/ \E c \in Callers :
       \/ \E t \in Texts : Begin(c, t)
       \/ Step(c, Tags)
       \/ Done(c)

Spec == Init /\ [][Next]_poolVars
-----------------------------------------------------------------------------
Holds(c, s) == call[c].pc = "asking" /\ call[c].slot = s

Borrowed(s) == \E c \in Callers : Holds(c, s)

IdleSlots == {idle[i] : i \in DOMAIN idle}

(***************************************************************************)
(* Every slot is in exactly one place: once in the channel, or with one    *)
(* caller.  No error, timeout or cancellation loses a slot (the pool would *)
(* run dry) and no session is shared (pool.go:90-96).                      *)
(***************************************************************************)
SlotsConserved ==
  /\ \A i, j \in DOMAIN idle : idle[i] = idle[j] => i = j
  /\ \A s \in Slots : s \in IdleSlots <=> ~Borrowed(s)
  /\ \A c, d \in Callers, s \in Slots : Holds(c, s) /\ Holds(d, s) => c = d

\* The system prompt and then whole turns: a user text and its answer.
WholeTurns(m) ==
  /\ Len(m) % 2 = 1
  /\ m[1] = Prompt
  /\ \A i \in 1..(Len(m) \div 2) :
       \E t \in Texts : m[2 * i] = User(t) /\ m[2 * i + 1] = Assistant(t)

(***************************************************************************)
(* Failed turns leave no trace: an idle session holds the system prompt    *)
(* and whole turns and is not near its limit; a borrowed one has in        *)
(* addition the text of the caller that holds it, and of nobody else       *)
(* (session.go:79-126, pool.go:90-96).                                     *)
(***************************************************************************)
SessionsWhole ==
  /\ \A s \in IdleSlots : WholeTurns(session[s].messages) /\ ~IsExhausted(session[s])
  /\ \A c \in Callers : call[c].pc = "asking" =>
       LET m == session[call[c].slot].messages IN
         /\ WholeTurns(Front(m))
         /\ Last(m) = User(call[c].text)

(***************************************************************************)
(* The pool is the TagAgent its callers program against: borrowing,        *)
(* resetting and returning sessions is invisible to them.                  *)
(***************************************************************************)
Shown(c) ==
  CASE c.pc \in {"waiting", "asking"} -> [pc |-> "pending", text |-> c.text]
    [] c.pc = "answered" -> [pc |-> "answered", name |-> c.name]
    [] OTHER -> [pc |-> c.pc]

Seen == [c \in Callers |-> Shown(call[c])]

Agent == INSTANCE TagAgent WITH asked <- Seen

PoolIsTagAgent == Agent!Spec
=============================================================================
