-------------------------- MODULE TaggerPoolProofs --------------------------
(***************************************************************************)
(* Theorems about TaggerPool, for any number of callers, sessions and      *)
(* texts and any context size.                                             *)
(***************************************************************************)
EXTENDS TaggerPool, SequenceTheorems, TLAPS

PoolTypeOK ==
  /\ idle \in Seq(Slots)
  /\ session \in [Slots -> Sessions]
  /\ call \in [Callers -> Calls]

\* Neither part needs more than the types and the other one.
PoolInv == PoolTypeOK /\ SlotsConserved /\ SessionsWhole
-----------------------------------------------------------------------------
\* What is known of a caller that has the fields that its state has.
LEMMA CallFields ==
  ASSUME PoolTypeOK, NEW c \in Callers
  PROVE  /\ call[c] \in Calls
         /\ call[c].pc \in {"none", "waiting", "asking", "failed", "answered"}
         /\ call[c].pc \in {"waiting", "asking"} => call[c].text \in Texts
         /\ call[c].pc = "asking" => call[c].slot \in Slots
         /\ call[c].pc = "answered" => call[c].name \in Tags \cup {NoTag}
<1>1. call[c] \in Calls
  BY DEF PoolTypeOK
<1>2. \A x \in Calls :
         /\ x.pc \in {"none", "waiting", "asking", "failed", "answered"}
         /\ x.pc \in {"waiting", "asking"} => x.text \in Texts
         /\ x.pc = "asking" => x.slot \in Slots
         /\ x.pc = "answered" => x.name \in Tags \cup {NoTag}
  BY DEF Calls, NotCalling, Failed, Waiting, Asking, Answered
<1> QED BY <1>1, <1>2

\* The session records and their parts.
LEMMA FreshSession ==
  ASSUME PoolConfig
  PROVE  Fresh \in Sessions /\ WholeTurns(Fresh.messages) /\ ~IsExhausted(Fresh)
<1>1. <<Prompt>> \in Seq(Messages) /\ Len(<<Prompt>>) = 1 /\ <<Prompt>>[1] = Prompt
  BY DEF Messages
<1>2. WholeTurns(<<Prompt>>)
  BY <1>1 DEF WholeTurns
<1>3. ~(0 >= MaxTokens)
  BY DEF PoolConfig
<1> QED BY <1>1, <1>2, <1>3 DEF Fresh, Sessions, IsExhausted

\* What Append, Front and Last do to the messages of a session.
LEMMA AppendFront ==
  ASSUME NEW m \in Seq(Messages), NEW x \in Messages, NEW a, a = Append(m, x)
  PROVE  /\ a \in Seq(Messages) /\ Len(a) = Len(m) + 1
         /\ \A i \in 1..Len(m) : a[i] = m[i]
         /\ Last(a) = x /\ Front(a) = m
<1>1. /\ a \in Seq(Messages) /\ Len(a) = Len(m) + 1 /\ Len(m) \in Nat
      /\ \A i \in 1..Len(m) : a[i] = m[i]
      /\ a[Len(a)] = x
  OBVIOUS
<1>2. \A i \in 1..Len(m) : a[i] \in Messages
  BY <1>1, ElementOfSeq
<1>3. /\ Front(a) \in Seq(Messages) /\ Len(Front(a)) = Len(m)
      /\ \A i \in 1..Len(m) : Front(a)[i] = m[i]
  BY <1>1, <1>2, SubSeqProperties DEF Front
<1>4. Front(a) = m
  BY <1>3, SeqEqual
<1> QED BY <1>1, <1>4 DEF Last

LEMMA FrontIsSeq ==
  ASSUME NEW m \in Seq(Messages), NEW n \in Nat, Len(m) = n + 1
  PROVE  /\ Front(m) \in Seq(Messages) /\ Len(Front(m)) = n
         /\ \A i \in 1..n : Front(m)[i] = m[i]
<1>1. \A i \in 1..n : m[i] \in Messages
  BY ElementOfSeq
<1> QED BY <1>1, SubSeqProperties DEF Front

\* A session that has been borrowed: whole turns and the text of this call.
LEMMA TurnBegins ==
  ASSUME NEW s \in Sessions, NEW t \in Texts, NEW n, n = WithTurn(s, t)
  PROVE  /\ n \in Sessions
         /\ Front(n.messages) = s.messages
         /\ Last(n.messages) = User(t)
<1>1. /\ s.messages \in Seq(Messages) /\ s.tokens \in Nat /\ s.exhausted \in BOOLEAN
      /\ s = [messages |-> s.messages, tokens |-> s.tokens, exhausted |-> s.exhausted]
      /\ User(t) \in Messages
  BY DEF Sessions, Messages
<1> PICK m \in Seq(Messages), u \in Messages : m = s.messages /\ u = User(t)
  BY <1>1
<1> PICK a : a = Append(m, u)
  OBVIOUS
<1>2. a \in Seq(Messages) /\ Front(a) = m /\ Last(a) = u
  BY AppendFront
<1>3. n = [messages |-> a, tokens |-> s.tokens, exhausted |-> s.exhausted]
  BY <1>1 DEF WithTurn
<1>4. n \in Sessions
  BY <1>1, <1>2, <1>3 DEF Sessions
<1> QED BY <1>2, <1>3, <1>4

\* Rolling back leaves the whole turns that the call began with.
LEMMA TurnRolledBack ==
  ASSUME NEW s \in Sessions, NEW spent \in BOOLEAN, WholeTurns(Front(s.messages)),
         NEW n, n = RolledBack(s, spent)
  PROVE  n \in Sessions /\ WholeTurns(n.messages)
<1>1. s.messages \in Seq(Messages) /\ Len(s.messages) \in Nat
  BY DEF Sessions
<1>2. Front(s.messages) \in Seq(Messages)
  <2>1. CASE Len(s.messages) = 0
    <3>1. \A i \in 1..0 - 1 : s.messages[i] \in Messages
      OBVIOUS
    <3> QED BY <2>1, <3>1, SubSeqProperties DEF Front
  <2>2. CASE Len(s.messages) # 0
    <3>1. Len(s.messages) - 1 \in Nat /\ Len(s.messages) = (Len(s.messages) - 1) + 1
      BY <1>1, <2>2
    <3> QED BY <1>1, <3>1, FrontIsSeq
  <2> QED BY <2>1, <2>2
<1>3. n.messages = Front(s.messages) /\ n \in Sessions
  BY <1>2 DEF RolledBack, Sessions
<1> QED BY <1>3

\* A reply completes the turn.
LEMMA TurnCompleted ==
  ASSUME NEW s \in Sessions, NEW t \in Texts, NEW used \in Nat, NEW spent \in BOOLEAN,
         WholeTurns(Front(s.messages)), Last(s.messages) = User(t),
         Len(s.messages) # 0,
         NEW n, n = WithReply(s, t, used, spent)
  PROVE  n \in Sessions /\ WholeTurns(n.messages)
<1> PICK m \in Seq(Messages) : m = s.messages
  BY DEF Sessions
<1> PICK a : a = Append(m, Assistant(t))
  OBVIOUS
<1>1. Assistant(t) \in Messages
  BY DEF Messages
<1>2. /\ a \in Seq(Messages) /\ Len(a) = Len(m) + 1
      /\ \A i \in 1..Len(m) : a[i] = m[i]
      /\ a[Len(a)] = Assistant(t)
  BY <1>1
<1> PICK k \in Nat : Len(m) = k + 1
  <2>1. Len(m) \in Nat /\ Len(m) - 1 \in Nat
    OBVIOUS
  <2> QED BY <2>1
<1>3. Len(Front(m)) = k /\ \A i \in 1..k : Front(m)[i] = m[i]
  BY FrontIsSeq
<1>4. /\ k % 2 = 1
      /\ Front(m)[1] = Prompt
      /\ \A i \in 1..(k \div 2) :
           \E u \in Texts : Front(m)[2 * i] = User(u) /\ Front(m)[2 * i + 1] = Assistant(u)
  BY <1>3 DEF WholeTurns
<1> PICK h \in Nat : k = 2 * h + 1
  <2>1. k \div 2 \in Nat /\ k = 2 * (k \div 2) + 1
    BY <1>4
  <2> QED BY <2>1
<1>5. k \div 2 = h /\ (k + 2) % 2 = 1 /\ (k + 2) \div 2 = h + 1
  OBVIOUS
<1>6. a[1] = Prompt
  BY <1>2, <1>3, <1>4
<1>7. ASSUME NEW i \in 1..h + 1
      PROVE  \E u \in Texts : a[2 * i] = User(u) /\ a[2 * i + 1] = Assistant(u)
  <2>1. CASE i = h + 1
    <3>1. a[2 * i] = m[k + 1] /\ a[2 * i + 1] = a[Len(a)]
      BY <1>2, <2>1
    <3>2. m[k + 1] = User(t)
      BY DEF Last
    <3> QED BY <1>2, <3>1, <3>2
  <2>2. CASE i # h + 1
    <3>1. i \in 1..(k \div 2) /\ 2 * i \in 1..k /\ 2 * i + 1 \in 1..k
      BY <1>5, <2>2
    <3>2. a[2 * i] = Front(m)[2 * i] /\ a[2 * i + 1] = Front(m)[2 * i + 1]
      <4>1. \A j \in 1..k : a[j] = Front(m)[j]
        BY <1>2, <1>3
      <4> QED BY <3>1, <4>1
    <3> QED BY <1>4, <3>1, <3>2
  <2> QED BY <2>1, <2>2
<1>8. WholeTurns(a)
  <2>1. Len(a) = k + 2
    BY <1>2
  <2> QED BY <1>5, <1>6, <1>7, <2>1 DEF WholeTurns
<1>9. n.messages = a /\ n \in Sessions
  BY <1>2 DEF WithReply, Sessions
<1> QED BY <1>8, <1>9
-----------------------------------------------------------------------------
\* The channel.
LEMMA IdleSound ==
  ASSUME PoolTypeOK, SlotsConserved
  PROVE  /\ DOMAIN idle = 1..Len(idle) /\ Len(idle) \in Nat
         /\ \A i \in 1..Len(idle) : idle[i] \in Slots
         /\ \A i, j \in 1..Len(idle) : idle[i] = idle[j] => i = j
  BY LenProperties DEF PoolTypeOK, SlotsConserved

LEMMA InitPool == PoolConfig /\ Init => PoolInv
<1> SUFFICES ASSUME PoolConfig, Init PROVE PoolInv
  OBVIOUS
<1> USE DEF Init
<1>1. Full \in Seq(Slots) /\ Len(Full) = Size /\ \A i \in 1..Size : Full[i] = i
  BY DEF Full, Slots, PoolConfig
<1>2. PoolTypeOK
  BY <1>1, FreshSession DEF PoolTypeOK, Calls
<1>3. IdleSlots = Slots /\ \A s \in Slots : ~Borrowed(s)
  BY <1>1 DEF IdleSlots, Borrowed, Holds, NotCalling, Slots, Full
<1>4. SlotsConserved
  BY <1>1, <1>3 DEF SlotsConserved, Holds, NotCalling, Full
<1>5. SessionsWhole
  BY <1>3, FreshSession DEF SessionsWhole, NotCalling
<1> QED BY <1>2, <1>4, <1>5 DEF PoolInv

LEMMA RenewedPool == PoolConfig /\ Renew => PoolInv'
<1> SUFFICES ASSUME PoolConfig, Renew PROVE PoolInv'
  OBVIOUS
<1> USE DEF Renew
<1>1. Full \in Seq(Slots) /\ Len(Full) = Size /\ \A i \in 1..Size : Full[i] = i
  BY DEF Full, Slots, PoolConfig
<1>2. PoolTypeOK'
  BY <1>1, FreshSession DEF PoolTypeOK, Calls
<1>3. IdleSlots' = Slots /\ \A s \in Slots : ~Borrowed(s)'
  BY <1>1 DEF IdleSlots, Borrowed, Holds, NotCalling, Slots, Full
<1>4. SlotsConserved'
  BY <1>1, <1>3 DEF SlotsConserved, Holds, NotCalling, Full
<1>5. SessionsWhole'
  BY <1>3, FreshSession DEF SessionsWhole, NotCalling
<1> QED BY <1>2, <1>4, <1>5 DEF PoolInv

\* A caller that has no slot goes to a state without one.
LEMMA QuietStep ==
  ASSUME PoolInv, NEW c \in Callers, NEW to \in Calls,
         call[c].pc # "asking", to.pc # "asking",
         CallGoes(c, to), UNCHANGED <<idle, session>>
  PROVE  PoolInv'
<1>1. PoolTypeOK'
  BY DEF PoolInv, PoolTypeOK, CallGoes
<1>2. \A d \in Callers : IF d = c THEN call'[d] = to ELSE call'[d] = call[d]
  BY DEF PoolInv, PoolTypeOK, CallGoes
<1>3. \A d \in Callers : \A s : Holds(d, s)' <=> Holds(d, s)
  BY <1>2 DEF Holds
<1>4. IdleSlots' = IdleSlots /\ \A s : Borrowed(s)' <=> Borrowed(s)
  BY <1>3 DEF IdleSlots, Borrowed
<1>5. SlotsConserved'
  BY <1>3, <1>4 DEF PoolInv, SlotsConserved
<1>6. SessionsWhole'
  BY <1>2, <1>4 DEF PoolInv, SessionsWhole
<1> QED BY <1>1, <1>5, <1>6 DEF PoolInv

LEMMA TakeStep ==
  ASSUME PoolConfig, PoolInv, NEW c \in Callers, Take(c)
  PROVE  PoolInv'
<1> PICK slot : slot = Head(idle)
  OBVIOUS
<1> PICK t \in Texts : t = call[c].text
  BY CallFields DEF PoolInv, Take
<1>1. PoolTypeOK /\ SlotsConserved /\ SessionsWhole /\ call[c].pc = "waiting" /\ idle # <<>>
  BY DEF PoolInv, Take
<1>2. /\ slot = idle[1] /\ slot \in Slots /\ 1 \in 1..Len(idle)
      /\ idle' \in Seq(Slots) /\ Len(idle') = Len(idle) - 1
      /\ \A i \in 1..Len(idle) - 1 : idle'[i] = idle[i + 1]
  BY <1>1, IdleSound, HeadTailProperties DEF Take, PoolTypeOK
<1> PICK n : n = WithTurn(session[slot], t)
  OBVIOUS
<1>3. n \in Sessions /\ Front(n.messages) = session[slot].messages /\ Last(n.messages) = User(t)
  BY <1>1, <1>2, TurnBegins DEF PoolTypeOK
<1>4. /\ call' = [call EXCEPT ![c] = Asking(t, slot)]
      /\ session' = [session EXCEPT ![slot] = n]
  BY DEF Take, CallGoes
<1>5. PoolTypeOK'
  <2>1. Asking(t, slot) \in Calls
    BY <1>2 DEF Calls
  <2> QED BY <1>1, <1>2, <1>3, <1>4, <2>1 DEF PoolTypeOK
<1>6. /\ \A d \in Callers : IF d = c THEN call'[d] = Asking(t, slot) ELSE call'[d] = call[d]
      /\ \A s \in Slots : IF s = slot THEN session'[s] = n ELSE session'[s] = session[s]
  BY <1>1, <1>4 DEF PoolTypeOK
<1>7. \A d \in Callers : \A s : Holds(d, s)' <=> IF d = c THEN s = slot ELSE Holds(d, s)
  BY <1>6 DEF Holds, Asking
<1>8. slot \in IdleSlots /\ ~Borrowed(slot)
  BY <1>1, <1>2, IdleSound DEF IdleSlots, SlotsConserved
<1>9. IdleSlots' = IdleSlots \ {slot}
  <2>1. IdleSlots = {idle[i] : i \in 1..Len(idle)}
    BY <1>1, IdleSound DEF IdleSlots
  <2>2. DOMAIN idle' = 1..Len(idle) - 1
    BY <1>2, LenProperties
  <2>3. ASSUME NEW s, s \in IdleSlots' PROVE s \in IdleSlots \ {slot}
    <3> PICK i \in 1..Len(idle) - 1 : s = idle'[i]
      BY <2>2, <2>3 DEF IdleSlots
    <3>1. s = idle[i + 1] /\ i + 1 \in 1..Len(idle) /\ i + 1 # 1
      BY <1>1, <1>2, IdleSound
    <3> QED BY <1>1, <1>2, <2>1, <3>1, IdleSound
  <2>4. ASSUME NEW s, s \in IdleSlots \ {slot} PROVE s \in IdleSlots'
    <3> PICK i \in 1..Len(idle) : s = idle[i]
      BY <2>1, <2>4
    <3>1. i # 1 /\ i - 1 \in 1..Len(idle) - 1
      BY <1>1, <1>2, <2>4, IdleSound
    <3>2. idle'[i - 1] = s
      BY <1>1, <1>2, <3>1, IdleSound
    <3> QED BY <2>2, <3>1, <3>2 DEF IdleSlots
  <2> QED BY <2>3, <2>4
<1>10. SlotsConserved'
  <2>1. \A i, j \in DOMAIN idle' : idle'[i] = idle'[j] => i = j
    <3>1. DOMAIN idle' = 1..Len(idle) - 1
      BY <1>2, LenProperties
    <3> QED BY <1>1, <1>2, <3>1, IdleSound
  <2>2. \A s : Borrowed(s)' <=> (s = slot \/ Borrowed(s))
    <3>1. ~Holds(c, slot) /\ \A s : ~Holds(c, s)
      BY <1>1 DEF Holds
    <3> QED BY <1>7, <3>1 DEF Borrowed
  <2>3. \A s \in Slots : s \in IdleSlots' <=> ~Borrowed(s)'
    BY <1>1, <1>8, <1>9, <2>2 DEF SlotsConserved
  <2>4. \A d, e \in Callers, s \in Slots : Holds(d, s)' /\ Holds(e, s)' => d = e
    BY <1>1, <1>7, <1>8 DEF SlotsConserved, Borrowed
  <2> QED BY <2>1, <2>3, <2>4 DEF SlotsConserved
<1>11. SessionsWhole'
  <2>1. \A s \in IdleSlots' : WholeTurns(session'[s].messages) /\ ~IsExhausted(session'[s])
    <3>1. IdleSlots \subseteq Slots
      BY <1>1, IdleSound DEF IdleSlots
    <3> QED BY <1>1, <1>6, <1>9, <3>1 DEF SessionsWhole
  <2>2. ASSUME NEW d \in Callers, call'[d].pc = "asking"
        PROVE  /\ WholeTurns(Front(session'[call'[d].slot].messages))
               /\ Last(session'[call'[d].slot].messages) = User(call'[d].text)
    <3>1. CASE d = c
      <4>1. call'[d].slot = slot /\ call'[d].text = t /\ session'[slot] = n
        BY <1>2, <1>6, <3>1 DEF Asking
      <4> QED BY <1>1, <1>3, <1>8, <4>1 DEF SessionsWhole
    <3>2. CASE d # c
      <4>1. call'[d] = call[d] /\ call[d].pc = "asking" /\ call[d].slot \in Slots
        BY <1>1, <1>6, <2>2, <3>2, CallFields
      <4>2. call[d].slot # slot
        BY <1>8, <4>1 DEF Borrowed, Holds
      <4> QED BY <1>1, <1>6, <4>1, <4>2 DEF SessionsWhole
    <3> QED BY <3>1, <3>2
  <2> QED BY <2>1, <2>2 DEF SessionsWhole
<1> QED BY <1>5, <1>10, <1>11 DEF PoolInv

\* The end of a call: a session with whole turns goes back, reset when it is near
\* its limit.
LEMMA PutBackStep ==
  ASSUME PoolConfig, PoolInv, NEW c \in Callers, call[c].pc = "asking",
         NEW slot, slot = call[c].slot, NEW n \in Sessions, WholeTurns(n.messages),
         PutBack(slot, n), NEW to \in Calls, to.pc # "asking", CallGoes(c, to)
  PROVE  PoolInv'
<1>1. PoolTypeOK /\ SlotsConserved /\ SessionsWhole /\ slot \in Slots
  BY CallFields DEF PoolInv
<1> PICK b : b = IF IsExhausted(n) THEN Fresh ELSE n
  OBVIOUS
<1>2. b \in Sessions /\ WholeTurns(b.messages) /\ ~IsExhausted(b)
  BY FreshSession
<1>3. /\ session' = [session EXCEPT ![slot] = b] /\ idle' = Append(idle, slot)
      /\ call' = [call EXCEPT ![c] = to]
  BY DEF PutBack, CallGoes
<1>4. PoolTypeOK'
  BY <1>1, <1>2, <1>3 DEF PoolTypeOK
<1>5. /\ \A d \in Callers : IF d = c THEN call'[d] = to ELSE call'[d] = call[d]
      /\ \A s \in Slots : IF s = slot THEN session'[s] = b ELSE session'[s] = session[s]
  BY <1>1, <1>3 DEF PoolTypeOK
<1>6. /\ DOMAIN idle' = 1..Len(idle) + 1 /\ Len(idle) \in Nat
      /\ \A i \in 1..Len(idle) : idle'[i] = idle[i]
      /\ idle'[Len(idle) + 1] = slot
  <2>1. idle \in Seq(Slots)
    BY <1>1 DEF PoolTypeOK
  <2> QED BY <1>1, <1>3, <2>1
<1>7. Holds(c, slot) /\ Borrowed(slot) /\ slot \notin IdleSlots
  BY <1>1 DEF Holds, Borrowed, SlotsConserved
<1>8. IdleSlots' = IdleSlots \cup {slot}
  <2>1. IdleSlots = {idle[i] : i \in 1..Len(idle)}
    BY <1>1, IdleSound DEF IdleSlots
  <2>2. \A i \in 1..Len(idle) + 1 : i \in 1..Len(idle) \/ i = Len(idle) + 1
    BY <1>6
  <2>3. \A i \in 1..Len(idle) : i \in 1..Len(idle) + 1
    BY <1>6
  <2>4. Len(idle) + 1 \in 1..Len(idle) + 1
    BY <1>6
  <2> QED BY <1>6, <2>1, <2>2, <2>3, <2>4 DEF IdleSlots
<1>9. \A d \in Callers : \A s : Holds(d, s)' <=> d # c /\ Holds(d, s)
  BY <1>5 DEF Holds
<1>10. SlotsConserved'
  <2>1. \A i, j \in DOMAIN idle' : idle'[i] = idle'[j] => i = j
    <3>1. \A i \in 1..Len(idle) : idle[i] # slot
      BY <1>1, <1>7, IdleSound DEF IdleSlots
    <3>2. \A i \in 1..Len(idle) + 1 : i \in 1..Len(idle) \/ i = Len(idle) + 1
      BY <1>6
    <3> QED BY <1>1, <1>6, <3>1, <3>2, IdleSound
  <2>2. \A s \in Slots : Borrowed(s)' <=> s # slot /\ Borrowed(s)
    <3>1. \A s : Holds(c, s) => s = slot
      BY DEF Holds
    <3>2. \A d \in Callers : Holds(d, slot) => d = c
      BY <1>1, <1>7 DEF SlotsConserved
    <3> QED BY <1>9, <3>1, <3>2 DEF Borrowed
  <2>3. \A s \in Slots : s \in IdleSlots' <=> ~Borrowed(s)'
    BY <1>1, <1>7, <1>8, <2>2 DEF SlotsConserved
  <2>4. \A d, e \in Callers, s \in Slots : Holds(d, s)' /\ Holds(e, s)' => d = e
    BY <1>1, <1>9 DEF SlotsConserved
  <2> QED BY <2>1, <2>3, <2>4 DEF SlotsConserved
<1>11. SessionsWhole'
  <2>1. \A s \in IdleSlots' : WholeTurns(session'[s].messages) /\ ~IsExhausted(session'[s])
    <3>1. IdleSlots \subseteq Slots
      BY <1>1, IdleSound DEF IdleSlots
    <3> QED BY <1>1, <1>2, <1>5, <1>8, <3>1 DEF SessionsWhole
  <2>2. ASSUME NEW d \in Callers, call'[d].pc = "asking"
        PROVE  /\ WholeTurns(Front(session'[call'[d].slot].messages))
               /\ Last(session'[call'[d].slot].messages) = User(call'[d].text)
    <3>1. d # c /\ call'[d] = call[d] /\ call[d].pc = "asking" /\ call[d].slot \in Slots
      BY <1>1, <1>5, <2>2, CallFields
    <3>2. call[d].slot # slot
      BY <1>1, <1>7, <3>1 DEF SlotsConserved, Holds
    <3> QED BY <1>1, <1>5, <3>1, <3>2 DEF SessionsWhole
  <2> QED BY <2>1, <2>2 DEF SessionsWhole
<1> QED BY <1>4, <1>10, <1>11 DEF PoolInv

LEMMA FailStep ==
  ASSUME PoolConfig, PoolInv, NEW c \in Callers, NEW spent \in BOOLEAN, Fail(c, spent)
  PROVE  PoolInv'
<1> PICK slot \in Slots : slot = call[c].slot
  BY CallFields DEF PoolInv, Fail
<1> PICK n : n = RolledBack(session[slot], spent)
  OBVIOUS
<1>1. session[slot] \in Sessions /\ WholeTurns(Front(session[slot].messages))
  BY DEF PoolInv, PoolTypeOK, SessionsWhole, Fail
<1>2. n \in Sessions /\ WholeTurns(n.messages)
  BY <1>1, TurnRolledBack
<1>3. Failed \in Calls /\ Failed.pc # "asking"
  BY DEF Calls, Failed
<1> QED BY <1>2, <1>3, PutBackStep DEF Fail

LEMMA AnswerStep ==
  ASSUME PoolConfig, PoolInv, NEW c \in Callers, NEW name \in Tags \cup {NoTag},
         NEW spent \in BOOLEAN, NEW used, used \in Used(session[call[c].slot]),
         Answer(c, name, used, spent)
  PROVE  PoolInv'
<1> PICK slot \in Slots : slot = call[c].slot
  BY CallFields DEF PoolInv, Answer
<1> PICK t \in Texts : t = call[c].text
  BY CallFields DEF PoolInv, Answer
<1> PICK n : n = WithReply(session[slot], t, used, spent)
  OBVIOUS
<1>1. /\ session[slot] \in Sessions /\ WholeTurns(Front(session[slot].messages))
      /\ Last(session[slot].messages) = User(t)
  BY DEF PoolInv, PoolTypeOK, SessionsWhole, Answer
<1>2. session[slot].messages \in Seq(Messages) /\ Len(session[slot].messages) \in Nat
  BY <1>1 DEF Sessions
<1>3. used \in Nat
  BY <1>2 DEF Used, PoolConfig
<1>4. Len(session[slot].messages) # 0
  <2> SUFFICES ASSUME Len(session[slot].messages) = 0 PROVE FALSE
    OBVIOUS
  <2>1. \A i \in 1..0 - 1 : session[slot].messages[i] \in Messages
    OBVIOUS
  <2>2. Len(Front(session[slot].messages)) = 0
    BY <2>1, SubSeqProperties DEF Front
  <2> QED BY <1>1, <2>2 DEF WholeTurns
<1>5. n \in Sessions /\ WholeTurns(n.messages)
  BY <1>1, <1>3, <1>4, TurnCompleted
<1>6. Answered(name) \in Calls /\ Answered(name).pc # "asking"
  BY DEF Calls, Answered
<1> QED BY <1>5, <1>6, PutBackStep DEF Answer

LEMMA QuietSteps ==
  ASSUME PoolInv, NEW c \in Callers,
         (\E t \in Texts : Begin(c, t)) \/ GiveUp(c) \/ Done(c)
  PROVE  PoolInv'
<1>1. \A t \in Texts : Waiting(t) \in Calls /\ Waiting(t).pc # "asking"
  BY DEF Calls, Waiting
<1>2. Failed \in Calls /\ Failed.pc # "asking" /\ NotCalling \in Calls /\ NotCalling.pc # "asking"
  BY DEF Calls, Failed, NotCalling
<1>3. CASE \E t \in Texts : Begin(c, t)
  BY <1>1, <1>3, QuietStep DEF Begin
<1>4. CASE GiveUp(c)
  BY <1>2, <1>4, QuietStep DEF GiveUp
<1>5. CASE Done(c)
  BY <1>2, <1>5, QuietStep DEF Done
<1> QED BY <1>3, <1>4, <1>5

LEMMA PoolStep == PoolConfig /\ PoolInv /\ [Next]_poolVars => PoolInv'
<1> SUFFICES ASSUME PoolConfig, PoolInv, [Next]_poolVars PROVE PoolInv'
  OBVIOUS
<1>1. CASE Renew
  BY <1>1, RenewedPool
<1>2. CASE UNCHANGED poolVars
  BY <1>2 DEF poolVars, PoolInv, PoolTypeOK, SlotsConserved, SessionsWhole, IdleSlots, Borrowed, Holds
<1>3. ASSUME NEW c \in Callers, (\E t \in Texts : Begin(c, t)) \/ GiveUp(c) \/ Done(c)
      PROVE  PoolInv'
  BY <1>3, QuietSteps
<1>4. ASSUME NEW c \in Callers, Take(c) PROVE PoolInv'
  BY <1>4, TakeStep
<1>5. ASSUME NEW c \in Callers, NEW spent \in BOOLEAN, Fail(c, spent) PROVE PoolInv'
  BY <1>5, FailStep
<1>6. ASSUME NEW c \in Callers, NEW name \in Tags \cup {NoTag}, NEW spent \in BOOLEAN,
             NEW used \in Used(session[call[c].slot]), Answer(c, name, used, spent)
      PROVE  PoolInv'
  BY <1>6, AnswerStep
<1> QED BY <1>1, <1>2, <1>3, <1>4, <1>5, <1>6 DEF Next, Step

\* Whatever the provider does and whoever gives up, no slot is lost or shared, and
\* a session that waits in the channel has nothing of a failed turn and room for a
\* question (pool.go:90-99, session.go:79-126).
THEOREM PoolSound ==
  ASSUME PoolConfig
  PROVE  Spec => []PoolInv
<1>1. Init => PoolInv
  BY InitPool
<1>2. PoolInv /\ [Next]_poolVars => PoolInv'
  BY PoolStep
<1> QED BY <1>1, <1>2, PTL DEF Spec
-----------------------------------------------------------------------------
\* The state of the abstract agent, for one caller and for all of them.
LEMMA AskedOf ==
  ASSUME NEW c \in Callers, NEW x \in Calls, CallGoes(c, x), PoolTypeOK
  PROVE  Seen' =
           [Seen EXCEPT ![c] = Shown(x)]
  BY DEF CallGoes, PoolTypeOK, Seen

LEMMA AgentStep ==
  PoolInv /\ [Next]_poolVars => [Agent!Next]_Seen
<1> SUFFICES ASSUME PoolInv, [Next]_poolVars
             PROVE  [Agent!Next]_Seen
  OBVIOUS
<1>1. PoolTypeOK
  BY DEF PoolInv
<1>2. CASE Renew
  <2>1. Seen' = [d \in Callers |-> Agent!Quiet]
    BY <1>2 DEF Renew, Seen, Shown, NotCalling, Agent!Quiet
  <2> QED BY <2>1 DEF Agent!Next, Agent!Renew
<1>3. ASSUME NEW c \in Callers, NEW t \in Texts, Begin(c, t)
      PROVE  Agent!Begin(c, t)
  <2>1. Shown(call[c]).pc = "none"
    BY <1>3 DEF Begin, Shown
  <2>2. Seen' =
          [Seen EXCEPT ![c] = Agent!Pending(t)]
    <3>1. Waiting(t) \in Calls /\ Shown(Waiting(t)) = Agent!Pending(t)
      BY DEF Calls, Shown, Waiting, Agent!Pending
    <3> QED BY <1>1, <1>3, <3>1, AskedOf DEF Begin
  <2> QED BY <2>1, <2>2 DEF Agent!Begin, Agent!Goes, Seen
<1>4. ASSUME NEW c \in Callers, GiveUp(c) \/ \E spent \in BOOLEAN : Fail(c, spent)
      PROVE  Agent!Fail(c)
  <2>1. call[c].pc \in {"waiting", "asking"} /\ CallGoes(c, Failed)
    BY <1>4 DEF GiveUp, Fail
  <2>2. Shown(call[c]).pc = "pending"
    BY <2>1 DEF Shown
  <2>3. Seen' =
          [Seen EXCEPT ![c] = Agent!Failed]
    <3>1. Failed \in Calls /\ Shown(Failed) = Agent!Failed
      BY DEF Calls, Shown, Failed, Agent!Failed
    <3> QED BY <1>1, <2>1, <3>1, AskedOf
  <2> QED BY <2>2, <2>3 DEF Agent!Fail, Agent!Goes, Seen
<1>5. ASSUME NEW c \in Callers, Take(c)
      PROVE  UNCHANGED Seen
  <2>1. call[c].pc = "waiting" /\ call[c].text \in Texts
    BY <1>1, <1>5, CallFields DEF Take
  <2>2. CallGoes(c, Asking(call[c].text, Head(idle))) /\ idle # <<>>
    BY <1>5 DEF Take
  <2>3. Head(idle) \in Slots
    BY <1>1, <2>2, HeadTailProperties DEF PoolTypeOK
  <2>4. Shown(Asking(call[c].text, Head(idle))) = Shown(call[c])
    BY <2>1 DEF Shown, Asking
  <2>5. Asking(call[c].text, Head(idle)) \in Calls
    BY <2>1, <2>3 DEF Calls
  <2>6. Seen' =
          [Seen EXCEPT ![c] = Shown(call[c])]
    BY <1>1, <2>2, <2>4, <2>5, AskedOf
  <2> QED BY <2>6 DEF Seen
<1>6. ASSUME NEW c \in Callers, NEW n \in Tags \cup {NoTag}, NEW spent, NEW used, Answer(c, n, used, spent)
      PROVE  Agent!Answer(c, n)
  <2>1. call[c].pc = "asking" /\ CallGoes(c, Answered(n))
    BY <1>6 DEF Answer
  <2>2. Shown(call[c]).pc = "pending"
    BY <2>1 DEF Shown
  <2>3. Seen' =
          [Seen EXCEPT ![c] = Agent!Answered(n)]
    <3>1. Answered(n) \in Calls /\ Shown(Answered(n)) = Agent!Answered(n)
      BY DEF Calls, Shown, Answered, Agent!Answered
    <3> QED BY <1>1, <2>1, <3>1, AskedOf
  <2> QED BY <2>2, <2>3 DEF Agent!Answer, Agent!Goes, Seen
<1>7. ASSUME NEW c \in Callers, Done(c)
      PROVE  Agent!Done(c)
  <2>1. call[c].pc \in {"failed", "answered"} /\ CallGoes(c, NotCalling)
    BY <1>7 DEF Done
  <2>2. Shown(call[c]).pc \in {"failed", "answered"}
    BY <2>1 DEF Shown
  <2>3. Seen' =
          [Seen EXCEPT ![c] = Agent!Quiet]
    <3>1. NotCalling \in Calls /\ Shown(NotCalling) = Agent!Quiet
      BY DEF Calls, Shown, NotCalling, Agent!Quiet
    <3> QED BY <1>1, <2>1, <3>1, AskedOf
  <2> QED BY <2>2, <2>3 DEF Agent!Done, Agent!Goes, Seen
<1>8. CASE UNCHANGED poolVars
  BY <1>8 DEF poolVars, Seen
<1> QED BY <1>2, <1>3, <1>4, <1>5, <1>6, <1>7, <1>8 DEF Next, Step, Agent!Next

\* For its callers a pool of sessions is a TagAgent: a call ends with a tag of the set,
\* no tag or an error, and nothing of the other calls is visible.
THEOREM PoolImplementsAgent ==
  ASSUME PoolConfig
  PROVE  Spec => PoolIsTagAgent
<1>1. Init => Agent!Init
  BY DEF Init, Agent!Init, NotCalling, Seen, Shown, Agent!Quiet
<1>2. Spec => Agent!Init /\ [][Agent!Next]_Seen
  BY <1>1, PoolSound, AgentStep, PTL DEF Spec
<1> QED BY <1>2 DEF PoolIsTagAgent, Agent!Spec
=============================================================================
