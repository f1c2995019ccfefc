--------------------------- MODULE TaggingProofs ---------------------------
(***************************************************************************)
(* Theorems about Tagging, for any set of records and builds, any finite   *)
(* number of workers, and any capacity and number of restarts.             *)
(***************************************************************************)
EXTENDS Tagging, FiniteSetTheorems, SequenceTheorems, TLAPS

Pool == INSTANCE TaggerPoolProofs WITH
  Callers <- Workers, Size <- Cardinality(Workers), Texts <- Records, Tags <- Titles

Booting == {"seed_default", "seed_catalog", "load", "backfill"}

\* How far start-up has come with the tags.
CatalogReady ==
  /\ mode \in {"seed_catalog", "load", "backfill", "up"} => Default \in tags
  /\ mode \in {"backfill", "up"} => loaded = tags

\* A record names a tag of the table or none yet, and none once requests are served.
RecordsTagged ==
  \A r \in Records : Exists(r) =>
    /\ record[r].tag \in tags \cup {NoTag}
    /\ Serving => record[r].tag # NoTag

\* An answer that a worker still holds was given with the tags that are loaded now.
AnswersCurrent ==
  \A w \in Workers :
    /\ mode \in Booting => call[w].pc = "none"
    /\ Serving /\ call[w].pc = "answered" => call[w].name \in tags \cup {NoTag}

\* A worker that has not asked for the second column has nothing to announce.
NothingYet == \A w \in Workers : worker[w].pc = "tag" => ~worker[w].updated

TaggingInv ==
  /\ TypeOK /\ Pool!PoolInv
  /\ CatalogReady /\ RecordsTagged /\ AnswersCurrent
  /\ NothingYet /\ ChangesAnnounced
-----------------------------------------------------------------------------
LEMMA PoolConfigured == Pool!PoolConfig
  BY PoolAssumption DEF TagPool!PoolConfig, Pool!PoolConfig

\* Tagging's instance of TaggerPool and the one with the theorems are the same.
LEMMA SamePool ==
  /\ TagPool!Init <=> Pool!Init
  /\ TagPool!Renew <=> Pool!Renew
  /\ \A w \in Workers :
       /\ \A t \in Records : TagPool!Begin(w, t) <=> Pool!Begin(w, t)
       /\ \A names \in SUBSET Titles : TagPool!Step(w, names) <=> Pool!Step(w, names)
       /\ TagPool!Done(w) <=> Pool!Done(w)
<1>1. TagPool!Init <=> Pool!Init
  BY DEF TagPool!Init, Pool!Init, TagPool!Full, Pool!Full, TagPool!Slots, Pool!Slots, TagPool!Fresh, Pool!Fresh, TagPool!Prompt, Pool!Prompt, TagPool!NotCalling, Pool!NotCalling, TagPool!NoSlot, Pool!NoSlot
<1>2. TagPool!Renew <=> Pool!Renew
  BY DEF TagPool!Renew, Pool!Renew, TagPool!Full, Pool!Full, TagPool!Slots, Pool!Slots, TagPool!Fresh, Pool!Fresh, TagPool!Prompt, Pool!Prompt, TagPool!NotCalling, Pool!NotCalling, TagPool!NoSlot, Pool!NoSlot
<1>3. ASSUME NEW w \in Workers, NEW t \in Records PROVE TagPool!Begin(w, t) <=> Pool!Begin(w, t)
  BY DEF TagPool!Begin, Pool!Begin, TagPool!CallGoes, Pool!CallGoes, TagPool!Waiting, Pool!Waiting, TagPool!NoSlot, Pool!NoSlot
<1>4. ASSUME NEW w \in Workers PROVE TagPool!Done(w) <=> Pool!Done(w)
  BY DEF TagPool!Done, Pool!Done, TagPool!CallGoes, Pool!CallGoes, TagPool!NotCalling, Pool!NotCalling, TagPool!NoSlot, Pool!NoSlot
<1>5. ASSUME NEW w \in Workers, NEW names \in SUBSET Titles
      PROVE  TagPool!Step(w, names) <=> Pool!Step(w, names)
  <2>1. TagPool!GiveUp(w) <=> Pool!GiveUp(w)
    BY DEF TagPool!GiveUp, Pool!GiveUp, TagPool!CallGoes, Pool!CallGoes, TagPool!Failed, Pool!Failed, TagPool!NoSlot, Pool!NoSlot
  <2>2. TagPool!Take(w) <=> Pool!Take(w)
    BY DEF TagPool!Take, Pool!Take, TagPool!CallGoes, Pool!CallGoes, TagPool!Asking, Pool!Asking, TagPool!WithTurn, Pool!WithTurn, TagPool!User, Pool!User
  <2>3. \A slot, s : TagPool!PutBack(slot, s) <=> Pool!PutBack(slot, s)
    BY DEF TagPool!PutBack, Pool!PutBack, TagPool!IsExhausted, Pool!IsExhausted, TagPool!Fresh, Pool!Fresh, TagPool!Prompt, Pool!Prompt
  <2>4. \A spent \in BOOLEAN : TagPool!Fail(w, spent) <=> Pool!Fail(w, spent)
    <3>1. \A s, spent : TagPool!RolledBack(s, spent) = Pool!RolledBack(s, spent)
      BY DEF TagPool!RolledBack, Pool!RolledBack, TagPool!Front, Pool!Front
    <3>2. \A to : TagPool!CallGoes(w, to) <=> Pool!CallGoes(w, to)
      BY DEF TagPool!CallGoes, Pool!CallGoes
    <3>3. TagPool!Failed = Pool!Failed
      BY DEF TagPool!Failed, Pool!Failed, TagPool!NoSlot, Pool!NoSlot
    <3> QED BY <2>3, <3>1, <3>2, <3>3, Zenon DEF TagPool!Fail, Pool!Fail
  <2>5. \A name, spent, used : TagPool!Answer(w, name, used, spent) <=> Pool!Answer(w, name, used, spent)
    <3>1. \A s, t, used, spent : TagPool!WithReply(s, t, used, spent) = Pool!WithReply(s, t, used, spent)
      BY DEF TagPool!WithReply, Pool!WithReply, TagPool!Assistant, Pool!Assistant
    <3>2. \A to : TagPool!CallGoes(w, to) <=> Pool!CallGoes(w, to)
      BY DEF TagPool!CallGoes, Pool!CallGoes
    <3>3. \A n : TagPool!Answered(n) = Pool!Answered(n)
      BY DEF TagPool!Answered, Pool!Answered, TagPool!NoSlot, Pool!NoSlot
    <3> QED BY <2>3, <3>1, <3>2, <3>3, Zenon DEF TagPool!Answer, Pool!Answer
  <2>6. \A s : TagPool!Used(s) = Pool!Used(s)
    BY DEF TagPool!Used, Pool!Used
  <2> QED BY <2>1, <2>2, <2>4, <2>5, <2>6 DEF TagPool!Step, Pool!Step
<1> QED BY <1>1, <1>2, <1>3, <1>4, <1>5

LEMMA SameInvariants ==
  /\ TagPool!SlotsConserved <=> Pool!SlotsConserved
  /\ TagPool!SessionsWhole <=> Pool!SessionsWhole
<1>1. TagPool!SlotsConserved <=> Pool!SlotsConserved
  BY DEF TagPool!SlotsConserved, Pool!SlotsConserved, TagPool!IdleSlots, Pool!IdleSlots, TagPool!Slots, Pool!Slots, TagPool!Borrowed, Pool!Borrowed, TagPool!Holds, Pool!Holds
<1>2. TagPool!IdleSlots = Pool!IdleSlots
  BY DEF TagPool!IdleSlots, Pool!IdleSlots
<1>3. \A m : TagPool!WholeTurns(m) <=> Pool!WholeTurns(m)
  BY DEF TagPool!WholeTurns, Pool!WholeTurns, TagPool!Prompt, Pool!Prompt, TagPool!User, Pool!User, TagPool!Assistant, Pool!Assistant
<1>4. \A s : TagPool!IsExhausted(s) <=> Pool!IsExhausted(s)
  BY DEF TagPool!IsExhausted, Pool!IsExhausted
<1>5. \A t : TagPool!User(t) = Pool!User(t)
  BY DEF TagPool!User, Pool!User
<1>6. TagPool!SessionsWhole <=> Pool!SessionsWhole
  <2>1. (\A s \in TagPool!IdleSlots :
           TagPool!WholeTurns(session[s].messages) /\ ~TagPool!IsExhausted(session[s]))
        <=> (\A s \in Pool!IdleSlots :
               Pool!WholeTurns(session[s].messages) /\ ~Pool!IsExhausted(session[s]))
    BY <1>2, <1>3, <1>4
  <2>2. \A m : TagPool!Front(m) = Pool!Front(m) /\ TagPool!Last(m) = Pool!Last(m)
    BY DEF TagPool!Front, Pool!Front, TagPool!Last, Pool!Last
  <2>3. \A m, t : (TagPool!WholeTurns(TagPool!Front(m)) /\ TagPool!Last(m) = TagPool!User(t))
                  <=> (Pool!WholeTurns(Pool!Front(m)) /\ Pool!Last(m) = Pool!User(t))
    BY <1>3, <1>5, <2>2
  <2> QED BY <2>1, <2>3 DEF TagPool!SessionsWhole, Pool!SessionsWhole
<1> QED BY <1>1, <1>6
-----------------------------------------------------------------------------
\* What a step of the tagger means for the pool of the record tag set.
LEMMA StepOfPool ==
  ASSUME TypeOK, [Next]_vars
  PROVE  [Pool!Next]_(Pool!poolVars)
<1>1. ASSUME NEW w \in Workers, Receive(w) PROVE Pool!Next
  <2>1. Head(jobs) \in Jobs
    BY <1>1, HeadTailProperties DEF Receive, TypeOK
  <2>2. Head(jobs).rec \in Records
    BY <2>1 DEF Jobs
  <2>3. Pool!Begin(w, Head(jobs).rec)
    BY <1>1, <2>2, SamePool DEF Receive
  <2> QED BY <2>2, <2>3 DEF Pool!Next
<1>2. ASSUME NEW w \in Workers, AskTag(w) PROVE Pool!Next
  <2>1. Candidates \in SUBSET Titles
    BY DEF TypeOK, Candidates
  <2>2. Pool!Step(w, Candidates)
    BY <1>2, <2>1, SamePool DEF AskTag
  <2>3. Pool!Step(w, Titles)
    <3>1. \A c \in Workers : Pool!Step(c, Candidates) => Pool!Step(c, Titles)
      BY <2>1 DEF Pool!Step
    <3> QED BY <2>2, <3>1
  <2> QED BY <2>3 DEF Pool!Next
<1>3. ASSUME NEW w \in Workers, StoreTag(w) \/ SkipTag(w) PROVE Pool!Next
  <2>1. Pool!Done(w)
    BY <1>3, SamePool DEF StoreTag, SkipTag
  <2> QED BY <2>1 DEF Pool!Next
<1>4. CASE Start
  BY <1>4, SamePool DEF Start, Pool!Next
<1>5. ASSUME UNCHANGED poolVars PROVE UNCHANGED Pool!poolVars
  BY <1>5 DEF poolVars, Pool!poolVars
<1>6. CASE StartUp \/ Stop
  BY <1>5, <1>6 DEF StartUp, Stop, Boot, SeedDefault, SeedCatalog, Load, BackfillRecords
<1>7. ASSUME NEW r \in Records, RequestStep(r) PROVE UNCHANGED poolVars
  BY <1>7 DEF RequestStep, Create, Enqueue, Delete, Edit, View, RequestBump
<1>8. ASSUME NEW w \in Workers, AskMetal(w) \/ StoreMetal(w) \/ SkipMetal(w) \/ Finish(w)
      PROVE  UNCHANGED poolVars
  BY <1>8 DEF AskMetal, StoreMetal, SkipMetal, Finish
<1>9. CASE UNCHANGED vars
  BY <1>5, <1>9 DEF vars
<1> QED BY <1>1, <1>2, <1>3, <1>4, <1>5, <1>6, <1>7, <1>8, <1>9 DEF Next, WorkerStep

LEMMA PoolKept ==
  ASSUME TypeOK, Pool!PoolInv, [Next]_vars
  PROVE  Pool!PoolInv'
  BY StepOfPool, PoolConfigured, Pool!PoolStep

\* What the pool says of the answer that a worker holds.
LEMMA AnswerIsTag ==
  ASSUME Pool!PoolInv, NEW w \in Workers, call[w].pc = "answered"
  PROVE  call[w].name \in Titles \cup {NoTag}
<1>1. Pool!PoolTypeOK
  BY DEF Pool!PoolInv
<1> QED BY <1>1, Pool!CallFields

LEMMA IndexIsStored == \A status : StatusIndex(status) \in StatusIndices
<1> TAKE status
<1>1. CASE \E i \in StatusIndices : StatusOrder[i + 1] = status
  BY <1>1 DEF StatusIndex
<1>2. CASE ~\E i \in StatusIndices : StatusOrder[i + 1] = status
  BY <1>2 DEF StatusIndex, StatusIndices
<1> QED BY <1>1, <1>2
-----------------------------------------------------------------------------
LEMMA TypeInit == Init => TypeOK
<1> SUFFICES ASSUME Init PROVE TypeOK
  OBVIOUS
<1>1. [tag |-> NoTag, metal |-> 0] \in Rows
  BY DEF Rows, StatusIndices
<1>2. record \in [Records -> Rows \cup {Absent, Deleted}]
  BY <1>1 DEF Init
<1>3. <<>> \in Seq(Jobs) /\ Len(<<>>) <= QueueSize
  BY TaggingAssumption
<1> QED BY <1>2, <1>3 DEF Init, TypeOK, Modes, WorkerStates

\* Tags and verdicts that are written belong to the columns.
LEMMA RowsTyped ==
  ASSUME TypeOK
  PROVE  /\ \A r \in Records : Exists(r) => record[r] \in Rows
         /\ \A x \in Rows, t \in Titles \cup {Default} : [x EXCEPT !.tag = t] \in Rows
         /\ \A r \in Records, t \in Titles : Column(r, "tag", t) \in [Records -> Rows \cup {Absent, Deleted}]
         /\ \A r \in Records, n \in StatusIndices : Column(r, "metal", n) \in [Records -> Rows \cup {Absent, Deleted}]
<1>1. \A r \in Records : Exists(r) => record[r] \in Rows
  BY DEF TypeOK, Exists
<1>2. \A x \in Rows, t \in Titles \cup {Default} : [x EXCEPT !.tag = t] \in Rows
  BY DEF Rows
<1>3. \A x \in Rows, n \in StatusIndices : [x EXCEPT !.metal = n] \in Rows
  BY DEF Rows
<1>4. \A x \in Rows : \A t, n : [x EXCEPT !["tag"] = t] = [x EXCEPT !.tag = t] /\ [x EXCEPT !["metal"] = n] = [x EXCEPT !.metal = n]
  OBVIOUS
<1>5. ASSUME NEW r \in Records, NEW t \in Titles
      PROVE  Column(r, "tag", t) \in [Records -> Rows \cup {Absent, Deleted}]
  BY <1>1, <1>2, <1>4 DEF Column, TypeOK
<1>6. ASSUME NEW r \in Records, NEW n \in StatusIndices
      PROVE  Column(r, "metal", n) \in [Records -> Rows \cup {Absent, Deleted}]
  BY <1>1, <1>3, <1>4 DEF Column, TypeOK
<1> QED BY <1>1, <1>2, <1>5, <1>6

LEMMA TypeStep ==
  ASSUME TypeOK, Pool!PoolInv, [Next]_vars
  PROVE  TypeOK'
<1>1. CASE SeedDefault \/ Load
  BY <1>1 DEF SeedDefault, Load, Boot, TypeOK, Modes, bootVars, catalogVars, handlerVars, workVars
<1>2. CASE SeedCatalog
  <2> PICK catalog \in Catalogs : tags' = catalog \cup {Default} /\ Silently(Reassigned(catalog \cup {Default}))
    BY <1>2 DEF SeedCatalog
  <2>1. tags' \subseteq Titles \cup {Default}
    BY TaggingAssumption
  <2>2. record' \in [Records -> Rows \cup {Absent, Deleted}]
    BY RowsTyped DEF Silently, Reassigned, TypeOK
  <2>3. sync' \in {"current", "ahead", "unannounced"}
    BY DEF Silently, TypeOK
  <2> QED BY <1>2, <2>1, <2>2, <2>3 DEF SeedCatalog, Boot, TypeOK, Modes, handlerVars, workVars
<1>3. CASE BackfillRecords
  <2>1. record' \in [Records -> Rows \cup {Absent, Deleted}]
    BY <1>3, RowsTyped DEF BackfillRecords, Silently, TypeOK
  <2>2. sync' \in {"current", "ahead", "unannounced"}
    BY <1>3 DEF BackfillRecords, Silently, TypeOK
  <2> QED BY <1>3, <2>1, <2>2 DEF BackfillRecords, Boot, TypeOK, Modes, handlerVars, workVars, catalogVars
<1>4. CASE Stop
  <2>1. jobs' \in Seq(Jobs) /\ Len(jobs') <= QueueSize
    BY <1>4, TaggingAssumption DEF Stop
  <2> QED BY <1>4, <2>1 DEF Stop, NotBumped, TypeOK, Modes, WorkerStates, catalogVars
<1>5. CASE Start
  BY <1>5 DEF Start, TypeOK, Modes, handlerVars, workVars
<1>6. ASSUME NEW r \in Records, Create(r) PROVE TypeOK'
  <2>1. [tag |-> Default, metal |-> 0] \in Rows
    BY DEF Rows, StatusIndices
  <2> QED BY <1>6, <2>1 DEF Create, Request, HandlerGoes, Written, TypeOK, bootVars, catalogVars, workVars
<1>7. ASSUME NEW r \in Records, Enqueue(r) PROVE TypeOK'
  <2>1. \A job \in Jobs : Offered(job) \in Seq(Jobs) /\ Len(Offered(job)) <= QueueSize
    BY TaggingAssumption DEF Offered, TypeOK
  <2>2. jobs' \in Seq(Jobs) /\ Len(jobs') <= QueueSize
    BY <1>7, <2>1 DEF Enqueue, Jobs, TypeOK
  <2> QED BY <1>7, <2>2 DEF Enqueue, HandlerGoes, TypeOK, bootVars, catalogVars
<1>8. ASSUME NEW r \in Records, Delete(r) \/ Edit(r) \/ View(r) \/ RequestBump(r) PROVE TypeOK'
  BY <1>8 DEF Delete, Edit, View, RequestBump, Request, HandlerGoes, Written, Bump, Bumped, NotBumped, TypeOK,
    bootVars, catalogVars, workVars
<1>9. ASSUME NEW job \in Jobs, NEW u \in BOOLEAN, NEW pc \in {"tag", "metal", "bump"}
      PROVE  At(pc, job, u) \in WorkerStates
  BY <1>9 DEF At, WorkerStates
<1>10. ASSUME NEW w \in Workers, worker[w].pc # "idle"
       PROVE  /\ worker[w].job \in Jobs /\ worker[w].updated \in BOOLEAN
              /\ worker[w].job.rec \in Records
              /\ Ended(w) \in WorkerStates
  <2>1. worker[w] \in [pc : {"tag", "metal", "bump"}, job : Jobs, updated : BOOLEAN]
    BY <1>10 DEF TypeOK, WorkerStates, NoJob
  <2>2. worker[w].job.rec \in Records
    BY <2>1 DEF Jobs
  <2> QED BY <2>1, <2>2 DEF Ended, WorkerStates
<1>11. ASSUME NEW w \in Workers, NEW u \in BOOLEAN, worker[w].pc # "idle", GoesOn(w, u)
       PROVE  worker' \in [Workers -> WorkerStates]
  BY <1>9, <1>10, <1>11 DEF GoesOn, WorkerGoes, TypeOK
<1>12. ASSUME NEW w \in Workers, Receive(w) PROVE TypeOK'
  <2>1. /\ Head(jobs) \in Jobs /\ Tail(jobs) \in Seq(Jobs)
        /\ Len(Tail(jobs)) = Len(jobs) - 1 /\ Len(jobs) \in Nat
    BY <1>12, HeadTailProperties, LenProperties DEF Receive, TypeOK
  <2>2. Len(jobs') <= QueueSize
    BY <1>12, <2>1, TaggingAssumption DEF Receive, TypeOK
  <2>3. worker' \in [Workers -> WorkerStates]
    BY <1>9, <1>12, <2>1 DEF Receive, WorkerGoes, TypeOK
  <2> QED BY <1>12, <2>1, <2>2, <2>3 DEF Receive, TypeOK, bootVars, catalogVars, handlerVars
<1>13. ASSUME NEW w \in Workers, AskTag(w) \/ AskMetal(w) PROVE TypeOK'
  BY <1>13 DEF AskTag, AskMetal, TypeOK, bootVars, catalogVars, handlerVars, workVars
<1>14. ASSUME NEW w \in Workers, StoreTag(w) PROVE TypeOK'
  <2>1. worker[w].pc # "idle" /\ call[w].name \in Titles
    BY <1>14, AnswerIsTag DEF StoreTag
  <2>2. record' \in [Records -> Rows \cup {Absent, Deleted}]
    <3>1. worker[w].job.rec \in Records
      BY <1>10, <2>1
    <3>2. Column(worker[w].job.rec, "tag", call[w].name) \in [Records -> Rows \cup {Absent, Deleted}]
      BY <2>1, <3>1, RowsTyped
    <3>3. record' = Column(worker[w].job.rec, "tag", call[w].name) \/ record' = record
      BY <1>14 DEF StoreTag, Stored, NotStored
    <3> QED BY <3>2, <3>3 DEF TypeOK
  <2>3. sync' \in {"current", "ahead", "unannounced"}
    BY <1>14 DEF StoreTag, Stored, Written, NotStored, TypeOK
  <2>4. worker' \in [Workers -> WorkerStates]
    BY <1>11, <1>14, <2>1 DEF StoreTag
  <2> QED BY <1>14, <2>2, <2>3, <2>4 DEF StoreTag, TypeOK, bootVars, catalogVars, handlerVars
<1>15. ASSUME NEW w \in Workers, SkipTag(w) PROVE TypeOK'
  <2>1. worker' \in [Workers -> WorkerStates]
    BY <1>11, <1>15 DEF SkipTag
  <2> QED BY <1>15, <2>1 DEF SkipTag, NotStored, TypeOK, bootVars, catalogVars, handlerVars
<1>16. ASSUME NEW w \in Workers, StoreMetal(w) PROVE TypeOK'
  <2>1. worker[w].pc # "idle"
    BY <1>16 DEF StoreMetal
  <2>2. record' \in [Records -> Rows \cup {Absent, Deleted}]
    <3> PICK n \in StatusIndices : n = StatusIndex(StatusForTag(asked[w].name))
      BY IndexIsStored
    <3>1. worker[w].job.rec \in Records
      BY <1>10, <2>1
    <3>2. Column(worker[w].job.rec, "metal", n) \in [Records -> Rows \cup {Absent, Deleted}]
      BY <3>1, RowsTyped
    <3>3. record' = Column(worker[w].job.rec, "metal", n) \/ record' = record
      BY <1>16 DEF StoreMetal, Stored, NotStored
    <3> QED BY <3>2, <3>3 DEF TypeOK
  <2>3. sync' \in {"current", "ahead", "unannounced"}
    BY <1>16 DEF StoreMetal, Stored, Written, NotStored, TypeOK
  <2>4. worker' \in [Workers -> WorkerStates]
    BY <1>9, <1>10, <1>16, <2>1 DEF StoreMetal, WorkerGoes, TypeOK
  <2> QED BY <1>16, <2>2, <2>3, <2>4 DEF StoreMetal, TypeOK, bootVars, catalogVars, handlerVars
<1>17. ASSUME NEW w \in Workers, SkipMetal(w) \/ Finish(w) PROVE TypeOK'
  <2>1. worker' \in [Workers -> WorkerStates]
    BY <1>10, <1>17 DEF SkipMetal, Finish, WorkerGoes, WorkerStates, TypeOK
  <2> QED BY <1>17, <2>1 DEF SkipMetal, Finish, NotStored, Bump, Bumped, NotBumped, TypeOK, bootVars, catalogVars, handlerVars
<1>18. CASE UNCHANGED vars
  BY <1>18 DEF vars, TypeOK, bootVars, catalogVars, handlerVars, workVars
<1> QED BY <1>1, <1>2, <1>3, <1>4, <1>5, <1>6, <1>7, <1>8, <1>12, <1>13, <1>14, <1>15, <1>16, <1>17, <1>18
      DEF Next, StartUp, RequestStep, WorkerStep

\* Pool!Step gives a caller at most one of the names it was asked with.
LEMMA CallsChange ==
  ASSUME Pool!PoolTypeOK, NEW w \in Workers, NEW names \in SUBSET Titles, Pool!Step(w, names)
  PROVE  /\ call'[w].pc = "answered" => call'[w].name \in names \cup {NoTag}
         /\ \A x \in Workers \ {w} : call'[x] = call[x]
<1>1. PICK to : /\ call' = [call EXCEPT ![w] = to]
                /\ to.pc = "answered" => to.name \in names \cup {NoTag}
  <2>1. CASE Pool!GiveUp(w) \/ \E spent \in BOOLEAN : Pool!Fail(w, spent)
    <3>1. call' = [call EXCEPT ![w] = Pool!Failed]
      BY <2>1 DEF Pool!GiveUp, Pool!Fail, Pool!CallGoes
    <3>2. Pool!Failed.pc # "answered"
      BY DEF Pool!Failed
    <3> QED BY <3>1, <3>2
  <2>2. CASE Pool!Take(w)
    <3>1. PICK t, s : call' = [call EXCEPT ![w] = Pool!Asking(t, s)]
      BY <2>2 DEF Pool!Take, Pool!CallGoes
    <3>2. Pool!Asking(t, s).pc # "answered"
      BY DEF Pool!Asking
    <3> QED BY <3>1, <3>2
  <2>3. ASSUME NEW n \in names \cup {NoTag}, call' = [call EXCEPT ![w] = Pool!Answered(n)]
        PROVE  \E to : /\ call' = [call EXCEPT ![w] = to]
                       /\ to.pc = "answered" => to.name \in names \cup {NoTag}
    <3>1. Pool!Answered(n).name = n
      BY DEF Pool!Answered
    <3> QED BY <2>3, <3>1
  <2>4. CASE \E n \in names \cup {NoTag} : \E spent, used : Pool!Answer(w, n, used, spent)
    <3> PICK n \in names \cup {NoTag} : \E spent, used : Pool!Answer(w, n, used, spent)
      BY <2>4
    <3> PICK spent, used : Pool!Answer(w, n, used, spent)
      OBVIOUS
    <3>1. call' = [call EXCEPT ![w] = Pool!Answered(n)]
      BY DEF Pool!Answer, Pool!CallGoes
    <3> QED BY <2>3, <3>1
  <2> QED BY <2>1, <2>2, <2>4 DEF Pool!Step
<1>2. call \in [Workers -> Pool!Calls]
  BY DEF Pool!PoolTypeOK
<1>3. call'[w] = to /\ \A x \in Workers \ {w} : call'[x] = call[x]
  BY <1>1, <1>2
<1> QED BY <1>1, <1>3

LEMMA BeginOrDone ==
  ASSUME Pool!PoolTypeOK, NEW w \in Workers, (\E t \in Records : Pool!Begin(w, t)) \/ Pool!Done(w)
  PROVE  /\ call'[w].pc # "answered"
         /\ \A x \in Workers \ {w} : call'[x] = call[x]
<1>1. call \in [Workers -> Pool!Calls]
  BY DEF Pool!PoolTypeOK
<1>2. PICK to : call' = [call EXCEPT ![w] = to] /\ to.pc # "answered"
  <2>1. CASE Pool!Done(w)
    <3>1. call' = [call EXCEPT ![w] = Pool!NotCalling] /\ Pool!NotCalling.pc # "answered"
      BY <2>1 DEF Pool!Done, Pool!CallGoes, Pool!NotCalling
    <3> QED BY <3>1
  <2>2. CASE \E t \in Records : Pool!Begin(w, t)
    <3>1. PICK t : call' = [call EXCEPT ![w] = Pool!Waiting(t)]
      BY <2>2 DEF Pool!Begin, Pool!CallGoes
    <3>2. Pool!Waiting(t).pc # "answered"
      BY DEF Pool!Waiting
    <3> QED BY <3>1, <3>2
  <2> QED BY <2>1, <2>2
<1> QED BY <1>1, <1>2

LEMMA CatalogStep ==
  ASSUME TypeOK, CatalogReady, [Next]_vars
  PROVE  CatalogReady'
<1>1. CASE StartUp
  BY <1>1 DEF StartUp, SeedDefault, SeedCatalog, Load, BackfillRecords, Boot, CatalogReady, catalogVars
<1>2. CASE Stop \/ Start
  BY <1>2 DEF Stop, Start, CatalogReady
<1>3. ASSUME UNCHANGED <<bootVars, catalogVars>> PROVE CatalogReady'
  BY <1>3 DEF bootVars, catalogVars, CatalogReady
<1>4. ASSUME NEW r \in Records, RequestStep(r) PROVE UNCHANGED <<bootVars, catalogVars>>
  BY <1>4 DEF RequestStep, Create, Enqueue, Delete, Edit, View, RequestBump
<1>5. ASSUME NEW w \in Workers, WorkerStep(w) PROVE UNCHANGED <<bootVars, catalogVars>>
  BY <1>5 DEF WorkerStep, Receive, AskTag, StoreTag, SkipTag, AskMetal, StoreMetal, SkipMetal, Finish
<1> QED BY <1>1, <1>2, <1>3, <1>4, <1>5 DEF Next, vars

LEMMA AnswersStep ==
  ASSUME TypeOK, Pool!PoolInv, CatalogReady, AnswersCurrent, [Next]_vars
  PROVE  AnswersCurrent'
<1> USE DEF AnswersCurrent, Booting, Serving
<1>0. Pool!PoolTypeOK
  BY DEF Pool!PoolInv
<1>1. CASE StartUp
  BY <1>1 DEF StartUp, SeedDefault, SeedCatalog, Load, BackfillRecords, Boot, poolVars
<1>2. CASE Stop
  BY <1>2 DEF Stop
<1>3. CASE Start
  <2>1. call' = [w \in Workers |-> Pool!NotCalling]
    BY <1>3, SamePool DEF Start, Pool!Renew
  <2> QED BY <1>3, <2>1 DEF Start, Pool!NotCalling
<1>4. ASSUME NEW w \in Workers, AskTag(w) PROVE AnswersCurrent'
  <2>1. Candidates \subseteq tags /\ Candidates \in SUBSET Titles
    BY <1>4 DEF Candidates, AskTag, CatalogReady, TypeOK
  <2>2. Pool!Step(w, Candidates)
    BY <1>4, <2>1, SamePool DEF AskTag
  <2>3. mode' = mode /\ tags' = tags /\ mode = "up"
    BY <1>4 DEF AskTag, bootVars, catalogVars
  <2> QED BY <1>0, <2>1, <2>2, <2>3, CallsChange
<1>5. ASSUME NEW w \in Workers, Receive(w) \/ StoreTag(w) \/ SkipTag(w) PROVE AnswersCurrent'
  <2>1. CASE Receive(w)
    <3>1. Head(jobs) \in Jobs
      BY <2>1, HeadTailProperties DEF Receive, TypeOK
    <3>2. Head(jobs).rec \in Records
      BY <3>1 DEF Jobs
    <3>3. Pool!Begin(w, Head(jobs).rec)
      BY <2>1, <3>2, SamePool DEF Receive
    <3>4. mode' = mode /\ tags' = tags /\ mode = "up"
      BY <2>1 DEF Receive, bootVars, catalogVars
    <3> QED BY <1>0, <3>2, <3>3, <3>4, BeginOrDone
  <2>2. CASE StoreTag(w) \/ SkipTag(w)
    <3>1. Pool!Done(w)
      BY <2>2, SamePool DEF StoreTag, SkipTag
    <3>2. mode' = mode /\ tags' = tags /\ mode = "up"
      BY <2>2 DEF StoreTag, SkipTag, bootVars, catalogVars
    <3> QED BY <1>0, <3>1, <3>2, BeginOrDone
  <2> QED BY <1>5, <2>1, <2>2
<1>6. ASSUME UNCHANGED <<bootVars, catalogVars, poolVars>> PROVE AnswersCurrent'
  BY <1>6 DEF bootVars, catalogVars, poolVars
<1>7. ASSUME NEW r \in Records, RequestStep(r) PROVE UNCHANGED <<bootVars, catalogVars, poolVars>>
  BY <1>7 DEF RequestStep, Create, Enqueue, Delete, Edit, View, RequestBump
<1>8. ASSUME NEW w \in Workers, AskMetal(w) \/ StoreMetal(w) \/ SkipMetal(w) \/ Finish(w)
      PROVE  UNCHANGED <<bootVars, catalogVars, poolVars>>
  BY <1>8 DEF AskMetal, StoreMetal, SkipMetal, Finish
<1> QED BY <1>1, <1>2, <1>3, <1>4, <1>5, <1>6, <1>7, <1>8 DEF Next, WorkerStep, vars

LEMMA RecordsStep ==
  ASSUME TypeOK, CatalogReady, RecordsTagged, AnswersCurrent, [Next]_vars
  PROVE  RecordsTagged'
<1>0. /\ \A r \in Records : Exists(r) => record[r] \in Rows
      /\ Default # NoTag
  BY TaggingAssumption, RowsTyped
<1>1. ASSUME record' = record, tags' = tags, mode' = mode PROVE RecordsTagged'
  BY <1>1 DEF RecordsTagged, Exists, Serving
<1>2. CASE SeedDefault
  <2>1. record' = record /\ tags \subseteq tags' /\ mode' # "up"
    BY <1>2 DEF SeedDefault, Boot
  <2> QED BY <2>1 DEF RecordsTagged, Exists, Serving
<1>3. CASE SeedCatalog
  <2> PICK kept : tags' = kept /\ Default \in kept /\ record' = Reassigned(kept)
    BY <1>3 DEF SeedCatalog, Silently
  <2>1. mode' # "up"
    BY <1>3 DEF SeedCatalog, Boot
  <2>2. ASSUME NEW r \in Records, Exists(r)' PROVE record'[r].tag \in kept \cup {NoTag}
    <3>1. CASE Exists(r) /\ record[r].tag \in tags \ kept
      <4>1. record'[r] = [record[r] EXCEPT !.tag = Default]
        BY <3>1 DEF Reassigned
      <4>2. record[r] \in [tag : Titles \cup {Default, NoTag}, metal : StatusIndices]
        BY <1>0, <3>1 DEF Rows
      <4> QED BY <4>1, <4>2
    <3>2. CASE ~(Exists(r) /\ record[r].tag \in tags \ kept)
      <4>1. record'[r] = record[r]
        BY <3>2 DEF Reassigned
      <4>2. Exists(r)
        BY <2>2, <4>1 DEF Exists
      <4> QED BY <3>2, <4>1, <4>2 DEF RecordsTagged
    <3> QED BY <3>1, <3>2
  <2> QED BY <2>1, <2>2 DEF RecordsTagged, Serving
<1>4. CASE Load
  <2>1. record' = record /\ tags' = tags /\ mode' # "up"
    BY <1>4 DEF Load, Boot
  <2> QED BY <2>1 DEF RecordsTagged, Exists, Serving
<1>5. CASE BackfillRecords
  <2>1. tags' = tags /\ Default \in tags
    BY <1>5 DEF BackfillRecords, Boot, catalogVars, CatalogReady
  <2>2. ASSUME NEW r \in Records, Exists(r)'
        PROVE  record'[r].tag \in tags /\ record'[r].tag # NoTag
    <3>1. record'[r] = IF Exists(r) /\ record[r].tag = NoTag
                         THEN [record[r] EXCEPT !.tag = Default] ELSE record[r]
      BY <1>5 DEF BackfillRecords, Silently
    <3>2. CASE Exists(r) /\ record[r].tag = NoTag
      <4>1. record[r] \in [tag : Titles \cup {Default, NoTag}, metal : StatusIndices]
        BY <1>0, <3>2 DEF Rows
      <4> QED BY <1>0, <2>1, <3>1, <3>2, <4>1
    <3>3. CASE ~(Exists(r) /\ record[r].tag = NoTag)
      <4>1. Exists(r)
        BY <2>2, <3>1, <3>3 DEF Exists
      <4> QED BY <3>1, <3>3, <4>1 DEF RecordsTagged
    <3> QED BY <3>2, <3>3
  <2> QED BY <2>1, <2>2 DEF RecordsTagged, Serving
<1>6. CASE Stop \/ Start
  <2>1. record' = record /\ tags' = tags /\ mode' # "up"
    BY <1>6 DEF Stop, Start, catalogVars
  <2> QED BY <2>1 DEF RecordsTagged, Exists, Serving
<1>7. ASSUME NEW r \in Records, Create(r) PROVE RecordsTagged'
  <2>1. /\ record' = [record EXCEPT ![r] = [tag |-> Default, metal |-> 0]]
        /\ mode' = mode /\ tags' = tags /\ mode = "up"
    BY <1>7 DEF Create, Request, Serving, bootVars, catalogVars
  <2>2. Default \in tags
    BY <2>1 DEF CatalogReady
  <2> QED BY <1>0, <2>1, <2>2 DEF RecordsTagged, Exists, Serving, TypeOK
<1>8. ASSUME NEW r \in Records, Delete(r) PROVE RecordsTagged'
  BY <1>8 DEF Delete, RecordsTagged, Exists, Serving, TypeOK, bootVars, catalogVars
<1>9. ASSUME NEW r \in Records, Enqueue(r) \/ Edit(r) \/ View(r) \/ RequestBump(r) PROVE RecordsTagged'
  BY <1>1, <1>9 DEF Enqueue, Edit, View, RequestBump, bootVars, catalogVars
<1>10. ASSUME NEW w \in Workers, StoreTag(w) PROVE RecordsTagged'
  <2> PICK name : name = call[w].name
    OBVIOUS
  <2> PICK x : x = worker[w].job.rec
    OBVIOUS
  <2>1. /\ mode' = mode /\ tags' = tags /\ mode = "up" /\ name # NoTag
        /\ record' = record \/ record' = Column(x, "tag", name)
    BY <1>10 DEF StoreTag, Stored, NotStored, Serving, bootVars, catalogVars
  <2>2. name \in tags
    BY <1>10, <2>1 DEF StoreTag, AnswersCurrent, Serving
  <2>3. ASSUME NEW r \in Records, Exists(r)', record' = Column(x, "tag", name)
        PROVE  record'[r].tag \in tags /\ record'[r].tag # NoTag
    <3>1. record'[r] = IF r = x /\ Exists(x) THEN [record[x] EXCEPT !["tag"] = name] ELSE record[r]
      BY <2>3 DEF Column
    <3>2. CASE r = x /\ Exists(x)
      <4>1. record[x] \in [tag : Titles \cup {Default, NoTag}, metal : StatusIndices]
        BY <1>0, <3>2 DEF Rows
      <4> QED BY <2>1, <2>2, <3>1, <3>2, <4>1
    <3>3. CASE ~(r = x /\ Exists(x))
      <4>1. Exists(r)
        BY <2>3, <3>1, <3>3 DEF Exists
      <4> QED BY <2>1, <3>1, <3>3, <4>1 DEF RecordsTagged, Serving
    <3> QED BY <3>2, <3>3
  <2> QED BY <1>1, <2>1, <2>3 DEF RecordsTagged
<1>11. ASSUME NEW w \in Workers, StoreMetal(w) PROVE RecordsTagged'
  <2> PICK n : n = StatusIndex(StatusForTag(asked[w].name))
    OBVIOUS
  <2> PICK x : x = worker[w].job.rec
    OBVIOUS
  <2>1. /\ mode' = mode /\ tags' = tags
        /\ record' = record \/ record' = Column(x, "metal", n)
    BY <1>11 DEF StoreMetal, Stored, NotStored, bootVars, catalogVars
  <2>2. ASSUME NEW r \in Records, Exists(r)', record' = Column(x, "metal", n)
        PROVE  Exists(r) /\ record'[r].tag = record[r].tag
    <3>1. record'[r] = IF r = x /\ Exists(x) THEN [record[x] EXCEPT !["metal"] = n] ELSE record[r]
      BY <2>2 DEF Column
    <3>2. CASE r = x /\ Exists(x)
      <4>1. record[x] \in [tag : Titles \cup {Default, NoTag}, metal : StatusIndices]
        BY <1>0, <3>2 DEF Rows
      <4> QED BY <3>1, <3>2, <4>1
    <3>3. CASE ~(r = x /\ Exists(x))
      BY <2>2, <3>1, <3>3 DEF Exists
    <3> QED BY <3>2, <3>3
  <2> QED BY <1>1, <2>1, <2>2 DEF RecordsTagged, Serving
<1>12. ASSUME NEW w \in Workers, Receive(w) \/ AskTag(w) \/ SkipTag(w) \/ AskMetal(w) \/ SkipMetal(w) \/ Finish(w)
       PROVE  RecordsTagged'
  BY <1>1, <1>12 DEF Receive, AskTag, SkipTag, AskMetal, SkipMetal, Finish, NotStored, bootVars, catalogVars
<1>13. CASE UNCHANGED vars
  BY <1>1, <1>13 DEF vars, bootVars, catalogVars
<1> QED BY <1>2, <1>3, <1>4, <1>5, <1>6, <1>7, <1>8, <1>9, <1>10, <1>11, <1>12, <1>13
      DEF Next, StartUp, RequestStep, WorkerStep
-----------------------------------------------------------------------------
\* A step that goes on with the work of w, or with the request for r, and leaves the
\* others where they are.
LEMMA WorkerMoves ==
  ASSUME TypeOK, NEW w \in Workers, NEW to, WorkerGoes(w, to)
  PROVE  worker'[w] = to /\ \A x \in Workers \ {w} : worker'[x] = worker[x]
  BY DEF WorkerGoes, TypeOK

LEMMA HandlerMoves ==
  ASSUME TypeOK, NEW r \in Records, NEW pc, HandlerGoes(r, pc)
  PROVE  handler'[r] = pc /\ \A x \in Records \ {r} : handler'[x] = handler[x]
  BY DEF HandlerGoes, TypeOK

LEMMA GoingOn ==
  ASSUME TypeOK, NEW w \in Workers, NEW u \in BOOLEAN, GoesOn(w, u)
  PROVE  /\ worker'[w].pc \in {"metal", "bump"} /\ worker'[w].updated = u
         /\ \A x \in Workers \ {w} : worker'[x] = worker[x]
<1> PICK pc \in {"metal", "bump"} : WorkerGoes(w, At(pc, worker[w].job, u))
  BY DEF GoesOn
<1>1. At(pc, worker[w].job, u).pc = pc /\ At(pc, worker[w].job, u).updated = u
  BY DEF At
<1> QED BY <1>1, WorkerMoves

LEMMA WorkStep ==
  ASSUME TypeOK, NothingYet, ChangesAnnounced, NEW w \in Workers, WorkerStep(w)
  PROVE  NothingYet' /\ ChangesAnnounced'
<1> USE DEF NothingYet, ChangesAnnounced, Owed, HandlerOwes, WorkerOwes
<1>1. handler' = handler
  BY DEF WorkerStep, Receive, AskTag, StoreTag, SkipTag, AskMetal, StoreMetal, SkipMetal, Finish, handlerVars
<1>2. CASE Receive(w)
  <2>1. /\ At("tag", Head(jobs), FALSE).pc = "tag" /\ ~At("tag", Head(jobs), FALSE).updated
    BY DEF At
  <2>2. worker[w].pc = "idle" /\ sync' = sync /\ WorkerGoes(w, At("tag", Head(jobs), FALSE))
    BY <1>2 DEF Receive
  <2> QED BY ZenonT(30), <1>1, <2>1, <2>2, WorkerMoves
<1>3. CASE AskTag(w) \/ AskMetal(w)
  <2>1. worker' = worker /\ sync' = sync
    BY <1>3 DEF AskTag, AskMetal, workVars
  <2> QED BY <1>1, <2>1
<1>4. CASE StoreTag(w)
  <2>1. CASE GoesOn(w, TRUE)
    BY <1>1, <2>1, GoingOn
  <2>2. CASE sync' = sync /\ GoesOn(w, FALSE)
    <3>1. worker[w].pc = "tag"
      BY <1>4 DEF StoreTag
    <3> QED BY <1>1, <2>2, <3>1, GoingOn
  <2> QED BY <1>4, <2>1, <2>2 DEF StoreTag, NotStored
<1>5. CASE SkipTag(w)
  <2>1. worker[w].pc = "tag" /\ sync' = sync /\ GoesOn(w, FALSE)
    BY <1>5 DEF SkipTag, NotStored
  <2> QED BY <1>1, <2>1, GoingOn
<1>6. ASSUME WorkerGoes(w, Ended(w)), worker[w].pc = "metal", sync' = sync
      PROVE  NothingYet' /\ ChangesAnnounced'
  <2>1. Ended(w).pc = "bump" /\ Ended(w).updated = worker[w].updated
    <3>1. worker[w] \in [pc : {"tag", "metal", "bump"}, job : Jobs, updated : BOOLEAN]
      BY <1>6 DEF TypeOK, WorkerStates, NoJob
    <3> QED BY <3>1 DEF Ended
  <2> QED BY <1>1, <1>6, <2>1, WorkerMoves
<1>7. CASE StoreMetal(w)
  <2>1. CASE WorkerGoes(w, At("bump", worker[w].job, TRUE))
    <3>1. At("bump", worker[w].job, TRUE).pc = "bump" /\ At("bump", worker[w].job, TRUE).updated
      BY DEF At
    <3> QED BY ZenonT(30), <1>1, <2>1, <3>1, WorkerMoves
  <2> QED BY <1>6, <1>7, <2>1 DEF StoreMetal, NotStored
<1>8. CASE SkipMetal(w)
  BY <1>6, <1>8 DEF SkipMetal, NotStored
<1>9. CASE Finish(w)
  <2>1. NoJob.pc = "idle" /\ WorkerGoes(w, NoJob)
    BY <1>9 DEF Finish, NoJob
  <2>2. CASE worker[w].updated
    <3>1. sync' # "ahead"
      BY <1>9, <2>2 DEF Finish, Bump, Bumped, NotBumped
    <3> QED BY <2>1, <3>1, WorkerMoves
  <2>3. CASE ~worker[w].updated
    <3>1. sync' = sync
      BY <1>9, <2>3 DEF Finish
    <3> QED BY <1>1, <2>1, <2>3, <3>1, WorkerMoves
  <2> QED BY <2>2, <2>3
<1> QED BY <1>2, <1>3, <1>4, <1>5, <1>7, <1>8, <1>9 DEF WorkerStep

LEMMA AnnounceStep ==
  ASSUME TypeOK, NothingYet, ChangesAnnounced, [Next]_vars
  PROVE  NothingYet' /\ ChangesAnnounced'
<1> USE DEF NothingYet, ChangesAnnounced, Owed, HandlerOwes, WorkerOwes
<1>1. CASE StartUp
  <2>1. sync' \in {sync, "unannounced"} /\ handler' = handler /\ worker' = worker
    BY <1>1 DEF StartUp, SeedDefault, SeedCatalog, Load, BackfillRecords, Boot, Silently, handlerVars, workVars
  <2> QED BY <2>1
<1>2. CASE Stop
  BY <1>2 DEF Stop, NotBumped, NoJob
<1>3. CASE Start \/ UNCHANGED vars
  BY <1>3 DEF Start, vars, handlerVars, workVars
<1>4. ASSUME NEW r \in Records, RequestStep(r) PROVE worker' = worker
  BY <1>4 DEF RequestStep, Create, Enqueue, Delete, Edit, View, RequestBump, workVars
<1>5. ASSUME NEW r \in Records, NEW pc \in {"enqueue", "bump", "view"}, RequestStep(r), HandlerGoes(r, pc)
      PROVE  NothingYet' /\ ChangesAnnounced'
  BY <1>4, <1>5, HandlerMoves
<1>6. ASSUME NEW r \in Records, Create(r) \/ Enqueue(r) \/ Delete(r) \/ Edit(r)
      PROVE  NothingYet' /\ ChangesAnnounced'
  BY <1>5, <1>6 DEF Create, Enqueue, Delete, Edit, RequestStep
<1>7. ASSUME NEW r \in Records, View(r) \/ RequestBump(r)
      PROVE  NothingYet' /\ ChangesAnnounced'
  <2>1. CASE HandlerGoes(r, "bump")
    BY <1>5, <1>7, <2>1 DEF RequestStep
  <2>2. CASE sync' # "ahead"
    BY <1>4, <1>7, <2>2 DEF RequestStep
  <2> QED BY <1>7, <2>1, <2>2 DEF View, RequestBump, Bump, Bumped, NotBumped
<1>8. ASSUME NEW w \in Workers, WorkerStep(w) PROVE NothingYet' /\ ChangesAnnounced'
  BY <1>8, WorkStep
<1> QED BY <1>1, <1>2, <1>3, <1>6, <1>7, <1>8 DEF Next, RequestStep
-----------------------------------------------------------------------------
LEMMA InvInit == Init => TaggingInv
<1> SUFFICES ASSUME Init PROVE TaggingInv
  OBVIOUS
<1>1. TypeOK /\ Pool!PoolInv
  BY TypeInit, SamePool, PoolConfigured, Pool!InitPool DEF Init
<1>2. CatalogReady /\ RecordsTagged
  BY DEF Init, CatalogReady, RecordsTagged, Exists, Serving
<1>3. AnswersCurrent
  <2>1. call = [w \in Workers |-> Pool!NotCalling]
    BY SamePool DEF Init, Pool!Init
  <2> QED BY <2>1 DEF Init, AnswersCurrent, Serving, Pool!NotCalling
<1>4. NothingYet /\ ChangesAnnounced
  BY DEF Init, NothingYet, NoJob, ChangesAnnounced
<1> QED BY <1>1, <1>2, <1>3, <1>4 DEF TaggingInv

LEMMA InvStep == TaggingInv /\ [Next]_vars => TaggingInv'
<1> SUFFICES ASSUME TaggingInv, [Next]_vars PROVE TaggingInv'
  OBVIOUS
<1> USE DEF TaggingInv
<1>1. TypeOK'
  BY TypeStep
<1>2. Pool!PoolInv'
  BY PoolKept
<1>3. CatalogReady'
  BY CatalogStep
<1>4. RecordsTagged'
  BY RecordsStep
<1>5. AnswersCurrent'
  BY AnswersStep
<1>6. NothingYet' /\ ChangesAnnounced'
  BY AnnounceStep
<1> QED BY <1>1, <1>2, <1>3, <1>4, <1>5, <1>6

LEMMA AlwaysInv == Spec => []TaggingInv
  BY InvInit, InvStep, PTL DEF Spec

\* With as many sessions as workers, a worker that waits and finds the channel empty
\* would leave all sessions to the workers beside it.
LEMMA EnoughSessions ==
  ASSUME Pool!PoolInv
  PROVE  \A w \in Workers : call[w].pc = "waiting" => idle # <<>>
<1> SUFFICES ASSUME NEW w \in Workers, call[w].pc = "waiting", idle = <<>> PROVE FALSE
  OBVIOUS
<1> PICK n \in Nat : n = Cardinality(Workers)
  BY TaggingAssumption, FS_CardinalityType
<1>1. Pool!Slots = 1..n
  BY DEF Pool!Slots
<1>2. \A s \in 1..n : \E c \in Workers : Pool!Holds(c, s)
  <2>1. Pool!IdleSlots = {}
    BY DEF Pool!IdleSlots
  <2> QED BY <1>1, <2>1 DEF Pool!PoolInv, Pool!SlotsConserved, Pool!Borrowed
<1> PICK holder \in [1..n -> Workers] : \A s \in 1..n : Pool!Holds(holder[s], s)
  <2> PICK h : h = [s \in 1..n |-> CHOOSE c \in Workers : Pool!Holds(c, s)]
    OBVIOUS
  <2>1. \A s \in 1..n : h[s] \in Workers /\ Pool!Holds(h[s], s)
    BY <1>2
  <2>2. h \in [1..n -> Workers]
    BY <2>1
  <2> QED BY <2>1, <2>2
<1>3. \A s \in 1..n : call[holder[s]].slot = s /\ call[holder[s]].pc = "asking"
  BY DEF Pool!Holds
<1>4. \A s \in 1..n : holder[s] \in Workers \ {w}
  BY <1>3
<1>5. \A s, t \in 1..n : holder[s] = holder[t] => s = t
  BY <1>3
<1> PICK others : others = Workers \ {w}
  OBVIOUS
<1>6. IsFiniteSet(others) /\ Cardinality(others) = n - 1
  BY TaggingAssumption, FS_RemoveElement
<1> PICK slots : slots = 1..n
  OBVIOUS
<1>7. IsFiniteSet(slots) /\ Cardinality(slots) = n
  <2>1. n # 0
    BY TaggingAssumption, FS_EmptySet
  <2> QED BY <2>1, FS_Interval
<1>8. holder \in [slots -> others]
  BY <1>4
<1>9. Cardinality(others) < Cardinality(slots)
  BY <1>6, <1>7
<1>10. \E s, t \in slots : s # t /\ holder[s] = holder[t]
  BY <1>6, <1>7, <1>8, <1>9, FS_PigeonHole
<1> QED BY <1>5, <1>10

\* The types of the tagger's state, and the bound of the queue.
THEOREM TypeCorrect == Spec => []TypeOK
  BY AlwaysInv, PTL DEF TaggingInv

\* For any number of workers, whatever the provider does, no session is lost or shared,
\* and a worker that has to be served finds one (pool.go:90-96, run.go:174).
THEOREM SlotsSuffice == Spec => []WorkersNeverWait
<1>1. TaggingInv => WorkersNeverWait
  BY EnoughSessions, SameInvariants DEF TaggingInv, Pool!PoolInv, WorkersNeverWait
<1> QED BY <1>1, AlwaysInv, PTL

\* Failed turns leave no trace in the sessions (session.go:79-126).
THEOREM NoTraceOfFailures == Spec => []SessionsWhole
<1>1. TaggingInv => SessionsWhole
  BY SameInvariants DEF TaggingInv, Pool!PoolInv, SessionsWhole
<1> QED BY <1>1, AlwaysInv, PTL

\* Through any sequence of builds, crashes and late answers every record names a tag
\* that the table and the memory have (record_tagger_catalog.go:17-68).
THEOREM EveryTagResolves == Spec => []TagsResolve
<1>1. TaggingInv => TagsResolve
  BY DEF TaggingInv, CatalogReady, RecordsTagged, TagsResolve, Serving
<1> QED BY <1>1, AlwaysInv, PTL

\* A change that clients have not been told of has somebody who will tell them
\* (sync_middleware.go:24-38, record_tagger.go:177-187).
THEOREM NoChangeForgotten == Spec => []ChangesAnnounced
  BY AlwaysInv, PTL DEF TaggingInv
=============================================================================
