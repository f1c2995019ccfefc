------------------------------- MODULE Tagging -------------------------------
(***************************************************************************)
(* The background tagging of records (tagging/service/record_tagger.go):   *)
(* the handlers that create, edit and delete records, the job queue, the   *)
(* workers, the tag catalogue that start-up brings up to date, the record  *)
(* sync counter.  The record tags are asked of a TaggerPool in detail, the *)
(* liquid-metal verdicts of the TagAgent that the second pool, the same    *)
(* code with another tag set, implements.                                  *)
(*                                                                         *)
(* One backend process runs at a time.  A step of a handler or worker ends *)
(* where another goroutine may come between: a statement or transaction on *)
(* the database, an operation on a channel, a command sent to Redis.       *)
(***************************************************************************)
EXTENDS LiquidMetal, FiniteSets

CONSTANTS
  Records,     \* record ids, each used once
  Workers,     \* the goroutines of RecordTagger.Run
  Titles,      \* tag titles but the default one
  Ruled,       \* those of them that have an apply rule
  Catalogs,    \* the CSVs of the builds that are deployed: sets of titles
  Verdicts,    \* what the liquid-metal classifier may choose here
  Default,     \* DefaultRecordTagTitle
  NoTag,       \* tag_id 0 or NULL; also the empty Result.Name
  Absent,      \* no row yet
  Deleted,     \* no row any more
  QueueSize,   \* recordTaggerQueueSize
  MaxTokens,   \* TAGGER_CONTEXT_TOKENS
  MaxBoots,    \* bound on the number of starts of the process
  MaxRequests  \* bound on the number of requests that change records

\* The columns of clinic_record that tagging writes.
Rows == [tag : Titles \cup {Default, NoTag}, metal : StatusIndices]

ASSUME TaggingAssumption ==
  /\ IsFiniteSet(Workers) /\ Workers # {}
  /\ Ruled \subseteq Titles
  /\ Catalogs # {} /\ \A c \in Catalogs : c \subseteq Titles /\ c \cap Ruled # {}
  /\ Verdicts \subseteq MetalTags
  /\ Absent # Deleted /\ {Absent, Deleted} \cap Rows = {}
  /\ Default \notin Titles /\ NoTag \notin Titles \cup {Default} \cup MetalTags
  /\ QueueSize \in Nat \ {0}
  /\ MaxBoots \in Nat /\ MaxRequests \in Nat

VARIABLES
  mode,        \* where the process is between its start and its end
  boots,       \* starts so far
  tags,        \* table clinic_record_tag: the titles it has
  loaded,      \* RecordTagService.byTitle
  record,      \* table clinic_record: tag and liquid-metal index of each row
  handler,     \* where the request for each record is
  requests,    \* requests so far
  jobs,        \* the channel RecordTagger.jobs
  worker,      \* where each worker is, and its job
  idle, session, call,    \* the pool of the record tag set
  asked,       \* calls of the liquid-metal agent
  sync         \* history: whether the data changed since the last bump of the
               \* record counter, and whether nobody will announce it

\* app.Run makes as many workers as the pool has sessions.
TagPool == INSTANCE TaggerPool WITH
  Callers <- Workers, Size <- Cardinality(Workers), Texts <- Records, Tags <- Titles

Metal == INSTANCE TagAgent WITH
  Callers <- Workers, Texts <- Records, Tags <- Verdicts

bootVars == <<mode, boots>>
catalogVars == <<tags, loaded>>
poolVars == <<idle, session, call>>
handlerVars == <<handler, requests>>
workVars == <<jobs, worker>>

vars == <<bootVars, catalogVars, record, handlerVars, workVars, poolVars, asked, sync>>
ASSUME PoolAssumption == TagPool!PoolConfig
-----------------------------------------------------------------------------
Modes == {"seed_default", "seed_catalog", "load", "backfill", "up", "down"}

Serving == mode = "up"

Jobs == [rec : Records, model : BOOLEAN]

NoJob == [pc |-> "idle"]
WorkerStates == {NoJob} \cup [pc : {"tag", "metal", "bump"}, job : Jobs, updated : BOOLEAN]
At(pc, job, updated) == [pc |-> pc, job |-> job, updated |-> updated]

WorkerGoes(w, to) == worker' = [worker EXCEPT ![w] = to]

HandlerGoes(r, pc) == handler' = [handler EXCEPT ![r] = pc]

Exists(r) == record[r] \notin {Absent, Deleted}

\* The tags the agent is told of: buildRecordTags leaves out the default tag and
\* tags without a rule.
Candidates == (loaded \ {Default}) \cap Ruled

\* A write of rows that differ puts the data ahead of the counter.
Written(newRecord) ==
  sync' = IF newRecord # record /\ sync = "current" THEN "ahead" ELSE sync

\* SyncService.Bump: Redis counts it, or the error is only logged.
Bumped == sync' = "current"
NotBumped == sync' = IF sync = "current" THEN sync ELSE "unannounced"
Bump == Bumped \/ NotBumped
-----------------------------------------------------------------------------
\* A database from before there were tags, or a fresh one, and a build to start.
Init ==
  /\ mode = "seed_default" /\ boots = 1
  /\ tags = {} /\ loaded = {}
  /\ record \in [Records -> {[tag |-> NoTag, metal |-> 0], Absent}]
  /\ handler = [r \in Records |-> "idle"] /\ requests = 0
  /\ jobs = <<>>
  /\ worker = [w \in Workers |-> NoJob]
  /\ TagPool!Init /\ Metal!Init
  /\ sync = "current"
-----------------------------------------------------------------------------
\* Start-up, before requests are served: app.Run up to BackfillRecords.
Boot(at, next) ==
  /\ mode = at
  /\ mode' = next
  /\ UNCHANGED <<boots, handlerVars, workVars, poolVars, asked>>

SeedDefault ==
  /\ Boot("seed_default", "seed_catalog")
  /\ tags' = tags \cup {Default}
  /\ UNCHANGED <<loaded, record, sync>>

\* What start-up changes of records is not announced.
Silently(newRecord) ==
  /\ record' = newRecord
  /\ sync' = IF newRecord # record THEN "unannounced" ELSE sync

NotReassigned(kept) == record

\* One transaction: upsert the catalogue, move the records of removed tags to
\* the default tag, delete those tags.
Reassigned(kept) ==
  [r \in Records |->
     IF Exists(r) /\ record[r].tag \in tags \ kept
       THEN [record[r] EXCEPT !.tag = Default] ELSE record[r]]

SeedCatalog ==
  /\ Boot("seed_catalog", "load")
  /\ \E catalog \in Catalogs : LET kept == catalog \cup {Default} IN
       /\ tags' = kept
       /\ Silently(Reassigned(kept))
  /\ UNCHANGED loaded

Load ==
  /\ Boot("load", "backfill")
  /\ loaded' = tags
  /\ UNCHANGED <<tags, record, sync>>

BackfillRecords ==
  /\ Boot("backfill", "up")
  /\ Silently([r \in Records |->
       IF Exists(r) /\ record[r].tag = NoTag THEN [record[r] EXCEPT !.tag = Default] ELSE record[r]])
  /\ UNCHANGED catalogVars

\* Changes that are committed and whose bump is still to come.
HandlerOwes(r) == handler[r] \in {"enqueue", "view", "bump"}
WorkerOwes(w) == worker[w].pc # "idle" /\ worker[w].updated
Owed == (\E r \in Records : HandlerOwes(r)) \/ (\E w \in Workers : WorkerOwes(w))

\* The process ends, in order or by a crash at any point: what was queued, asked
\* or about to be announced is gone.
Stop ==
  /\ mode # "down"
  /\ mode' = "down"
  /\ handler' = [r \in Records |-> "idle"]
  /\ jobs' = <<>>
  /\ worker' = [w \in Workers |-> NoJob]
  /\ NotBumped
  /\ UNCHANGED <<boots, catalogVars, record, requests, poolVars, asked>>

\* The next start, of the same build or another one, with new pools.
Start ==
  /\ mode = "down" /\ boots < MaxBoots
  /\ mode' = "seed_default" /\ boots' = boots + 1
  /\ loaded' = {}
  /\ TagPool!Renew /\ Metal!Renew
  /\ UNCHANGED <<tags, record, handlerVars, workVars, sync>>
-----------------------------------------------------------------------------
\* A request that changes record r reaches its handler.
Request(r) ==
  /\ Serving /\ handler[r] = "idle" /\ requests < MaxRequests
  /\ requests' = requests + 1

\* TicketService.Create commits the record with the default tag.
Create(r) ==
  /\ Request(r) /\ record[r] = Absent
  /\ record' = [record EXCEPT ![r] = [tag |-> Default, metal |-> 0]]
  /\ HandlerGoes(r, "enqueue")
  /\ Written(record')
  /\ UNCHANGED <<bootVars, catalogVars, workVars, poolVars, asked>>

OfferedOneMore(job) == IF Len(jobs) <= QueueSize THEN Append(jobs, job) ELSE jobs

\* The channel after Enqueue's select: when it is full the job is dropped.
Offered(job) == IF Len(jobs) < QueueSize THEN Append(jobs, job) ELSE jobs

\* Create hands the record to the tagger, unless the description is blank and
\* there is no model.
Enqueue(r) ==
  /\ Serving /\ handler[r] = "enqueue"
  /\ \/ \E model \in BOOLEAN : jobs' = Offered([rec |-> r, model |-> model])
     \/ UNCHANGED jobs
  /\ HandlerGoes(r, "bump")
  /\ UNCHANGED <<bootVars, catalogVars, record, requests, worker, poolVars, asked, sync>>

\* DeleteForUser commits the removal of the record.
Delete(r) ==
  /\ Request(r) /\ Exists(r)
  /\ record' = [record EXCEPT ![r] = Deleted]
  /\ HandlerGoes(r, "bump")
  /\ Written(record')
  /\ UNCHANGED <<bootVars, catalogVars, workVars, poolVars, asked>>

\* A staff action commits a change of the record (columns not modelled here).
Edit(r) ==
  /\ Request(r) /\ Exists(r)
  /\ HandlerGoes(r, "view")
  /\ sync' = IF sync = "current" THEN "ahead" ELSE sync
  /\ UNCHANGED <<bootVars, catalogVars, record, workVars, poolVars, asked>>

\* It then reads the journal for the answer; if that fails the answer is an error
\* although the change is committed, and the middleware does not bump.
View(r) ==
  /\ Serving /\ handler[r] = "view"
  /\ \/ HandlerGoes(r, "bump") /\ UNCHANGED sync
     \/ HandlerGoes(r, "idle") /\ NotBumped
  /\ UNCHANGED <<bootVars, catalogVars, record, requests, workVars, poolVars, asked>>

\* SyncBumpMiddleware after a successful answer.
RequestBump(r) ==
  /\ Serving /\ handler[r] = "bump"
  /\ HandlerGoes(r, "idle")
  /\ Bump
  /\ UNCHANGED <<bootVars, catalogVars, record, requests, workVars, poolVars, asked>>
-----------------------------------------------------------------------------
\* loop receives a job and process starts with the record tag.
Receive(w) ==
  /\ Serving /\ worker[w].pc = "idle" /\ jobs # <<>>
  /\ jobs' = Tail(jobs)
  /\ WorkerGoes(w, At("tag", Head(jobs), FALSE))
  /\ TagPool!Begin(w, Head(jobs).rec)
  /\ UNCHANGED <<bootVars, catalogVars, record, handlerVars, asked, sync>>

\* The steps inside the two calls of the agents.
AskTag(w) ==
  /\ Serving /\ worker[w].pc = "tag"
  /\ TagPool!Step(w, Candidates)
  /\ UNCHANGED <<bootVars, catalogVars, record, handlerVars, workVars, asked, sync>>

AskMetal(w) ==
  /\ Serving /\ worker[w].pc = "metal"
  /\ \/ Metal!Fail(w)
     \/ \E name \in Verdicts \cup {NoTag} : Metal!Answer(w, name)
  /\ UNCHANGED <<bootVars, catalogVars, record, handlerVars, workVars, poolVars, sync>>

\* process goes on to applyLiquidMetal, which needs a model.
GoesOn(w, updated) ==
  LET job == worker[w].job IN
    IF job.model
      THEN WorkerGoes(w, At("metal", job, updated)) /\ Metal!Begin(w, job.rec)
      ELSE WorkerGoes(w, At("bump", job, updated)) /\ UNCHANGED asked

\* UPDATE clinic_record SET one column WHERE id = the job's record: no row is no
\* error.
Column(r, name, value) ==
  [x \in Records |-> IF x = r /\ Exists(r) THEN [record[r] EXCEPT ![name] = value] ELSE record[x]]

Stored(rows) ==
  /\ record' = rows
  /\ Written(rows)

NotStored == UNCHANGED <<record, sync>>

\* applyRecordTag: a tag was chosen, and the statement may fail.
StoreTag(w) ==
  /\ Serving /\ worker[w].pc = "tag"
  /\ call[w].pc = "answered" /\ call[w].name # NoTag
  /\ \/ /\ Stored(Column(worker[w].job.rec, "tag", call[w].name))
        /\ GoesOn(w, TRUE)
     \/ /\ NotStored
        /\ GoesOn(w, FALSE)
  /\ TagPool!Done(w)
  /\ UNCHANGED <<bootVars, catalogVars, handlerVars, jobs>>

\* No tag applies, or the call or the lookup of the tag failed: the record keeps its tag.
SkipTag(w) ==
  /\ Serving /\ worker[w].pc = "tag"
  /\ call[w].pc = "answered" => call[w].name = NoTag
  /\ NotStored
  /\ GoesOn(w, FALSE)
  /\ TagPool!Done(w)
  /\ UNCHANGED <<bootVars, catalogVars, handlerVars, jobs>>

EndedUnchanged(w) == At("bump", worker[w].job, FALSE)

\* process after applyLiquidMetal has returned false.
Ended(w) == [worker[w] EXCEPT !.pc = "bump"]

\* applyLiquidMetal stores the verdict, also the one for no tag.
StoreMetal(w) ==
  /\ Serving /\ worker[w].pc = "metal" /\ asked[w].pc = "answered"
  /\ LET index == StatusIndex(StatusForTag(asked[w].name)) IN
       \/ /\ Stored(Column(worker[w].job.rec, "metal", index))
          /\ WorkerGoes(w, At("bump", worker[w].job, TRUE))
       \/ /\ NotStored
          /\ WorkerGoes(w, Ended(w))
  /\ Metal!Done(w)
  /\ UNCHANGED <<bootVars, catalogVars, handlerVars, jobs, poolVars>>

SkipMetal(w) ==
  /\ Serving /\ worker[w].pc = "metal" /\ asked[w].pc = "failed"
  /\ NotStored
  /\ WorkerGoes(w, Ended(w))
  /\ Metal!Done(w)
  /\ UNCHANGED <<bootVars, catalogVars, handlerVars, jobs, poolVars>>

\* One bump for both columns, under the context of the workers.
Finish(w) ==
  /\ Serving /\ worker[w].pc = "bump"
  /\ IF worker[w].updated THEN Bump ELSE UNCHANGED sync
  /\ WorkerGoes(w, NoJob)
  /\ UNCHANGED <<bootVars, catalogVars, record, handlerVars, jobs, poolVars, asked>>
-----------------------------------------------------------------------------
WorkerStep(w) ==
  \/ Receive(w)
  \/ AskTag(w)
  \/ StoreTag(w)
  \/ SkipTag(w)
  \/ AskMetal(w)
  \/ StoreMetal(w)
  \/ SkipMetal(w)
  \/ Finish(w)

RequestStep(r) ==
  \/ Create(r)
  \/ Enqueue(r)
  \/ Delete(r)
  \/ Edit(r)
  \/ View(r)
  \/ RequestBump(r)

StartUp == SeedDefault \/ SeedCatalog \/ Load \/ BackfillRecords

Next ==
  \/ StartUp
  \/ Stop \/ Start
  \/ \E r \in Records : RequestStep(r)
  \/ \E w \in Workers : WorkerStep(w)

Spec == Init /\ [][Next]_vars
-----------------------------------------------------------------------------
TypeOK ==
  /\ mode \in Modes /\ boots \in Nat
  /\ tags \subseteq Titles \cup {Default} /\ loaded \subseteq Titles \cup {Default}
  /\ record \in [Records -> Rows \cup {Absent, Deleted}]
  /\ requests \in Nat
  /\ handler \in [Records -> {"idle", "enqueue", "view", "bump"}]
  /\ jobs \in Seq(Jobs) /\ Len(jobs) <= QueueSize
  /\ worker \in [Workers -> WorkerStates]
  /\ sync \in {"current", "ahead", "unannounced"}

(***************************************************************************)
(* No slot of the pool is lost or shared, and because there are as many *)
(* workers as slots (run.go:174) a worker that has to be served finds an   *)
(* idle session: TAGGER_TIMEOUT is spent on the provider, not on waiting.  *)
(***************************************************************************)
WorkersNeverWait ==
  /\ TagPool!SlotsConserved
  /\ \A w \in Workers : call[w].pc = "waiting" => idle # <<>>

(***************************************************************************)
(* Sessions live for many records: whatever fails, times out or is cut,    *)
(* an idle session has only whole turns and is below its limit, and the    *)
(* question put to the provider ends with the text of this record          *)
(* (session.go:79-126, pool.go:93-99).                                     *)
(***************************************************************************)
SessionsWhole == TagPool!SessionsWhole

(***************************************************************************)
(* While requests are served every record has a tag that is a row of       *)
(* clinic_record_tag and known in memory, through any sequence of builds   *)
(* that add and remove tags, crashes during start-up, and answers that     *)
(* arrive late (record_tagger_catalog.go:17-68, run.go:126-137).           *)
(***************************************************************************)
TagsResolve ==
  Serving => \A r \in Records : Exists(r) => record[r].tag \in tags \cap loaded

(***************************************************************************)
(* Clients fetch the records again when the counter differs from the value *)
(* they keep.  A change since the last bump is on its way to them: the     *)
(* handler or worker that made it still has its bump to make.  The         *)
(* exceptions are changes whose bump failed, died with the process or was  *)
(* never to be made (sync_middleware.go:24-38, record_tagger.go:177-187).  *)
(***************************************************************************)
ChangesAnnounced == sync = "ahead" => Owed
=============================================================================
