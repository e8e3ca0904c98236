------------------------------ MODULE Uploads ------------------------------
(***************************************************************************)
(* Publishing the video of one run.  The run's own upload step, the upload *)
(* records users review, the scheduled rows a ticker fires, the upload     *)
(* worker and the consumer of its results all change the same three        *)
(* tables, and mostly not in one transaction:                              *)
(*                                                                         *)
(*   - a result is applied in three transactions (run step, upload record, *)
(*     scheduled row), the second of which reads its record without a lock;*)
(*   - a worker acknowledges an upload after it has answered; an entry idle *)
(*     for a minute is claimed by another worker, whether its own is dead  *)
(*     or only slow;                                                       *)
(*   - the caption LLM's text is copied to the records in a transaction    *)
(*     after the one that records the caption, again without a lock;       *)
(*   - a tick commits rows as in flight and publishes them afterwards;     *)
(*   - scheduling checks the account's limit, then inserts.                *)
(*                                                                         *)
(* A scene fixes the account, the run and what users and failures may do,  *)
(* so that one run of the checker explores a union of small instances.     *)
(***************************************************************************)
EXTENDS RunAggregate, UploadRecord, RateLimit, SequencesExt

CONSTANTS
  Scenes,     \* the instances explored
  MaxRows,    \* bound: scheduled rows
  Horizon,    \* bound: the latest time of a row
  ApiCap      \* apiDailyUploadCap; the horizon lies within its 24 hours

UserAct == {"edit", "approve", "reject", "promote", "regenerate", "cancel",
            "schedule", "reschedule", "unschedule"}
Method == {"auto", "api", "selenium"}

\* at, status, external reference; fired: the number of the tick that fired it;
\* method: params.upload_method of the schedule's metadata.
Row ==
  [at : Nat, method : Method, status : ScheduleStatus, fired : Nat, ref : Job]
NewRow(t, method) ==
  [at |-> t, method |-> method, status |-> "pending", fired |-> 0, ref |-> NoJob]

\*   run, recs, rows  what is in the database at the start
\*   youtube, api, selenium  the account: its platform and its ways to upload
\*   visibility       the one upload requests ask for; "none" where the worker names none
\*   edits            the metadata users may write
\*   limit            the account's limit
\*   methods          what users may schedule
\*   users, commands  what users do, and how often (bound)
\*   captions         how often caption answers are delivered (bound)
\*   failures         crashes, failed transactions and publications (bound)
\*   claims           how often an entry is claimed from a live worker (bound); 0 with
\*                    a single worker process, which claims only when it is idle
\*   horizon          the time of the last tick (bound)
Scene ==
  [run : Run, recs : Seq(Record), rows : Seq(Row),
   youtube : BOOLEAN, api : BOOLEAN, selenium : BOOLEAN,
   visibility : Visibility, edits : SUBSET Metadata,
   limit : Limit, methods : SUBSET Method, users : SUBSET UserAct,
   commands : Nat, captions : Nat, failures : Nat, claims : Nat, horizon : Nat]

LiveRows(rs) == {k \in DOMAIN rs : rs[k].status \notin {"cancelled", "failed"}}
LiveWithin(rs, t, w) == {k \in LiveRows(rs) : t <= rs[k].at /\ rs[k].at <= t + w}

\* Rows keep a limit: no window holds more live rows than it allows, plus the extra ones;
\* and where there are none of those, no two rows are too close.  The check looks no further
\* than the window, so a gap longer than it is kept within the window only.
KeepLimit(rs, limit, extra) ==
  limit.n > 0 =>
    /\ \A t \in 0..Horizon : Cardinality(LiveWithin(rs, t, limit.w)) <= limit.n + extra
    /\ extra = 0 => \A k, l \in LiveRows(rs) :
         k # l /\ Distance(rs[k].at, rs[l].at) <= limit.w
           => Distance(rs[k].at, rs[l].at) >= limit.gap

\* A scene starts before anything is fired or posted, within the account's limit; what
\* users write is theirs.
ASSUME ScenesAssumption ==
  /\ Scenes \subseteq Scene
  /\ \A c \in Scenes :
       /\ \A i \in DOMAIN c.recs : c.recs[i].status \notin Done
       /\ \A meta \in c.edits : meta.text = "user"
       /\ \A k \in DOMAIN c.rows : c.rows[k].status \notin {"in_flight", "completed"}
       /\ KeepLimit(c.rows, c.limit, 0)
ASSUME BoundsAssumption == MaxRows \in Nat /\ Horizon \in Nat /\ ApiCap \in Nat
\* The run publishes: it has one caption step and one upload step, its last.
ASSUME TemplateHasUpload == HasStep("caption") /\ HasStep("upload")

Stream == {"completed", "failed"}  \* pipeline.upload.completed and .failed

VARIABLES
  scene,      \* the instance; never changes
  run,        \* the run
  recs,       \* the run's upload records in the order of created_at
  rows,       \* the account's scheduled uploads
  now,        \* the time of the last tick
  ticks,      \* how many ticks have found something
  asking,     \* schedule requests that passed the limit check and have yet to write
  firing,     \* rows a tick has committed and has yet to publish
  jobs,       \* upload requests no worker has finished and acknowledged
  again,      \* further handlers of requests that were claimed from a live worker
  answers,    \* results not yet consumed, per stream
  result,     \* the result each stream's consumer is applying, and how far it is
  backfill,   \* the caption consumer's second transaction
  posted,     \* the outside world: jobs whose video was posted,
  reposts,    \* and how many times one was that already had been
  edited,     \* history: the records users edited
  clobbered,  \* history: has a save overwritten a record changed since it was read?
  raced,      \* history: schedule requests that wrote after the slots had changed
  commands, captions, failures, claims  \* counters of the bounds

database == <<run, recs, rows>>
consumers == <<answers, result, backfill>>
ticker == <<now, ticks, firing>>
worked == <<again, posted, reposts>>
outside == <<jobs, worked>>
history == <<edited, clobbered, raced>>
counters == <<commands, captions, failures, claims>>
vars == <<scene, database, ticker, asking, consumers, outside, history, counters>>

Idle == [stage |-> "idle", job |-> NoJob, index |-> 0,
         copy |-> NewUploadRecord(0, "platform", NoMetadata)]
Result == [stage : {"idle", "read", "save", "settle"}, job : Job, index : Nat, copy : Record]
NoBackfill == [stage |-> "idle", kids |-> FALSE, recs |-> <<>>]
Backfill == [stage : {"idle", "read", "save"}, kids : BOOLEAN, recs : Seq(Record)]
\* The n-th claim gave job to a further handler.
Again == [job : Job, n : Nat]
\* row 0 asks for a new row.  seen: the other slots of the window, when checked.
Ask == [row : Nat, at : Nat, method : Method, seen : SUBSET Slot]

CaptionStep == FirstOf("caption")
UploadStep == FirstOf("upload")
UploadRequest(v) == [step |-> UploadStep, version |-> v, panel |-> 0]

\* The run's own upload requests among the requests r has sent.
OwnJobs(r) == {OwnJob(q.version) : q \in {p \in r.sent : p.step = UploadStep}}

\* The run becomes r; what it newly requests reaches the upload worker.
RunBecomes(r) ==
  /\ run' = r
  /\ jobs' = jobs \cup (OwnJobs(r) \ OwnJobs(run))

Init ==
  /\ scene \in Scenes
  /\ run = scene.run /\ recs = scene.recs /\ rows = scene.rows
  /\ now = 0 /\ ticks = 0 /\ firing = <<>>
  /\ asking = {}
  /\ answers = [s \in Stream |-> <<>>]
  /\ result = [s \in Stream |-> Idle]
  /\ backfill = NoBackfill
  /\ jobs = OwnJobs(scene.run) /\ again = {} /\ posted = {} /\ reposts = 0
  /\ edited = {} /\ clobbered = FALSE /\ raced = 0
  /\ commands = 0 /\ captions = 0 /\ failures = 0 /\ claims = 0

-----------------------------------------------------------------------------
(* The upload workers *)

Unchanged4Worker == UNCHANGED <<scene, database, ticker, asking, result, backfill, history>>

Posts(j) ==
  /\ posted' = posted \cup {j}
  /\ reposts' = IF j \in posted THEN reposts + 1 ELSE reposts

Publish(s, j) == answers' = [answers EXCEPT ![s] = Append(@, j)]

\* What a handler of j does, up to its answer.
Upload(j) == Posts(j) /\ Publish("completed", j)

\* The upload raises, before the video is out or after it (the browser may lose its
\* way on the last page).
UploadFails(j) ==
  /\ Posts(j) \/ UNCHANGED <<posted, reposts>>
  /\ Publish("failed", j)

\* The worker has heard that the run was cancelled: it answers nothing.
SkipCancelled(j) ==
  /\ run.status = "cancelled"
  /\ UNCHANGED <<posted, reposts, answers>>

Handles(j) == Upload(j) \/ UploadFails(j) \/ SkipCancelled(j)

\* The first handler of j to finish acknowledges it.
Works(j) ==
  /\ Handles(j)
  /\ jobs' = jobs \ {j}
  /\ Unchanged4Worker /\ UNCHANGED <<again, counters>>

\* Any other handler of the same entry goes on all the same: nothing tells it.
WorksAgain(w) ==
  /\ w.job \notin jobs
  /\ Handles(w.job)
  /\ again' = again \ {w}
  /\ Unchanged4Worker /\ UNCHANGED <<jobs, counters>>

\* An entry not acknowledged within the minute is handed to one more handler, be it that
\* its own is at work on it, or on the entries read with it.
Claim(j) ==
  /\ claims < scene.claims
  /\ claims' = claims + 1
  /\ again' = again \cup {[job |-> j, n |-> claims + 1]}
  /\ Unchanged4Worker
  /\ UNCHANGED <<jobs, posted, reposts, answers, commands, captions, failures>>

Fails ==
  /\ failures < scene.failures
  /\ failures' = failures + 1
  /\ UNCHANGED <<commands, captions, claims>>

\* A worker dies before it acknowledges the request, which is then claimed: with the
\* video out or not, its result published or not.
WorkerDies(j) ==
  /\ Fails
  /\ Upload(j) \/ UploadFails(j) \/ (Posts(j) /\ UNCHANGED answers)
  /\ Unchanged4Worker /\ UNCHANGED <<jobs, again>>

\* One of several handlers dies: another goes on with the request, or has done it.
WorkerDiesAgain(w) ==
  /\ Fails
  /\ Posts(w.job) \/ UNCHANGED <<posted, reposts>>
  /\ again' = again \ {w}
  /\ Unchanged4Worker /\ UNCHANGED <<jobs, answers>>

-----------------------------------------------------------------------------
(* The consumer of results: three transactions, each of which may fail alone *)

\* RecordUploadCompleted, for a result of the run's own step; a scheduled upload
\* carries step index 99, which is an error here.
StepCompleted(j) ==
  LET q == UploadRequest(j.version)
      r == Close(run, q, 0, 0)
  IN  IF j.row = 0 /\ Open(run, q) /\ CanAdvance(r, UploadStep)
      THEN RunBecomes(Advance(r, UploadStep))
      ELSE UNCHANGED <<run, jobs>>

\* RecordStepFailed, likewise.
StepFailed(j) ==
  IF j.row = 0 /\ run.status = "running"
  THEN RunBecomes(Fail(run, UploadStep))
  ELSE UNCHANGED <<run, jobs>>

\* The first transaction.  An error is only logged.
ApplyToStep(s) ==
  /\ result[s].stage = "idle" /\ answers[s] # <<>>
  /\ LET j == Head(answers[s])
     IN  /\ IF s = "completed" THEN StepCompleted(j) ELSE StepFailed(j)
         /\ result' = [result EXCEPT ![s] = [Idle EXCEPT !.stage = "read", !.job = j]]
  /\ answers' = [answers EXCEPT ![s] = Tail(@)]
  /\ UNCHANGED <<scene, recs, rows, ticker, asking, backfill, worked,
                 history, counters>>

\* Mutant: the oldest pending record is taken.
FirstPending(rs) ==
  LET pending == {i \in DOMAIN rs : rs[i].status = "pending"}
  IN  IF pending # {} THEN Min(pending) ELSE Len(rs)

\* The newest pending record of the run, or its newest record.
RecordForResult(rs) ==
  LET pending == {i \in DOMAIN rs : rs[i].status = "pending"}
  IN  IF pending # {} THEN Max(pending) ELSE Len(rs)

\* The second transaction finds its record without locking it...
ReadRecord(s) ==
  /\ result[s].stage = "read"
  /\ result' = [result EXCEPT ![s] =
       IF recs = <<>> THEN [@ EXCEPT !.stage = "settle"]
       ELSE [@ EXCEPT !.stage = "save", !.index = RecordForResult(recs),
                      !.copy = recs[RecordForResult(recs)]]]
  /\ UNCHANGED <<scene, database, ticker, asking, answers, backfill, outside,
                 history, counters>>

\* Mutant: a failed result marks its record uploaded.
MarkedUploaded(s) == MarkUploaded(result[s].copy, result[s].job, scene.visibility)

Marked(s) ==
  IF s = "completed" THEN MarkUploaded(result[s].copy, result[s].job, scene.visibility)
  ELSE MarkFailed(result[s].copy)

\* ...and saves all of its columns.
SaveRecord(s) ==
  /\ result[s].stage = "save"
  /\ recs' = [recs EXCEPT ![result[s].index] = Marked(s)]
  /\ clobbered' = (clobbered \/ recs[result[s].index] # result[s].copy)
  /\ result' = [result EXCEPT ![s].stage = "settle"]
  /\ UNCHANGED <<scene, run, rows, ticker, asking, answers, backfill, outside,
                 edited, raced, counters>>

InFlight == {k \in DOMAIN rows : rows[k].status = "in_flight"}

\* FindByRunPending: the row in flight that was fired last.  Rows of one tick have
\* the same fired_at.
LastFired == {k \in InFlight : \A l \in InFlight : rows[l].fired <= rows[k].fired}

\* Mutant: a row is given a record's status.
SettledAsRecord(s, row) == [row EXCEPT !.status = "uploaded"]

Settled(s, row) ==
  IF s = "completed" THEN [row EXCEPT !.status = "completed", !.ref = result[s].job]
  ELSE [row EXCEPT !.status = "failed"]

\* The third transaction.
Settle(s) ==
  /\ result[s].stage = "settle"
  /\ IF InFlight = {} THEN UNCHANGED rows
     ELSE \E k \in LastFired : rows' = [rows EXCEPT ![k] = Settled(s, @)]
  /\ result' = [result EXCEPT ![s] = Idle]
  /\ UNCHANGED <<scene, run, recs, ticker, asking, answers, backfill, outside,
                 history, counters>>

Consume(s) == ApplyToStep(s) \/ ReadRecord(s) \/ SaveRecord(s) \/ Settle(s)

\* A transaction of the three fails, and the handler goes on to the next.
TransactionFails(s) ==
  /\ Fails
  /\ \/ /\ result[s].stage = "idle" /\ answers[s] # <<>>
        /\ result' = [result EXCEPT ![s] =
             [Idle EXCEPT !.stage = "read", !.job = Head(answers[s])]]
        /\ answers' = [answers EXCEPT ![s] = Tail(@)]
     \/ /\ result[s].stage = "save"
        /\ result' = [result EXCEPT ![s].stage = "settle"]
        /\ UNCHANGED answers
     \/ /\ result[s].stage = "settle"
        /\ result' = [result EXCEPT ![s] = Idle]
        /\ UNCHANGED answers
  /\ UNCHANGED <<scene, database, ticker, asking, backfill, outside, history>>

-----------------------------------------------------------------------------
(* The consumer of captions: the run's step, then the text of every record *)

\* An answer to the caption request q; withText: it carries a text and an opinion about
\* kids.  A redelivered answer to a completed attempt is no error, and goes on to the
\* records.
CaptionCompleted(q, withText, kids) ==
  /\ captions < scene.captions
  /\ backfill.stage = "idle"
  /\ q.step = CaptionStep
  /\ \/ /\ Open(run, q)
        /\ CanAdvance(Close(run, q, 0, 0), CaptionStep)
        /\ RunBecomes(Advance(Close(run, q, 0, 0), CaptionStep))
     \/ /\ run.status = "running" /\ run.att[CaptionStep].status = "completed"
        /\ UNCHANGED <<run, jobs>>
  /\ backfill' = IF withText THEN [NoBackfill EXCEPT !.stage = "read", !.kids = kids]
                  ELSE NoBackfill
  /\ captions' = captions + 1
  /\ UNCHANGED <<scene, recs, rows, ticker, asking, answers, result, worked,
                 history, commands, failures, claims>>

BackfillRead ==
  /\ backfill.stage = "read"
  /\ backfill' = [backfill EXCEPT !.stage = "save", !.recs = recs]
  /\ UNCHANGED <<scene, database, ticker, asking, answers, result, outside, history, counters>>

\* The project's review mode, found through the first record that has a project:
\* the one CreateRun made.
RequireReview(rs) == run.opts.review /\ \E i \in DOMAIN rs : rs[i].row = 0

BackfillSave ==
  /\ backfill.stage = "save"
  /\ recs' = [i \in DOMAIN recs |->
       IF i \in DOMAIN backfill.recs
       THEN ApplyLLMMetadata(backfill.recs[i], backfill.kids, RequireReview(backfill.recs))
       ELSE recs[i]]
  /\ clobbered' = (clobbered \/ \E i \in DOMAIN backfill.recs : recs[i] # backfill.recs[i])
  /\ backfill' = NoBackfill
  /\ UNCHANGED <<scene, run, rows, ticker, asking, answers, result, outside,
                 edited, raced, counters>>

-----------------------------------------------------------------------------
(* The ticker *)

Locked(k) == \E a \in asking : a.row = k

\* ListPendingDue, FOR UPDATE SKIP LOCKED.  Its limit of 50 rows is not reached.
Due(t) ==
  {k \in DOMAIN rows : rows[k].status = "pending" /\ rows[k].at <= t /\ ~Locked(k)}

\* The orders a tick may find them in: "ORDER BY scheduled_at" says nothing of rows of
\* the same time.
DueOrders(t) ==
  {s \in [1..Cardinality(Due(t)) -> Due(t)] :
     \A i, j \in DOMAIN s : i < j => s[i] # s[j] /\ rows[s[i]].at <= rows[s[j]].at}

\* CountByAccountProviderSince.
ApiUsed(rs) ==
  Cardinality({i \in DOMAIN rs :
    rs[i].provider = "youtube_api" /\ rs[i].status \notin {"failed", "rejected"}})

\* Mutant: the quota is looked up once per tick, before its rows are fired.
PickProviderOnce(row, rs) ==
  IF scene.api /\ ApiUsed(recs) < ApiCap THEN "youtube_api" ELSE "youtube_selenium"

\* The effective provider, or "error".  Without a forced method the API goes first
\* while its quota lasts, then Selenium, then the API in spite of the quota.
PickProvider(row, rs) ==
  CASE ~scene.youtube -> "platform"
    [] scene.youtube /\ row.method = "selenium" ->
         IF scene.selenium THEN "youtube_selenium" ELSE "error"
    [] scene.youtube /\ row.method = "api" ->
         IF scene.api THEN "youtube_api" ELSE "error"
    [] OTHER ->
         CASE scene.api /\ (ApiUsed(rs) < ApiCap \/ ~scene.selenium) -> "youtube_api"
           [] scene.selenium /\ ~(scene.api /\ ApiUsed(rs) < ApiCap) -> "youtube_selenium"
           [] OTHER -> "error"

\* One row of a tick: its record is made, unless no provider will do.  (Schedules give no
\* title and no visibility here.)  The step goes from the tables so far, b, to the next.
FireRow(b, k) ==
  LET provider == PickProvider(b.rows[k], b.recs)
  IN  IF provider = "error"
      THEN [b EXCEPT !.rows[k].status = "failed", !.rows[k].fired = ticks + 1]
      ELSE [rows   |-> [b.rows EXCEPT ![k].status = "in_flight", ![k].fired = ticks + 1],
            recs   |-> Append(b.recs, NewUploadRecord(k, provider, NoMetadata)),
            firing |-> Append(b.firing, k)]

\* The tables after a tick's transaction has gone through the rows of order.
FireRows(order) ==
  LET tables[n \in 0..Len(order)] ==
        IF n = 0 THEN [rows |-> rows, recs |-> recs, firing |-> <<>>]
        ELSE FireRow(tables[n - 1], order[n])
  IN  tables[Len(order)]

\* A tick at time t, of which there is one at a time: its transaction.  A tick that
\* finds nothing changes nothing and is left out.
Tick(t) ==
  /\ firing = <<>>
  /\ Due(t) # {} /\ t <= scene.horizon
  /\ now' = t
  /\ ticks' = ticks + 1
  /\ \E order \in DueOrders(t) :
       LET b == FireRows(order)
       IN  rows' = b.rows /\ recs' = b.recs /\ firing' = b.firing
  /\ UNCHANGED <<scene, run, asking, consumers, outside, history, counters>>

\* Mutant: only the first of the rows is published.
FireFirst ==
  /\ firing # <<>>
  /\ jobs' = jobs \cup {RowJob(Head(firing))}
  /\ firing' = <<>>
  /\ UNCHANGED <<scene, database, now, ticks, asking, consumers, worked,
                 history, counters>>

\* Publishing the rows it committed, one by one.
Fire ==
  /\ firing # <<>>
  /\ jobs' = jobs \cup {RowJob(Head(firing))}
  /\ firing' = Tail(firing)
  /\ UNCHANGED <<scene, database, now, ticks, asking, consumers, worked,
                 history, counters>>

\* "If publish fails, the row stays in_flight".
FireFails ==
  /\ firing # <<>>
  /\ Fails
  /\ firing' = Tail(firing)
  /\ UNCHANGED <<scene, database, now, ticks, asking, consumers, outside, history>>

\* The API process dies: the handlers, the tick and the requests under way with it.  A
\* result that was being applied is not delivered again.
Crash ==
  /\ Fails
  /\ firing' = <<>> /\ asking' = {}
  /\ result' = [s \in Stream |-> Idle] /\ backfill' = NoBackfill
  /\ UNCHANGED <<scene, database, now, ticks, answers, outside, history>>

-----------------------------------------------------------------------------
(* Users *)

Commanded(act) ==
  /\ act \in scene.users
  /\ commands < scene.commands
  /\ commands' = commands + 1
  /\ UNCHANGED <<captions, failures, claims>>

\* Commands on one record lock it.
RecordCommand(act, i, r) ==
  /\ Commanded(act)
  /\ recs' = [recs EXCEPT ![i] = r]
  /\ UNCHANGED <<scene, rows, ticker, asking, consumers, worked, clobbered, raced>>

EditUploadMetadata(i, meta) ==
  /\ RecordCommand("edit", i, OverrideMetadata(recs[i], meta))
  /\ edited' = edited \cup {i}
  /\ UNCHANGED <<run, jobs>>

\* ResumeFromReview's condition, and that no record awaits review any more.
MayResume(rs) ==
  /\ run.status = "awaiting_action" /\ run.opts.review
  /\ \A i \in DOMAIN rs : rs[i].status \notin AwaitingReview
  /\ CanRequest(run, UploadStep)

\* Approving resumes the run even where it changes nothing about the record.
ApproveUploadRecord(i) ==
  LET rs == [recs EXCEPT ![i] = Approve(@)]
  IN  /\ RecordCommand("approve", i, Approve(recs[i]))
      /\ IF MayResume(rs) THEN RunBecomes(RequestPlain(Resume(run), UploadStep))
         ELSE UNCHANGED <<run, jobs>>
      /\ UNCHANGED edited

RejectUploadRecord(i) ==
  /\ RecordCommand("reject", i, Reject(recs[i]))
  /\ UNCHANGED <<run, jobs, edited>>

PromoteUploadToPublished(i) ==
  /\ RecordCommand("promote", i, PromoteToPublished(recs[i]))
  /\ UNCHANGED <<run, jobs, edited>>

\* RegenerateStep of the upload step: one more upload of the run's own.
RegenerateUpload ==
  /\ Commanded("regenerate")
  /\ run.status # "cancelled" /\ CanRequest(run, UploadStep)
  /\ RunBecomes(RequestPlain(Resume(run), UploadStep))
  /\ UNCHANGED <<scene, recs, rows, ticker, asking, consumers, worked, history>>

CancelRun ==
  /\ Commanded("cancel")
  /\ run.status \in {"running", "awaiting_action"}
  /\ RunBecomes(Finish(run, "cancelled"))
  /\ UNCHANGED <<scene, recs, rows, ticker, asking, consumers, worked, history>>

\* ListSlotsInWindow over all rows of the account, whatever their status.
SlotsInWindow(t) ==
  {[id |-> k, at |-> rows[k].at, status |-> rows[k].status] :
     k \in {l \in DOMAIN rows : Distance(rows[l].at, t) <= scene.limit.w}}

\* Rescheduling leaves out its own slot, found by time and status: and any other
\* slot that shares them.
OtherSlots(k, t) ==
  {s \in SlotsInWindow(t) : ~(s.at = rows[k].at /\ s.status = rows[k].status)}

\* The check.  A refused request changes nothing.
Asks(act, a) ==
  /\ Commanded(act)
  /\ CanSchedule(a.at, a.seen, scene.limit)
  /\ asking' = asking \cup {a}
  /\ UNCHANGED <<scene, database, ticker, consumers, outside, history>>

AskSchedule(t, method) ==
  /\ method \in scene.methods
  /\ Len(rows) + Cardinality({a \in asking : a.row = 0}) < MaxRows
  /\ Asks("schedule", [row |-> 0, at |-> t, method |-> method, seen |-> SlotsInWindow(t)])

\* The row is locked from here to the write.
AskReschedule(k, t) ==
  /\ rows[k].status = "pending" /\ ~Locked(k)
  /\ Asks("reschedule", [row |-> k, at |-> t, method |-> rows[k].method, seen |-> OtherSlots(k, t)])

\* The write.  Nothing keeps other requests from writing in between.
Write(a) ==
  /\ asking' = asking \ {a}
  /\ UNCHANGED <<scene, run, recs, ticker, consumers, outside, edited, clobbered, counters>>

WriteSchedule(a) ==
  /\ a.row = 0
  /\ rows' = Append(rows, NewRow(a.at, a.method))
  /\ raced' = IF a.seen = SlotsInWindow(a.at) THEN raced ELSE raced + 1
  /\ Write(a)

WriteReschedule(a) ==
  /\ a.row # 0
  /\ rows' = [rows EXCEPT ![a.row].at = a.at]
  /\ raced' = IF a.seen = OtherSlots(a.row, a.at) THEN raced ELSE raced + 1
  /\ Write(a)

CancelScheduledUpload(k) ==
  /\ Commanded("unschedule")
  /\ rows[k].status \notin {"completed", "cancelled"} /\ ~Locked(k)
  /\ rows' = [rows EXCEPT ![k].status = "cancelled"]
  /\ UNCHANGED <<scene, run, recs, ticker, asking, consumers, outside, history>>

-----------------------------------------------------------------------------
Worker ==
  \/ \E j \in jobs : Works(j) \/ Claim(j) \/ WorkerDies(j)
  \/ \E w \in again : WorksAgain(w) \/ WorkerDiesAgain(w)

Consumer ==
  \/ \E s \in Stream : Consume(s) \/ TransactionFails(s)
  \/ \E q \in run.sent, withText, kids \in BOOLEAN : CaptionCompleted(q, withText, kids)
  \/ BackfillRead \/ BackfillSave

Ticker == (\E t \in now..Horizon : Tick(t)) \/ Fire \/ FireFails

Reviewer == \E i \in DOMAIN recs :
  \/ \E meta \in scene.edits : EditUploadMetadata(i, meta)
  \/ ApproveUploadRecord(i)
  \/ RejectUploadRecord(i) \/ PromoteUploadToPublished(i)

Scheduling ==
  \/ \E t \in 0..Horizon :
       \/ \E method \in Method : AskSchedule(t, method)
       \/ \E k \in DOMAIN rows : AskReschedule(k, t)
  \/ \E a \in asking : WriteSchedule(a) \/ WriteReschedule(a)
  \/ \E k \in DOMAIN rows : CancelScheduledUpload(k)

Next ==
  Worker \/ Consumer \/ Ticker \/ Reviewer \/ Scheduling \/ RegenerateUpload \/ CancelRun \/ Crash

Spec == Init /\ [][Next]_vars

\* The ticker, the worker and the consumers are loops that never end, and a request that
\* was checked goes on to write; users owe nothing.  As every piece of work is done once,
\* it is enough that something is done while anything is left to do.
System ==
  \/ \E j \in jobs : Works(j)
  \/ \E w \in again : WorksAgain(w)
  \/ \E s \in Stream : Consume(s)
  \/ (\E t \in now..Horizon : Tick(t)) \/ Fire
  \/ \E a \in asking : WriteSchedule(a) \/ WriteReschedule(a)

FairSpec == Spec /\ WF_vars(System)

-----------------------------------------------------------------------------
(* Properties *)

\* Every variable has its type.
TypeOK ==
  /\ scene \in Scenes
  /\ run \in Run /\ recs \in Seq(Record) /\ rows \in Seq(Row)
  /\ now \in Nat /\ ticks \in Nat /\ firing \in Seq(Nat)
  /\ asking \subseteq Ask
  /\ answers \in [Stream -> Seq(Job)]
  /\ result \in [Stream -> Result] /\ backfill \in Backfill
  /\ jobs \subseteq Job /\ again \subseteq Again /\ posted \subseteq Job /\ reposts \in Nat
  /\ edited \subseteq DOMAIN recs
  /\ clobbered \in BOOLEAN /\ raced \in Nat
  /\ commands \in Nat /\ captions \in Nat /\ failures \in Nat /\ claims \in Nat

\* What the studio calls uploaded, published or completed was posted: by the job whose
\* reference it carries, although neither records nor rows are found by job.  And each
\* further copy of a video takes a failure, or a claim of an entry from a live worker: the
\* handlers of a claimed entry know nothing of each other, and one may post long after
\* another has acknowledged.  (redis_bus.py speaks of entries "of dead consumers" and
\* upload.py of a lock per account: no lock is taken, and the living lose entries too.)
SuccessWasPosted ==
  /\ \A i \in DOMAIN recs : recs[i].status \in Done => recs[i].ref \in posted
  /\ \A k \in DOMAIN rows : rows[k].status = "completed" => rows[k].ref \in posted
  /\ reposts <= failures + claims

\* Record i has the metadata m after a step.
Becomes(i, m) == recs'[i].metadata = m

\* What users decide stays, unless a save put back a record read before they did.  Of a
\* record they edited the text is theirs; without a further command a caption only ever
\* raises its made-for-kids flag, and a result only sets its visibility, to the one the
\* video was uploaded with.  (upload_record.go promises more: an edit "locks the row so
\* further LLM retries don't overwrite the manual edit".)  And a record they have decided about, or that was uploaded,
\* never asks for review again.
UsersWordIsFinal ==
  /\ [](~clobbered => \A i \in edited : recs[i].metadata.text = "user")
  /\ [][commands' = commands /\ ~clobbered' => \A i \in edited :
          \/ Becomes(i, recs[i].metadata)
          \/ Becomes(i, [recs[i].metadata EXCEPT !.kids = TRUE])
          \/ /\ recs'[i].status \in Done
             /\ Becomes(i, [recs[i].metadata EXCEPT !.visibility = scene.visibility])]_vars
  /\ [][\A i \in DOMAIN recs :
          recs[i].status \notin {"pending"} \cup AwaitingReview /\ ~clobbered'
            => recs'[i].status \notin AwaitingReview]_vars

\* However rows are added, moved, fired and cancelled, no window of the account's limit
\* holds more live rows than it allows plus one for each request that wrote after the
\* slots it had checked changed; and without such a request none in a window are too close.
WithinLimitButForRaces == KeepLimit(rows, scene.limit, raced)

JobsIn(s) == {n \in DOMAIN answers[s] : answers[s][n].row # 0}
Applying == {s \in Stream : result[s].stage # "idle" /\ result[s].job.row # 0}

\* No row is stranded: results settle whichever row was fired last, and yet there are
\* never more rows in flight than scheduled uploads still to be published, done or applied.
NoStrandedRow ==
  failures = 0 /\ run.status # "cancelled" =>
    Cardinality(InFlight) <=
      Len(firing) + Cardinality({j \in jobs : j.row # 0}) + Cardinality(Applying)
        + Cardinality(JobsIn("completed")) + Cardinality(JobsIn("failed"))

\* A tick makes no API upload past the daily quota if Selenium could do it instead,
\* however many rows it fires at once.
QuotaKept ==
  [][Len(recs') > Len(recs) /\ ApiUsed(recs') > ApiUsed(recs)
       /\ scene.selenium /\ (\A k \in DOMAIN rows : rows[k].method # "api")
       => ApiUsed(recs') <= ApiCap]_vars

\* When the only thing wrong with a time is that it is too close to another, the slot
\* offered instead passes the same check.
SuggestionPassesCheck ==
  \A t \in 0..Horizon :
    LET slots == SlotsInWindow(t)
        offer == SuggestNextFreeSlot(t, slots, scene.limit)
    IN  ~LimitExceeded(t, slots, scene.limit)
          => offer >= t /\ CanSchedule(offer, slots, scene.limit)

Waiting ==
  {k \in DOMAIN rows :
    rows[k].status \in {"pending", "in_flight"} /\ rows[k].at <= scene.horizon}

\* Every job there ever was.
Jobs == OwnJobs(run) \cup {RowJob(k) : k \in {l \in DOMAIN rows : rows[l].fired > 0}}

\* Every scheduled row is fired and settled, unless something failed or its run was
\* cancelled (then the worker answers nothing and the row stays in flight).  And with a
\* single job ever made, its result reaches the record made for it, unless something failed,
\* an older version of the record was put back, or a user rejected it.
UploadsSettle ==
  /\ Waiting # {} ~> Waiting = {} \/ failures > 0 \/ run.status = "cancelled"
  /\ (Cardinality(Jobs) = 1 /\ Jobs \subseteq posted)
       ~> \/ Cardinality(Jobs) > 1 \/ failures > 0 \/ clobbered
          \/ \A i \in DOMAIN recs :
               (\E j \in Jobs : j.row = recs[i].row)
                 => recs[i].status \in Done \cup {"failed", "rejected"}

-----------------------------------------------------------------------------
(* What the code says and does not do *)

\* scheduler.go, SuggestNextFreeSlot: "finds the earliest time >= notBefore where
\* CanSchedule would succeed against `existing`".
SuggestionIsFree ==
  \A t \in 0..Horizon :
    LET slots == SlotsInWindow(t)
    IN  CanSchedule(SuggestNextFreeSlot(t, slots, scene.limit), slots, scene.limit)
=============================================================================
