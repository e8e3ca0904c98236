# Formal models of the webcomics pipeline

The program turns a prompt into a published short video.  A *run* walks the
steps of a template (script, images, audio, music, assemble, caption, upload).
The Go API owns the run; Python workers and a Node renderer do the work and
answer over Redis Streams; users pause, regenerate, approve and cancel.  Around
the runs stand what they are made from (projects, accounts, templates, tracks),
what becomes of their videos (uploads, schedules, metrics) and who looks on.
This directory holds TLA+ models of that machinery, TLC configurations that
check them on small instances and TLAPS proofs of what must hold on all of them.

## Inventory

Paths are under `src/web-api/internal` unless they start with `src/`.

| component | state it keeps | operations | talks to |
|---|---|---|---|
| Run aggregate (`domain/pipeline/run.go`, `step.go`, `attempt.go`) | status, current step, cost, per step: version, stale flag, attempts with their slots | `Start`, `Record*Completed`, `RecordStepFailed`, `RegenerateStep`, `RequestAssemble`, `ResumeFromReview`, `Cancel`, `advance` | records events |
| Command handlers (`app/command/pipeline`) | none | one transaction each: `GetByID` (row lock), aggregate method, `Save`, `Outbox.Add` | aggregate, outbox |
| Outbox and relay (`infrastructure/persistence/outbox`) | `outbox` rows, `published_at` | `Add`, `drain` | Redis Streams |
| Completion consumer (`interfaces/consumer/raw.go`) | consumer group | one goroutine per stream; dispatch, then `XACK` whatever the handler returned | handlers |
| Python workers (`src/workers-py`) | pending entries, set of cancelled runs | `XAUTOCLAIM`, `XREADGROUP`, handle, answer, `XACK` | Redis, providers |
| Renderer (`src/renderer-node`) | pending entries, set of cancelled runs | `XREADGROUP`, assemble, answer, `XACK` | Redis |
| Upload records (`domain/pipeline/upload_record.go`) | status, metadata (text, made for kids, visibility) | apply LLM metadata, edit, approve, reject, uploaded, failed, promote | run's review gate |
| Upload scheduler (`domain/scheduler`, `platform/scheduler`) | `scheduled_uploads` rows | schedule, reschedule, cancel, tick, settle | workers, upload records |
| Metrics ticker (`platform/metricsticker`) | `last_fetched_at` of upload records | tick, fetch, record a result or a failure | YouTube, workers |
| Run persistence (`infrastructure/persistence/write`, `platform/uow`) | five tables of a run | `GetByID` (lock, load), `Save` (write back), delete with cascades | PostgreSQL |
| Run creation (`app/command/pipeline/create_run.go`, `domain/formats`) | none | merges request, format, project, account, links and template into steps | everything below |
| Projects, sheets, plots, accounts, links (`app/command/projects`) | rows with foreign keys | create, edit, delete, link, make default | - |
| Templates, saved formats (`app/command/pipeline`, `app/command/formats`) | rows | create, edit, hide, delete | - |
| Sign-in sessions and viewers (`interfaces/http/firefox_login.go`) | maps of sessions, viewers and ports; containers and profile directories outside | start, finish, cancel, inspect, stop, fail, restart | Docker, accounts |
| Audio library (`app/command/audiolib`) | rows and objects | upload, import, edit, delete | object store |
| Query side (`infrastructure/persistence/read`, `interfaces/http/pipeline_routes.go`) | one view per open page | `GetRun`, the events stream | PostgreSQL |
| Users, other queries and routes, command bus, wiring, provider clients, Web UI | none of their own | single reads, dispatch, pure I/O | - |

What is hard in it:

* **Answers name no attempt.**  A completion payload holds run, step and panel.
  After a regeneration an answer for the old attempt still counts for the new
  one.  Only the version in the object key tells them apart, and only for an
  image slot that already holds the same key.
* **At-least-once everything.**  The relay republishes after a crash, workers
  claim entries of slow colleagues, so requests and answers repeat.
* **At-most-once where it hurts.**  The completion consumer acknowledges what
  it failed to handle, and neither it nor the renderer claims pending entries.
* **Commands at any time.**  A user may regenerate step 1 while step 3 is in
  flight; gates, stale flags and the cost cap all live in `advance`.
* **Several aggregates, one event.**  An upload's result changes a run, an
  upload record and a scheduled row in three transactions, each of which may
  fail alone, and finds the latter two by run, not by upload.
* **Two stores, no transaction between them.**  Rows and objects, sessions and
  containers, a committed tick and its publication.
* **Locks in part of the code only.**  Runs are loaded `FOR UPDATE`; upload
  records in the consumer, templates, schedule slots and defaults are not.
* **Rows committed before they are published** (scheduler), and slots read
  without a lock before they are reserved.

What makes each component correct: the run settles, charges once, completes
only with all its panels and honours its gates; the outbox loses nothing and
publishes what was committed; a worker's group hands every entry to somebody
until it is acknowledged; a record says uploaded only of a video that was, and
the text a user gave it stays; a scheduled upload fires at most once and respects
the account's limit; a due upload is measured in the end; a run is made as its user
asked; a track has its object; a sign-in leaves nothing behind that nobody answers
for.
`PROJECT.json` lists the hazards line by line.

## Modules

| module | models |
|---|---|
| `RunAggregate` | the aggregate's methods as operators from a run to a run |
| `PipelineRun` | one run, its workers and its users as a state machine: one action per handler |
| `MCPipelineRun` | constants for TLC |
| `RunAggregateProofs` | lemmas about the operators: types, and what each changes |
| `PipelineRunProofs` | theorems about `PipelineRun` |
| `UndisturbedRunProofs` | theorems about runs whose users only answer pauses |
| `EventLog` | what the outbox promises: committed events are delivered at least once, others never |
| `OutboxRelay` | units of work, the `outbox` table and any number of relays; implements `EventLog` |
| `MCOutboxRelay` | constants for TLC |
| `OutboxRelayProofs` | theorems about `OutboxRelay`, the refinement among them |
| `StreamGroup` | one stream and the consumer group that serves it, for each of the three programs that run one |
| `MCStreamGroup` | constants for TLC, the three programs |
| `StreamGroupProofs` | theorems about `StreamGroup` |
| `UploadRecord`, `RateLimit` | the upload record's methods and the limit's pure functions, as operators |
| `Uploads` | one run's own upload, its records, its account's schedule, the worker, the consumer, the ticker and the users; uses `RunAggregate`, `UploadRecord`, `RateLimit` |
| `MCUploads` | scenes for TLC |
| `UploadsProofs` | theorems about `Uploads` |
| `Identifiers` | the ids that components of the studio share |
| `RunSetup` | how `CreateRun` makes steps, as operators |
| `Catalogue` | projects, sheets, accounts, links, templates, formats |
| `AudioLibrary` | rows and objects of tracks |
| `FirefoxLogin` | sign-in sessions and viewers |
| `MetricsTicker` | the ticker, its worker and its records |
| `RunStore` | one run in the database, statement by statement, and the page that watches it |
| `Studio` | composes the seven above: who acts, what crosses components, crashes |
| `MCStudio` | scenes for TLC |
| `RunStoreProofs` | theorems about `RunStore` |
| `StudioProofs` | theorems about the sessions, the library, the catalogue, run creation and the composition |

The parts meet at their edges.  A handler of `PipelineRun` is a unit of work of
`OutboxRelay`; `stream` there is what `StreamGroup` reads by id; the work a group
does is an answer of `PipelineRun`.  `RunStore` is what lets a handler be one
action.  `Uploads` runs the aggregate of `PipelineRun` (the same operators, from
`RunAggregate`) beside the records; `Studio` makes the runs that `PipelineRun`
walks.

### RunAggregate

A run is a record with the Go struct's fields; each operator returns the run a
method leaves, and a `Can...` predicate holds where the method returns no error.
An error rolls back the transaction, so an action with a false guard is the
faithful model of it.

* `RequestStep` is `requestStep`: source lookup (`Sources`, `CanRequest`),
  panel seeding of a partial regeneration (`Seeded`), the new attempt with its
  recorded upstream versions, and the requests sent.
* `Advance` is `advance` with its tests in the code's order: cost cap, manual
  cascade gate, end of the template, assemble gate, review gate, next step.
* `Close` is `closeAttempt`; `Fill`, `PanelsDone`, `NextPanel` are the parts of
  `RecordImageCompleted`.
* `Open` is `openAttempt` with the "already completed" return that follows it.

Data is reduced to provenance.  Object keys contain the attempt's version, so a
slot holds a version and 0 stands for an empty key; two keys are equal exactly
when versions are, which is all `RecordImageCompleted` compares.  Costs are
natural numbers.  Prompts, captions, provider parameters and formats are left
out, except `panel_indices` and `style_reference`, which steer control.  The
index of a panel is its position in the script: the script worker renumbers
panels before it answers.

### PipelineRun

`run` is the row with its steps and attempts.  A handler holds the row's lock
for its whole transaction, so each handler is one action.  The four other
variables are history used by properties: answers whose cost was added, attempts
users asked for, those of them that `RegenerateStep` made, and whether any
command was *out of turn*, that is, not the answer to the run's own pause.

The environment is as hostile as delivery allows: any request ever recorded may
be answered at any time, any number of times, late, or never, with success or
failure.  That covers what the outbox, the streams, the workers and the consumer
do to a message, so the safety properties do not rest on how those work.

### OutboxRelay

`cmd` says what became of a unit of work; its rows are visible to other
transactions when it has committed (`Visible`).  `published` is `published_at`.
A drain is a transaction that holds row locks, so its state is the rows it has
locked: `todo`, still to publish, and `sent`, published and to be marked.

* `Select` is the query of `drain`: unpublished, unlocked, the first `Batch` in
  the order of `occurred_at`.  Rows with equal times may come in any order.
* `Publish`, `Commit` are the loop and the update; `PublishFails`,
  `CommitFails` and `Crash` the ways to leave it.  An error may hide that the
  broker has the entry, or that the database has committed.

`occurred_at` is set before the commit, so rows become visible in another order
than they are sorted in.  `stream` is what XADD received, of all topics
together; topics do not matter to the relay.

### StreamGroup

A group's state is what Redis keeps: the stream's `length`, the last delivered
id, the pending list and which of its entries have been idle for 60 s.  A
process is in the middle of a batch (`hand`, `mode`) or about to make its next
call (`next`, `cursor`).

The three programs share one loop and are constants of one record: `claims`
(Python workers), `acksErrors` (completion consumer), `batch`.  `Init` picks a
program for all processes.  `Malformed` entries have no JSON payload and are
acknowledged unhandled by all three; for the completion consumer, which leaves
parsing to its handlers, they are those without a payload.

* `Claim`, `Read` are `XAUTOCLAIM` and `XREADGROUP`; `ClaimLost`, `ReadLost` the
  same with the reply lost, after Redis has moved the entries.
* `Handle` is a handler that returns, whether it did the work, reported that it
  could not, or skipped a cancelled run; `HandleFails` one that raises, before or
  after its last call has published or committed.
* `AckFails` follows each program's error path (`AfterAckError`).
* `Age` lets 60 seconds pass for an entry, also while somebody works on it:
  nothing in the workers extends the time.
* `Crash` drops the batch.  The process comes back, under any name: names matter
  to nothing in the loop, because no program reads its own pending entries.

`XAUTOCLAIM` also stops after scanning a fixed number of entries; `NextCursor`
leaves that limit out and stops only at `COUNT` or at the end of the list.

### UploadRecord, RateLimit, Uploads

Records are told from each other by the order of `created_at`, scheduled rows by
their position; a job is what the worker is asked for, a version of the run's own
step or a row, and an `external_reference` is the job it came from.  That makes
visible what the code does not look at: results carry a run only.  Of a record's
metadata the origin of its text, the made-for-kids flag and the visibility are
kept: a caption writes the first only where the user has not locked it, may raise the
second always, and a result writes the third.

* A request is handled in one step up to its answer (`Handles`): posted, failed
  before or after the video was out, or skipped.  `Works` is the handler that
  finishes first and acknowledges.
* `Claim` hands an entry that was not acknowledged for a minute to one more handler
  (`again`), although its own is alive (`redis_bus.py:77-80`; the lock per account
  that `upload.py:8-9` promises does not exist).  `WorksAgain` finishes there after
  the acknowledgement, and may post and answer once more.
* `WorkerDies`, `WorkerDiesAgain` leave the request to others, the video out or
  not, the answer published or not.
* `ApplyToStep`, `ReadRecord`, `SaveRecord`, `Settle` are the three transactions
  of a result, the second one split because it reads its record without a lock
  and saves all columns; `TransactionFails` skips any of them, as the handler
  does after an error.  One such sequence per stream runs at a time.
* `CaptionCompleted`, `BackfillRead`, `BackfillSave` are the two transactions of
  a caption answer, the second again without a lock.
* `Tick` is a whole tick's transaction (`FireRows`: one row after the other in any
  of the `DueOrders`, which leave rows of one time in any order; `PickProvider`
  looks up the quota for each), `Fire`/`FireFails` the publications after it.
* `AskSchedule`, `AskReschedule` check the limit, `WriteSchedule` and
  `WriteReschedule` write.  A new row is checked unlocked; a moved one is locked
  (`Locked`), which ticks skip.
* `Crash` drops the handlers, the tick and the requests under way.

History variables record what properties need to be told apart: `posted`
and `reposts` (the outside world: what was posted, and how many copies more), `edited`, `clobbered` (a save put back an older
version), `raced` (a write after the slots it had checked changed).

### Studio and its components

**RunSetup.**  Settings are functions whose domain is what was stated: Go's zero
value is an absent field.  `Merged` is format, then project, each filling gaps;
`WithAccount`, `WithProvider` pick an account from the links; `applyOverrides`
adds and removes steps and hands out parameters (`Takes`); `a ++ b` is a map `a`
whose gaps `b` fills; `Enriched` puts the
upload's metadata in, `WithVideoDefaults` sizes the video.  Texts are names; the
twelve built-in formats are there with their numbers.

**Catalogue.**  An operation is one transaction and one action, with two
exceptions.  Linking an account is `BeginLink` (the insert or update and the
statement that clears other defaults, which sees committed rows only) and
`CommitLink`; the guards are the row locks that make others wait.  Editing a
template is `ReadTemplate` and `SaveTemplate`, because nothing locks.

**AudioLibrary.**  Sending the object, the row's transaction, the best-effort
removal and an import's second transaction are steps of a call; each may fail,
and a commit may reach the database and not the handler (`unacked`).

**FirefoxLogin.**  The mutex covers the maps only, so a handler (`calls`) goes
through stages between them: container, port, profile, map entry.  Whether
`net.Listen` sees a port bound is left open, as a comment in the code says it
must be.  `docker rm -f` is taken to succeed.

**MetricsTicker.**  `Chosen` is the due query with its order and limit;
`fetched` is the order of `last_fetched_at`, `fresh` those within the interval.
Requests and answers are sets, and may be lost.

**RunStore.**  A table holds the set of commands whose effect it has; a
transaction carries the copy it loaded and `SaveRun` writes all of it back.
`WaitsFor` is PostgreSQL's lock conflicts among them.  A page's stream reads the
five tables in five steps (`ReadTable`) and sends the view if its etag is new.

**Studio** gives each operation its user and a budget, and adds what the foreign
keys and the process do across components: `DeleteProject`, `DeleteAccount`,
`DeleteRun`, `PersistLogin`, `Crash`.

## Runs

The passing runs switch TLC's deadlock check off, because a run stops for good
when it is completed, failed or cancelled, an outbox may be empty, a group may
have nothing left to serve, and in `uploads` and `studio` users may have nothing
more to ask for.

**run_in_turn** (`InTurnSpec`): all seven kinds of step, all 24 combinations of
automatic assembly, review gate, style reference and cost cap, scripts of 1 or 3
panels.  Users answer pauses only.  Shows that repeated, late and contradictory
answers leave a run nobody interferes with correct: `CompletedMeansAllDone`,
`NoBlankPanel`, `PauseCanResume`, `ChargedOnce`, and that it settles
(`RunSettles`).  Three panels are the fewest for which a first, a middle and a
last panel differ in the sequential modes; a cap of 3 is crossed in the middle
of the template, and by the panels of one step.  The four safety properties are
also proved, under `Spec`.

**run_rerun** (`Spec`): script, image, assemble, upload; two panels; two option
sets, one with both gates up, one automatic with a cap and sequential images;
up to `MaxCommands = 3` requests by users at any time, with and without
`panel_indices`.  Three commands are enough to regenerate a step, regenerate
one before it, and reassemble, each while the answers of the others are still
out.  Checks `RunningHasOpenAttempt`, `EndsForAReason`,
`GatedStepsAreCommanded`, `RegenerateFlagsDownstream`, `CancelledIsFinal`,
`CapStopsAnswers`.  These six are also proved for all bounds.  `CancelledIsFinal`
follows the code and `src/PLAN.md:403` (8.2): a late answer changes nothing, adds
no cost, and is dropped.  The comment on `openAttempt` says otherwise (see
*Observations*).

**outbox_scaled**: two relays, two units of work, three events of which one
unit's are on both sides of the other's, batches of two, two failures.  Two
relays are the fewest that contend for rows; three rows with a batch of two
leave one to the second relay or the next drain.  Checks `MarkedWasSent`,
`FailureForEachCopy`, `AllMarked` and the refinement `LogSpec`; and `InOrder`, for the
behaviours in which one of the two does all the work: one relay is what the Makefile
starts.  Where both work the order may be lost, as a second relay publishes what the
first has locked but not got to.

**stream_groups**: two processes of each program, three entries of which the
second is malformed, batches of two, two failures.  Two processes are enough for
a claim from a live colleague; three entries for a batch, a rest and a cursor in
the middle of the list.  Checks `AckedIsHandled`, `WorkBounded`,
`OnceWithoutClaims`, `Served`.  The comment at `redis_bus.py:65` speaks of claims
from dead consumers; the code claims by idle time, so slow live ones lose entries
too, and `WorkBounded` says what that costs.

**uploads**: a union of scenes (`MCUploads`), each a small instance with its own
database, users and failures, since what interferes is always a few actors: a
captioned run under review; the run's own upload twice, by one worker or by two
that claim from each other, or with a scheduled one at the same time; a
scheduled upload while the run waits for review; two rows due together or in
turn on each kind of account and with each method; rows that fail or are
cancelled; two or three schedule requests under each of three limits (one that
only counts, one that counts and spaces, one whose spacing is wider than its
window).  Two records, three rows, three times and one failure are enough for a
result to find the wrong row, for a quota of one to be used up within a tick, and
for two requests to race a third row.  The scenes have no product with each
other: users who schedule do not also review.

**studio**: fifteen scenes (`MCStudio`), each a start, a set of requests and how
often whom acts.  `look`, `length`, `sound` and `upload` create one run from each
of some hundreds of combinations of request, format, project, links and template,
every field stated and not stated by whoever may state it.  `story`, `templates`
create runs while users change what they draw on.  `links` (three links, one
edited or deleted account) and `cascade` let transactions on links overlap.
`logins`, `viewers` have two sessions and two ports, so that a port is wanted
twice; `audio` two tracks in projects that may go; `metrics` and `forgotten`
three records in batches of two, so that rows nobody can fetch may fill a batch.
`watched` has two answers and a deletion under a page, `locks` an answer, two
approvals, a firing and a deletion.  Each has a crash where the code holds
something in memory.  `RunAsAsked` states what the user, the format, the project
and the template say, field by field, without using any operator of the merge; where the format and the
project both say something it takes either (`precedence_doc`).

**stream_retry_doc**, **stream_at_least_once_doc**, **run_stale_doc**,
**run_partial_doc**, **suggestion_doc** and **precedence_doc** check what a comment or
a README says and TLC refutes; see *Findings*.

The bounds are `MaxPanels`, `PanelCounts`, `Costs`, `Options`, `Overrides` and
`MaxCommands`.  Versions are bounded by the commands, the requests by versions
and panels.  In `OutboxRelay` and `StreamGroup` the failures are bounded by
`MaxFailures`, which also bounds copies and repeated work, and events, entries
and processes are finite sets.  In `Uploads` `MaxRows`, `Horizon` and each
scene's `commands`, `captions`, `failures`, `claims` and `horizon` are bounds, the
failures and claims also of the copies posted; the 50 rows
of a tick are never reached and `ApiCap` is 1 instead of 6.  In `Studio` each
kind of act has a budget; ids are finite sets and none is given out twice.

### Fairness

`AllMarked` and `LogSpec` need `WF_vars(Drain(r))`: a relay ticks every second
and drains.  Units of work owe nothing.  Errors stop after `MaxFailures`, in any
order and at any point: what is shown is recovery from finitely many.

`Served` needs `WF_vars(Loop(c))`, which says that calls return and that a
handler returns or raises in the end (a provider call that hangs for ever is not
covered), and `WF_vars(Age(e))`, that time passes.

`RunSettles` needs `WF_vars(WorkersAnswer /\ ~outOfTurn')`: while some request
has an answer that would still change the run, one such answer is eventually
recorded.  This is an assumption about everything outside the aggregate, and it
is not free: it holds as long as no completion is lost, which the transactional
outbox and the Python workers' claiming provide, and which a crash of the
renderer or an error in the completion consumer breaks (hazards at `redis.ts:60`
and `raw.go:117`).  What the run shows is the aggregate's share: with all its
answers it always reaches an end or a pause, so it never swallows the last
answer or forgets to ask for the next.  No fairness is assumed of failure
reports, of users or of cancellation.

`UploadsSettle` needs `WF_vars(System)`: the worker, the further handlers of claimed
requests, the two consumers, the ticker
and the requests that have passed their check are loops or code that goes on, and
something is done while anything is left to do.  All the work is finite and each
piece is done once, so weak fairness of the whole is enough; a crash or a failed
transaction ends the obligation, as does a cancelled run, whose scheduled upload
the worker skips unanswered.

`DueIsFetched` needs the ticker to tick and to go through its rows, and the worker
and the consumer to get round to each record (`WF` per record: both read streams
in order).  It is stated but for `Starved`, what the code itself leaves stuck.

## Findings

* *Stale flags* (`run_stale_doc`).  `attempt.go:22-23` says a step becomes stale
  when an upstream's version moves past the recorded one.  Only `RegenerateStep`
  flags steps; reassembling leaves an upload made from the old video unflagged.
  What does hold, and is proved, is `RegenerateFlagsDownstream`.
* *Partial regeneration* (`run_partial_doc`).  `run.go:247-248` says that in the
  sequential modes a partial regeneration walks the full sequence.  It requests
  panel 0 and then the panel numbered by the count of filled slots, so it skips
  panels, and the attempt can complete with the wanted panel never requested.
* *Renderer retries* (`stream_retry_doc`).  `redis.ts:60` leaves an entry whose
  handler raised unacknowledged "for retry".  Nothing retries it: the loop reads
  new entries only.
* *At least once* (`stream_at_least_once_doc`).  `src/web-api/README.md:83` says
  consumers are at-least-once.  The completion consumer acknowledges after
  a handler's error (`raw.go:117-121`), so the completion may be handled never.
* *Suggested slots* (`suggestion_doc`).  `scheduler.go:235-236` promises a time
  the check would accept; when the limit refuses, not the gap, the time offered is
  refused again.  What holds is `SuggestionPassesCheck`.
* *Precedence* (`precedence_doc`).  `create_run.go:332-333` gives format, project, user
  from low to high.  The code lets the format beat the project.

Two more observations a reader of the properties should know.  After
regenerations a completed run may hold a blank panel or a step whose newest
attempt is still running; this is why `CompletedMeansAllDone`, `NoBlankPanel`,
`PauseCanResume` and `ChargedOnce` are stated for runs nobody interfered with.
And the cost cap stops `advance` only: a user's command and the chain of panels
within one image step go on above it, so `CapStopsAnswers` says no more.

### Observations

Met while translating the code.  The models behave this way and their properties
are stated so that they hold; no run is spent on them.

*What comments promise and the code does not do.*

* `run.go:919-921` says that many flows want completions to land even on completed or
  cancelled runs.  `openAttempt` refuses them (lines 930-932), as `src/PLAN.md:403`
  wants; `CancelledIsFinal` holds against the comment.
* `redis_bus.py:63-64` speaks of the entries of dead consumers and `upload.py:8-9` of a
  lock per account.  Entries are claimed by idle time (lines 77-80) and nothing takes a
  lock, so a slow upload may be posted twice though no worker died.  `SuccessWasPosted`
  says what holds: each further copy takes a failure or a claim.
* `upload_record.go:208-210` says that an edit locks the row against further LLM
  retries.  A caption may still raise the made-for-kids flag (lines 187-189), which the
  comment there wants.  The pause before an upload is for the user to edit the metadata
  and approve (`run.go:908-909`), but the upload is requested from the step's parameters,
  not from the record, and its result overwrites the record's visibility
  (`upload_record.go:128-130`).  `UsersWordIsFinal` says what holds: the text
  stays, and these two are all that changes.
* `upload_lifecycle_commands.go:58-59` says that the upload worker watches for approved
  rows.  Nothing does: a command that resumes the run has the upload requested, be
  the record approved, pending or rejected.

*Uploads.*

* A user's edit is undone when a consumer saves the record it had read before
  (`UsersWordIsFinal` excepts exactly that, as `clobbered`).
* A run's own result also settles a scheduled row of the run, and a result may
  settle another row than its own; their references stay right
  (`SuccessWasPosted`), their attribution does not.
* Approving a rejected or failed record changes nothing about it and still
  resumes the run.  A record approved before its run reaches the gate leaves the
  run to be resumed by hand (`upload_lifecycle_commands.go:95`).
* A scheduled upload of a cancelled run stays in flight for ever: the worker skips
  it without an answer.  `runner.go:78-80` says that publishing after the commit
  keeps rows from staying in flight without an event; lines 146-148 say that they
  do.
* Two schedule requests may pass the same check (`raced`); availability is shown
  without regard to the minimal gap; an account's limit may change at any time,
  which the model leaves out; deleting an account deletes its pending rows.
* The minimal gap holds within the window only: `CanSchedule` skips every slot
  outside it before it looks at the gap (`scheduler.go:208-226`), and nothing
  keeps the gap below the window (`social_account.go:153`).  The comments speak of
  a floor between any two uploads of an account (`scheduler.go:201`,
  `00020_upload_scheduler.sql:7`).

*Runs and what they are made from.*

* A format's script suffix hides the project's system prompt; `RunAsAsked` leaves
  it out.
* Formats users save are never applied: runs use the built-in ones only.  Saving
  one under a built-in's id clears `is_system`, after which it can be deleted.
* A project's upload block that does not say `enabled` strips the template's own
  upload steps.  A project's target length beats the format's panel duration.
* Default accounts that were deleted leave a project's uploads without an account.
  The record's provider is the account's platform, whatever the step says.
* A template is accepted if its first step is a script (`run.go:141`).  With an
  assemble step on manual and no images before it, a run pauses and cannot go on;
  `PauseCanResume` is proved for templates that have what each step needs.
* Retrying a run drops its project, overrides and review gate.
* Saving only a project's defaults erases its description.  Editing an account
  with `extra` replaces its OAuth tokens, and without a profile path erases that.
* Two defaults on one platform arise when an account's platform is edited, or when
  one account is made the default before the first link of another has committed
  (`projects_repository.go:441-443`; the property's `excused`).
* An edit of a template may undo its deletion, which hides the row
  (the comment at `templates.go:129-131` speaks of a foreign key).
* The first of two concurrent `UpsertPlot` may return an id that was not stored.
* `CleanupRuns` deletes the statuses its caller names, running ones too.

*Stores and sessions.*

* An import that dies between its two transactions leaves a track without its
  source.  Deleting a project leaves the objects of its tracks.
* Cancelling a login that was finished removes the profile of its account
  (`firefox_login.go:376`).  Finishing twice makes a second account for one
  profile, and frees the port although another session may have it by then.
* Two viewers opened at once for one account orphan a container, and the reaper's
  filter `wcm-fx-` does not match viewers' names, `wcm-fxi-`.
* Metrics of providers without a fetcher are requested for ever; a batch of them
  starves the others, as does one record whose account was deleted (`Starved`).  A
  record that waits for its worker's answer is asked for again every minute.
* An approval or a tick can deadlock with a deletion of the run; PostgreSQL aborts
  one of them (`DeadlocksNeedDeletion` shows that nothing else can).
* The events stream's comment (`pipeline_routes.go:232-233`) promises a view when
  the asset list changes; its etag holds statuses and panel counts only, so
  assets, costs and stale flags may stay old until the next change, and a page
  keeps the last view after the stream has ended.

## Proofs

### The run

These theorems are about `Spec` (any command at any time), for every template that
starts with a script, every panel bound, option set, cost and number of
commands; the assumptions are the named `ASSUME`s of the two modules.

| theorem | states |
|---|---|
| `TypeCorrect` | `Spec => []TypeOK` |
| `CancelledStays` | `Spec => CancelledIsFinal` |
| `RunningIsOpen` | `Spec => []RunningHasOpenAttempt` |
| `EndsWithReason` | `Spec => []EndsForAReason` |
| `GatesHold` | `Spec => []GatedStepsAreCommanded` |
| `CapHolds` | `Spec => CapStopsAnswers` |
| `RegenerateFlags` | `Spec => []RegenerateFlagsDownstream` |

The argument has three layers.  `RunAggregateProofs` shows that each operator
returns a run and lists the fields it changes.  `PipelineRunProofs` then reduces
every step to one of a few shapes: an answer goes on (`GoesOnAfter`), stops the
run (`StopsAfter`) or fills a slot (`Fills`); a failure (`FailsAt`); a command
asks for a step (`AskedFields`) or cancels (`CancelsRun`).  Each invariant is
shown against those shapes.

`RunningHasOpenAttempt`, `EndsForAReason` and `GatedStepsAreCommanded` are
inductive together with `TypeOK`.  `CapStopsAnswers` and
`RegenerateFlagsDownstream` are not: from an arbitrary state, an answer could
start the very version a command is on record for.  `CommandsSeen` (every version
users asked for exists already) closes that hole; theorem `Seen` proves it.

`UndisturbedRunProofs` is about the same `Spec`, in those behaviours and up to that
point where no command was out of turn:

| theorem | states |
|---|---|
| `UndisturbedRun` | `Spec => []Undisturbed` |
| `CompletedIsAllDone` | `Spec => []CompletedMeansAllDone` |
| `NoPanelIsBlank` | `Spec => []NoBlankPanel` |
| `PausedCanResume` | `Spec => [](NeedsMet => PauseCanResume)` |
| `AnswersAreChargedOnce` | `Spec => ChargedOnce` |

None of the properties is inductive; `Undisturbed` is what they have in common.
`Walked`: the steps up to the current one were requested once each, under version
1, the others not at all, and every slot that counts as filled is filled (`Sound`,
`Counted`).  `Placed`: the steps before the current one are completed, and the
status of the run says how far that one is.  `Paid`: the answers charged are those whose
slots are filled or whose attempts are closed, so a repeated answer finds its slot
filled or its attempt closed and adds nothing.

### The outbox

From `OutboxAssumption`: finitely many events, no event raised by two units of
work, any number of relays, any batch, any bound on failures.

| theorem | states |
|---|---|
| `OutboxTypes` | `Spec => []TypeOK` |
| `NothingLost` | `Spec => []MarkedWasSent` |
| `CopiesBounded` | `Spec => []FailureForEachCopy` |
| `OneRelayInOrder` | `Spec => InOrder` |
| `ImplementsLog` | `Spec` implies the safety part of `EventLog` |

`FailureForEachCopy` is not inductive: a row that a drain has sent and not
marked may be sent again only after a failure, which releases it.  The
invariants are that no row is locked by two relays or locked and marked
(`LocksInv`), and that an event has one copy fewer than the bound allows unless
it is marked or in an open drain (`CopiesInv`).

### The groups

From `GroupAssumption`: any finite number of processes, any number of entries,
any program that does not both claim and acknowledge errors.

| theorem | states |
|---|---|
| `GroupTypes` | `Spec => []TypeOK` |
| `AckedAreHandled` | `Spec => []AckedIsHandled` |
| `NeverTwice` | `Spec => []OnceWithoutClaims` |
| `WorkIsBounded` | `Spec => []WorkBounded` |

`AtAck` and `ToDo` say where a process is with an entry of its batch.
`HandledInv` extends `AckedIsHandled` to entries about to be acknowledged.
`OnceInv` adds that, without claims, an entry is in one hand only.  `WorkInv`
counts: while an entry is pending its results are at most the failures plus the
processes about to acknowledge it; once it is acknowledged nobody takes it up,
and the results plus the processes that still hold it stay below the bound.

### The run in the database

`RunStoreProofs`, for any set of commands of the four kinds and any page.

| theorem | states |
|---|---|
| `StoreTyped` | `StoreSpec => []StoreTypeOK` |
| `NothingIsLost` | `StoreSpec => []NothingLost` |
| `DeadlocksDelete` | `StoreSpec => []DeadlocksNeedDeletion` |
| `EndsComplete` | `StoreSpec => []EndIsComplete` |

The row lock is the argument: `OneHolds` (one transaction at a time has the run)
makes `CopiesFresh` inductive (what a transaction has loaded is what the tables
hold), and with fresh copies writing everything back loses nothing.  `StreamSees`
relates a page's half-read view to the tables: what its row shows is in every
table read after it, because rows only grow until the run is gone.

### Uploads

For every set of scenes, any template with a caption and an upload step, any
number of rows, any horizon and quota.  `ScenesAssumption` says of a scene that it
starts before anything is fired or posted and within its account's limit.

| theorem | states |
|---|---|
| `UploadsTypeOK` | `Spec => []TypeOK` |
| `SuccessIsReal` | `Spec => []SuccessWasPosted` |
| `UsersHaveTheLastWord` | `Spec => UsersWordIsFinal` |
| `QuotaIsKept` | `Spec => QuotaKept` |
| `NoRowIsStranded` | `Spec => []NoStrandedRow` |
| `LimitIsKept` | `Spec => []WithinLimitButForRaces` |
| `SuggestionIsFreeOfGaps` | `Spec => []SuggestionPassesCheck` |

Nothing in the program ties a result to the record and the row it settles, so the
invariants follow the job through every place that holds it.  `PostedInv`: a
reference in a record, in a copy a consumer has read, in a row, in an answer or in
the hands of a consumer is of a job that was posted.  `AskedInv`: a job is asked for
once, by the run or by the tick that fired its row.  `OnceInv` counts what may yet be
posted again: the copies there are, the further handlers and the waiting jobs that
were posted already stay within the failures and claims, because only those add to
them.  `EditsInv`: unless a save clobbered it, an edited record has the user's text
and is locked; what a step may do to the rest of its metadata follows.  `AsksInv`: a request that is about to write passed its check against
what it has seen, and a row it moves is still pending.  `NoStrandedRow` is inductive
as it stands, by counting: each step that takes a job, a publication or a result
away puts the next one in its place or settles a row.  For `WithinLimitButForRaces`
the window of a new row is cut at that row: what lies in either half, the check had
counted.

### The studio

For any ids, formats, scenes and budgets.  `StudioAssumption` and
`RowsAssumption` say that what scenes, templates and projects hold is of its type
and not the empty id.

| theorem | states |
|---|---|
| `LoginTyped` | `LoginSpec => []LoginTypeOK` |
| `NothingIsLeaked` | `LoginSpec => []NothingLeaks` |
| `AudioTyped` | `AudioSpec => []AudioTypeOK` |
| `TracksHaveObjects` | `AudioSpec => []TrackHasObject` |
| `StudioInvariant` | `Spec => []StudioInv` |
| `StudioTyped` | `Spec => []TypeOK` |
| `DefaultsAreOne` | `Spec => []OneDefaultButForRaces` |
| `StudioSignsIn` | `Spec => LoginSpec` |
| `StudioKeepsTracks` | `Spec => AudioSpec` |
| `StudioStoresRuns` | `Spec => StoreSpec` |
| `StudioIsSafe` | `Spec` implies what is proved of the three components, at once |

*Sign-ins.*  `NothingLeaks` needs that a login being launched is in the map and
cannot be finished or cancelled yet (`Launching`: clients learn its id when start
returns), and that a login about to be dropped runs no more (`Dropping`).

*Tracks.*  `TrackHasObject` needs `CallsKnow`: until a track's row is inserted no
other handler is at work on it, and what is about to be removed has no row, or one
whose commit went unheard.

*Defaults.*  The transactions that link accounts overlap, and each clears only what
it can see.  `LinksInv` says that there is one row and one open transaction per
project and account (`LinksOnce`, `TxsOnce`), that an uncommitted row belongs to
an open transaction (`UncommittedHaveTxs`), that a committed default which an open
transaction is about to replace goes when it commits (`DefaultsGo`), and that of
two new defaults the later transaction waits for the row lock of the earlier one
(`DefaultsWait`); where neither holds the property's own excuse does.

*Runs.*  That a run made by `CreateRun` is of the type of runs is the longest chain
of lemmas: every layer (format, project, request, account, links, the steps added
and taken away, panels, metadata, video) returns settings whose fields have their
types, whatever was stated and whatever was not.

*Composition.*  `ComponentsStep` says that a step of the studio, its deletions with
their cascades and its crashes included, is a step or a stutter of each component,
so each component's invariant carries over and the studio implements the three
components' specifications.

Sequences are cut with `Without` and maps joined with a `++` of our own rather
than with the community modules' `SelectSeq` and TLC's `@@`, which the provers
cannot look into.

### Induction

The library's induction theorems have an operator parameter.  Where a proof runs
over a recursive function (the rows of a tick, the rounds of a suggestion, the
rows left by a deletion), the hypothesis is made the membership of a set of
numbers and `SetInduction`, proved from the well-foundedness of `<`, does the
rest.

### What is only model-checked

* Liveness: `RunSettles`, `AllMarked`, `Served`, `UploadsSettle`, `DueIsFetched`
  and the liveness part of `LogSpec`.  It is out of the prover's reach.
* `RunAsAsked`: it compares each field of a run with five sources.  The types of
  all these are proved, the values are checked on some hundreds of combinations.

## Not modelled, and the plan

In this order:

1. `RunAsAsked`, layer by layer, from the lemmas that type the layers.
2. An abstract run that walks its steps one by one, refined by `PipelineRun` in
   turn: `Undisturbed` is the invariant it needs.
3. Outbox and groups composed, refining the environment `PipelineRun` assumes.
4. The cancellation watchers of workers and renderer, whose sets of cancelled runs
   are in `Uploads` only as the choice to skip a cancelled run's job.

Parts of modelled components that are left out, and why: texts, names, reference
images and the archived flag (no other component tells them apart), limits that
change (fixed in a scene), users (read once per request), queries other than
`GetRun` (single statements), methods without a caller.

Left out for good: the command bus and wiring, provider clients, rendering,
configuration, the Web UI and generated code.  They keep no state across steps or
are pure I/O.
