---------------------------- MODULE RunAggregate ----------------------------
(***************************************************************************)
(* The pipeline Run aggregate: the methods of `pipeline.Run` and           *)
(* `pipeline.Step` as operators from a run to a run.  A run is a record;   *)
(* each operator returns the run the method leaves behind, and a predicate *)
(* Can<Method> holds where the method does not return an error (an error   *)
(* rolls the transaction back, so the run is as before).  PipelineRun      *)
(* makes a state machine of them.                                          *)
(*                                                                         *)
(* Data is reduced to provenance.  The object key a worker writes contains *)
(* the attempt's version ("runs/<id>/<step>/v<version>/panel-<n>.png"), so *)
(* an output slot holds that version, 0 standing for the empty key.  Costs *)
(* are natural numbers.                                                    *)
(***************************************************************************)
EXTENDS Integers, FiniteSets, FiniteSetsExt

CONSTANTS
  StepCount,   \* number of steps of the template the run was created from
  StepType,    \* the type of each step: the run's config snapshot
  MaxPanels    \* bound on the number of panels of a script

StepKind == {"script", "image", "audio", "music", "assemble", "caption", "upload"}
RefMode == {"none", "anchor", "previous"}

\* A template has a step and starts with a script (NewRunWithOptions).
ASSUME TemplateAssumption ==
  /\ StepCount \in Nat \ {0}
  /\ StepType \in [0..(StepCount - 1) -> StepKind]
  /\ StepType[0] = "script"

ASSUME PanelsAssumption == MaxPanels \in Nat \ {0}

Step == 0..(StepCount - 1)
Panel == 0..(MaxPanels - 1)

-----------------------------------------------------------------------------
(* The run's fields *)

\* "queued" is left inside the transaction that creates the run: CreateRun
\* commits it only after Start.
RunStatus == {"running", "completed", "failed", "cancelled", "awaiting_action"}

\* What is fixed when the run is created: auto_assemble, the review gate, the
\* snapshot's style_reference and the cost cap (0 = no cap).
RunOptions == [auto : BOOLEAN, review : BOOLEAN, mode : RefMode, cap : Nat]

Slots == [Panel -> Nat]
NoSlots == [p \in Panel |-> 0]

\* The active attempt of a step ("pending" when the step has never run).
\*   expected, done   panelsExpected, panelsCompleted
\*   out              outputs: the version each slot's key was made for
\*   input            input: the keys an assemble or upload request refers to
\*   panels           how many panels a completed script lists, or how many
\*                    panel references an assemble request holds
\*   mode             style_reference of the merged params
\*   upstream         upstreamVersions
Attempt ==
  [status   : {"pending", "running", "completed", "failed"},
   expected : 0..MaxPanels, done : Nat, out : Slots, input : Slots,
   panels   : 0..MaxPanels, mode : RefMode, upstream : [Step -> Nat]]

NoAttempt ==
  [status |-> "pending", expected |-> 0, done |-> 0, out |-> NoSlots,
   input |-> NoSlots, panels |-> 0, mode |-> "none",
   upstream |-> [j \in Step |-> 0]]

\* A *.requested event: one unit of work for a worker, named by the attempt
\* that asked for it.  Only image steps use a panel other than 0.
Request == [step : Step, version : Nat, panel : Panel]

\* Terminal events (RunCompleted, RunFailed, RunCancelled).
Notice == {"completed", "failed", "cancelled"}

\* version, stale, att: Step.currentVersion, Step.isStale and the active
\* attempt; sent, notices: the events recorded so far (what goes to the outbox).
Run ==
  [opts : RunOptions, status : RunStatus, cur : Step, cost : Nat,
   version : [Step -> Nat], stale : [Step -> BOOLEAN],
   att : [Step -> Attempt], sent : SUBSET Request, notices : SUBSET Notice]

-----------------------------------------------------------------------------
(* Requesting a step *)

\* The completed steps of a kind before step i; the code walks back from
\* currentStepIndex and takes the nearest.
Sources(r, kind, i) ==
  {j \in Step : j < i /\ StepType[j] = kind /\ r.att[j].status = "completed"}
Source(r, kind, i) == Max(Sources(r, kind, i))

\* The kind of step whose output a step cannot be requested without.
Needs(i) ==
  CASE StepType[i] = "image"    -> {"script"}
    [] StepType[i] = "assemble" -> {"image"}
    [] StepType[i] = "upload"   -> {"assemble"}
    [] OTHER                    -> {}

CanRequest(r, i) == \A kind \in Needs(i) : Sources(r, kind, i) # {}

\* panelsExpected of the new attempt.
Expected(r, i) ==
  IF StepType[i] = "image" THEN r.att[Source(r, "script", i)].panels ELSE 1

\* Slots a partial regeneration (panel_indices = P) copies from the attempt
\* that was active: those not listed that the old attempt had filled.
Seeded(r, i, P) ==
  IF StepType[i] # "image" \/ P = {} THEN {}
  ELSE {p \in Panel : p < Expected(r, i) /\ p \notin P /\ r.att[i].out[p] # 0}

\* The panels requested at once: all (or the listed ones) without style
\* references, only panel 0 in the sequential modes.
FirstPanels(r, i, P, mode) ==
  IF StepType[i] # "image" \/ mode # "none" THEN {0}
  ELSE {p \in Panel : p < Expected(r, i) /\ (P = {} \/ p \in P)}

FirstRequests(r, i, P, mode) ==
  {[step |-> i, version |-> r.version[i] + 1, panel |-> p] : p \in FirstPanels(r, i, P, mode)}

RequestInput(r, i) ==
  CASE StepType[i] = "assemble" -> r.att[Source(r, "image", i)].out
    [] StepType[i] = "upload"   -> r.att[Source(r, "assemble", i)].out
    [] OTHER                    -> NoSlots

UpstreamVersions(r, i) == [j \in Step |-> IF j < i THEN r.version[j] ELSE 0]

\* Mutant: one panel too many is expected.
NewAttemptOneMore(r, i, P, mode) ==
  [status   |-> "running",
   expected |-> Expected(r, i) + 1,
   done     |-> 0,
   out      |-> NoSlots,
   input    |-> RequestInput(r, i),
   panels   |-> 0,
   mode     |-> mode,
   upstream |-> [j \in Step |-> 0]]

NewAttempt(r, i, P, mode) ==
  [status   |-> "running",
   expected |-> Expected(r, i),
   done     |-> Cardinality(Seeded(r, i, P)),
   out      |-> [p \in Panel |-> IF p \in Seeded(r, i, P) THEN r.att[i].out[p] ELSE 0],
   input    |-> RequestInput(r, i),
   panels   |-> IF StepType[i] = "assemble" THEN r.att[Source(r, "image", i)].expected ELSE 0,
   mode     |-> IF StepType[i] = "image" THEN mode ELSE "none",
   upstream |-> UpstreamVersions(r, i)]

\* requestStep with addAttempt: a new version becomes the active attempt.
RequestStep(r, i, P, mode) ==
  [r EXCEPT !.cur        = i,
            !.version[i] = @ + 1,
            !.stale[i]   = FALSE,
            !.att[i]     = NewAttempt(r, i, P, mode),
            !.sent       = @ \cup FirstRequests(r, i, P, mode)]

\* requestStep with no overrides.
RequestPlain(r, i) == RequestStep(r, i, {}, r.opts.mode)

-----------------------------------------------------------------------------
(* advance: what follows the completion of step i *)

Finish(r, s) == [r EXCEPT !.status = s, !.notices = @ \cup {s}]
\* Mutant: the status is not changed.
AwaitStillRunning(r) == r
Await(r) == [r EXCEPT !.status = "awaiting_action"]

\* Mutant: the test for "no cap" is inverted.
OverCapInverted(r) == r.opts.cap = 0 /\ r.cost > r.opts.cap
OverCap(r) == r.opts.cap > 0 /\ r.cost > r.opts.cap

\* Manual cascade gate.
CascadeGate(r, i) == r.version[i] > 1 /\ \E j \in Step : j > i /\ r.stale[j]

AssembleGate(r, i) == ~r.opts.auto /\ StepType[i] = "assemble"
ReviewGate(r, i) == r.opts.review /\ StepType[i] = "upload"

\* Mutant: the review gate is forgotten.
GoesOnUnreviewed(r, i) ==
  ~OverCap(r) /\ ~CascadeGate(r, i) /\ i + 1 \in Step /\ ~AssembleGate(r, i + 1)

\* Does advance from step i request step i + 1?
GoesOn(r, i) ==
  /\ ~OverCap(r)
  /\ ~CascadeGate(r, i)
  /\ i + 1 \in Step
  /\ ~AssembleGate(r, i + 1)
  /\ ~ReviewGate(r, i + 1)

CanAdvance(r, i) == GoesOn(r, i) => CanRequest(r, i + 1)

Advance(r, i) ==
  CASE OverCap(r)                                       -> Finish(r, "failed")
    [] GoesOn(r, i)                                     -> RequestPlain(r, i + 1)
    [] ~OverCap(r) /\ ~CascadeGate(r, i) /\ i + 1 \notin Step -> Finish(r, "completed")
    [] OTHER                                            -> Await(r)

-----------------------------------------------------------------------------
(* Recording a worker's answer to request q.  The payload of an answer names *)
(* the run, the step and the panel; the only trace of the attempt it was     *)
(* produced for is the version in its object key.                            *)

\* Mutants: the run's status is not checked; a completed attempt takes answers.
OpenInAnyRun(r, q) == r.att[q.step].status \notin {"pending", "completed"}
OpenWhenCompleted(r, q) == r.status = "running" /\ r.att[q.step].status # "pending"

\* openAttempt, and "if attempt.status == AttemptCompleted { return nil }".
Open(r, q) == r.status = "running" /\ r.att[q.step].status \notin {"pending", "completed"}

\* An answer of a step with one output: closes whichever attempt is active.
Closed(a, q, panels) ==
  [a EXCEPT !.status = "completed",
            !.done   = 1,
            !.out    = [NoSlots EXCEPT ![0] = q.version],
            !.panels = IF StepType[q.step] = "script" THEN panels ELSE @]
Close(r, q, panels, c) ==
  [r EXCEPT !.att[q.step] = Closed(r.att[q.step], q, panels), !.cost = r.cost + c]

\* Mutant: a redelivered panel counts again.
NeverSameKey(r, q) == FALSE

\* The slot already holds this very key: a redelivered answer.
SameKey(r, q) == r.att[q.step].out[q.panel] = q.version

\* RecordImageCompleted up to the completion test.
Filled(a, q) ==
  [a EXCEPT !.out  = [a.out EXCEPT ![q.panel] = q.version],
            !.done = a.done + 1]
Fill(r, q, c) ==
  [r EXCEPT !.att[q.step] = Filled(r.att[q.step], q), !.cost = r.cost + c]

\* Mutant: the last panel is not waited for.
PanelsDoneEarly(r, i) == r.att[i].done + 1 >= r.att[i].expected

PanelsDone(r, i) == r.att[i].done >= r.att[i].expected

\* Mutant: the attempt is not closed.
CompleteImageNot(r, i) == r

CompleteImage(r, i) == [r EXCEPT !.att[i] = [@ EXCEPT !.status = "completed"]]

\* Mutant: the chain of panels breaks.
NoNextPanel(r, i) == r

\* Sequential modes ask for the next panel under the current version.  The
\* mode is read from the snapshot, not from the attempt's merged params.
NextPanel(r, i) ==
  IF r.opts.mode = "none" THEN r
  ELSE [r EXCEPT !.sent = @ \cup
          {[step |-> i, version |-> r.version[i], panel |-> r.att[i].done]}]

\* Mutant: the attempt stays as it was.
FailRunOnly(r, i) == Finish(r, "failed")

\* RecordStepFailed: the active attempt of the step and the run fail.
Fail(r, i) == Finish([r EXCEPT !.att[i] = [@ EXCEPT !.status = "failed"]], "failed")

-----------------------------------------------------------------------------
(* User commands *)

Resume(r) == [r EXCEPT !.status = "running"]

\* Mutant: the next step is skipped.
MarkStaleAfterNext(r, i) == [r EXCEPT !.stale = [j \in Step |-> @[j] \/ j > i + 1]]

MarkStaleAfter(r, i) == [r EXCEPT !.stale = [j \in Step |-> @[j] \/ j > i]]

\* findStepIndex: the first step of a type.
FirstOf(kind) == CHOOSE i \in Step : StepType[i] = kind /\ \A j \in Step : StepType[j] = kind => i <= j
HasStep(kind) == \E i \in Step : StepType[i] = kind

\* NewRunWithOptions, then Start: requests step 0.
FreshRun(opts) ==
  [opts |-> opts, status |-> "running", cur |-> 0, cost |-> 0,
   version |-> [j \in Step |-> 0], stale |-> [j \in Step |-> FALSE],
   att |-> [j \in Step |-> NoAttempt], sent |-> {}, notices |-> {}]
StartedRun(opts) == RequestPlain(FreshRun(opts), 0)
=============================================================================
