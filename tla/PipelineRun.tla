---------------------------- MODULE PipelineRun ----------------------------
(***************************************************************************)
(* One pipeline run, its users and its workers.  Every request the run has *)
(* recorded may be answered at any time, any number of times, in any order *)
(* and late, or never: what the outbox, Redis Streams, the workers and the *)
(* API's consumer amount to when messages are delivered at least once.     *)
(* Each action is one command handler: load the run FOR UPDATE, call the   *)
(* aggregate, save it and add its events to the outbox in one transaction. *)
(***************************************************************************)
EXTENDS RunAggregate

CONSTANTS
  Options,      \* the run options explored
  PanelCounts,  \* how many panels a script may come back with
  Costs,        \* what an answer may cost
  Overrides,    \* image overrides of RegenerateStep: [panels, mode]
  MaxCommands   \* bound: how many times users ask for a step

ASSUME OptionsAssumption == Options \subseteq RunOptions
ASSUME PanelCountsAssumption == PanelCounts \subseteq 1..MaxPanels
ASSUME CostsAssumption == Costs \subseteq Nat
ASSUME OverridesAssumption == Overrides \subseteq [panels : SUBSET Panel, mode : RefMode]
ASSUME MaxCommandsAssumption == MaxCommands \in Nat

VARIABLES
  run,        \* the pipeline_runs row with its steps and attempts
  charged,    \* history: the requests whose answers were added to the run's cost
  commanded,  \* history: the attempts, <<step, version>>, users asked for
  regenerated,\* history: those of them RegenerateStep started
  outOfTurn   \* history: has a command requested a step other than the one
              \* the run was paused at?

vars == <<run, charged, commanded, regenerated, outOfTurn>>
history == <<commanded, regenerated, outOfTurn>>

Init ==
  /\ \E o \in Options : run = StartedRun(o)
  /\ charged = {}
  /\ commanded = {}
  /\ regenerated = {}
  /\ outOfTurn = FALSE

-----------------------------------------------------------------------------
(* Workers' answers *)

\* The answer to q closes its step with run r, whose next step must be
\* requestable: otherwise the transaction fails and the answer is lost.
Accept(q, r) ==
  /\ CanAdvance(r, q.step)
  /\ run' = Advance(r, q.step)
  /\ charged' = charged \cup {q}
  /\ UNCHANGED history

SingleCompleted(kind, q, c) ==
  /\ StepType[q.step] = kind
  /\ Open(run, q)
  /\ Accept(q, Close(run, q, 0, c))

RecordScriptCompleted(q, n, c) ==
  /\ StepType[q.step] = "script"
  /\ Open(run, q)
  /\ Accept(q, Close(run, q, n, c))

RecordAudioCompleted(q, c) == SingleCompleted("audio", q, c)
RecordMusicCompleted(q, c) == SingleCompleted("music", q, c)
RecordCaptionCompleted(q, c) == SingleCompleted("caption", q, c)
RecordAssembleCompleted(q, c) == SingleCompleted("assemble", q, c)
RecordUploadCompleted(q, c) == SingleCompleted("upload", q, c)

RecordImageCompleted(q, c) ==
  /\ StepType[q.step] = "image"
  /\ Open(run, q)
  /\ q.panel < run.att[q.step].expected
  /\ ~SameKey(run, q)
  /\ LET r == Fill(run, q, c)
     IN  IF PanelsDone(r, q.step)
         THEN Accept(q, CompleteImage(r, q.step))
         ELSE /\ run' = NextPanel(r, q.step)
              /\ charged' = charged \cup {q}
              /\ UNCHANGED history

RecordStepFailed(q) ==
  /\ run.status = "running"
  /\ run' = Fail(run, q.step)
  /\ UNCHANGED <<charged, history>>

-----------------------------------------------------------------------------
(* Users' commands *)

\* A user asks for step i.  It is in turn if the run pauses in front of that step
\* and has never requested it.
InTurn(i) ==
  run.status = "awaiting_action" /\ i = run.cur + 1 /\ run.version[i] = 0

Command(i, inTurn) ==
  /\ Cardinality(commanded) < MaxCommands
  /\ CanRequest(run, i)
  /\ commanded' = commanded \cup {<<i, run.version[i] + 1>>}
  /\ outOfTurn' = (outOfTurn \/ ~inTurn)
  /\ UNCHANGED charged

RegenerateStep(i, o) ==
  /\ run.status # "cancelled"
  /\ Command(i, FALSE)
  /\ run' = MarkStaleAfter(RequestStep(Resume(run), i, o.panels, o.mode), i)
  /\ regenerated' = regenerated \cup {<<i, run.version[i] + 1>>}

RequestAssemble ==
  /\ HasStep("assemble")
  /\ run.status # "cancelled"
  /\ LET i == FirstOf("assemble")
     IN  /\ Command(i, InTurn(i))
         /\ run' = RequestPlain(Resume(run), i)
  /\ UNCHANGED regenerated

\* The approval of an upload record when none is left to review.
ResumeFromReview ==
  /\ HasStep("upload")
  /\ run.status = "awaiting_action" /\ run.opts.review
  /\ LET i == FirstOf("upload")
     IN  /\ Command(i, InTurn(i))
         /\ run' = RequestPlain(Resume(run), i)
  /\ UNCHANGED regenerated

Cancel ==
  /\ run.status \in {"running", "awaiting_action"}
  /\ run' = Finish(run, "cancelled")
  /\ UNCHANGED <<charged, history>>

-----------------------------------------------------------------------------
Answer(q) ==
  \E c \in Costs :
    \/ \E n \in PanelCounts : RecordScriptCompleted(q, n, c)
    \/ RecordImageCompleted(q, c)
    \/ RecordAudioCompleted(q, c)
    \/ RecordMusicCompleted(q, c)
    \/ RecordCaptionCompleted(q, c)
    \/ RecordAssembleCompleted(q, c)
    \/ RecordUploadCompleted(q, c)

Answered == \E q \in run.sent : Answer(q) \/ RecordStepFailed(q)

\* A step other than image ignores the image overrides.
Commanded ==
  \/ \E i \in Step, o \in Overrides : RegenerateStep(i, o)
  \/ RequestAssemble
  \/ ResumeFromReview
  \/ Cancel

Next == Answered \/ Commanded

Spec == Init /\ [][Next]_vars

\* A run whose users only answer its pauses, and whose workers do not give up on
\* an answer that would still change the run.  Failing is not a duty, so fairness
\* says nothing of RecordStepFailed, nor of the commands.
WorkersAnswer == \E q \in run.sent : Answer(q)
InTurnSpec ==
  /\ Init
  /\ [][Next /\ ~outOfTurn']_vars
  /\ WF_vars(WorkersAnswer /\ ~outOfTurn')

-----------------------------------------------------------------------------
(* Properties *)

\* Every field has its type.
TypeOK ==
  /\ run \in Run
  /\ charged \subseteq Request
  /\ commanded \subseteq Step \X Nat
  /\ regenerated \subseteq Step \X Nat
  /\ outOfTurn \in BOOLEAN

\* A run that says it is running waits for a worker: some active attempt is
\* still open.  Otherwise nothing but a user would ever move it again.
RunningHasOpenAttempt ==
  run.status = "running" => \E i \in Step : run.att[i].status = "running"

\* A run ends for a reason that can be read off its steps, and has announced it:
\* completed when the last step is, failed when a step failed or the spending is
\* over the cap.
EndsForAReason ==
  /\ run.status \in Notice => run.status \in run.notices
  /\ run.status = "completed" => run.att[StepCount - 1].status = "completed"
  /\ run.status = "failed" => OverCap(run) \/ \E i \in Step : run.att[i].status = "failed"

\* Nothing changes a cancelled run: neither a late or repeated answer nor a command.  This
\* is what openAttempt does and PLAN.md (8.2) says, against the comment on openAttempt:
\* "many flows want to allow completions to land even on completed/cancelled runs".
CancelledIsFinal == [][run.status = "cancelled" => UNCHANGED run]_vars

\* The steps that wait for a user.
Reserved(o, i) ==
  \/ StepType[i] = "assemble" /\ ~o.auto
  \/ StepType[i] = "upload" /\ o.review

\* With the assemble step on manual, or the review gate up, no answer ever
\* starts that step: every request for it goes back to a user's command.
GatedStepsAreCommanded ==
  \A q \in run.sent : Reserved(run.opts, q.step) => <<q.step, q.version>> \in commanded

\* Once the run has spent more than its cap, only a user starts another step.
CapStopsAnswers ==
  [][(\E i \in Step : run'.version[i] > run.version[i]) /\ UNCHANGED commanded
       => run'.opts.cap = 0 \/ run'.cost <= run'.opts.cap]_vars

\* A regenerated step leaves every later step that consumed an older version of it
\* flagged stale, until that step is requested again.
RegenerateFlagsDownstream ==
  \A i, j \in Step :
    i < j /\ <<i, run.version[i]>> \in regenerated /\ run.version[j] > 0
          /\ run.att[j].upstream[i] < run.version[i]
      => run.stale[j]

\* The four properties below are about a run nobody interfered with: commands only
\* answered the run's own pauses.  Answers may still be repeated, late or contradictory.

\* An answer adds to the run's cost at most once, however often it is delivered.
ChargedOnce ==
  [][run'.cost > run.cost /\ ~outOfTurn' => charged' # charged]_vars

\* A run that completes has done all of its steps, and every panel of its script.
CompletedMeansAllDone ==
  ~outOfTurn /\ run.status = "completed" =>
    \A i \in Step :
      /\ run.att[i].status = "completed"
      /\ StepType[i] = "image" =>
           \A p \in Panel : p < run.att[i].expected => run.att[i].out[p] # 0

\* The renderer is never asked to assemble a video with a panel missing.
NoBlankPanel ==
  ~outOfTurn =>
    \A i \in Step :
      StepType[i] = "assemble" /\ run.version[i] > 0 =>
        /\ run.att[i].panels > 0
        /\ \A p \in Panel : p < run.att[i].panels => run.att[i].input[p] # 0

\* A running run comes to an end or to a pause, whatever answers are repeated.
RunSettles == run.status = "running" ~> run.status # "running"

\* A run that pauses for the user can go on from where it paused.
PauseCanResume ==
  ~outOfTurn /\ run.status = "awaiting_action" =>
    run.cur + 1 \in Step /\ CanRequest(run, run.cur + 1)

-----------------------------------------------------------------------------
(* What comments in the code say and the code does not do.  Each has a run that *)
(* finds it violated.                                                           *)

\* attempt.go, StepAttempt: "When an upstream's active version moves past the
\* recorded number, the step that owns this attempt becomes stale."
StaleWhenUpstreamMoves ==
  \A i, j \in Step :
    i < j /\ run.version[j] > 0 /\ run.att[j].upstream[i] < run.version[i]
      => run.stale[j]

\* run.go, requestStep: "for ref modes a partial regen still walks the full sequence
\* (the chain would otherwise miss references)".  An attempt in a sequential mode
\* that took no answer meant for an older one completes only after every panel was
\* requested.
PartialRegenWalksAll ==
  \A i \in Step :
    /\ StepType[i] = "image" /\ run.att[i].status = "completed" /\ run.att[i].mode # "none"
    /\ \A p \in Panel : run.att[i].out[p] \in {0, run.version[i]}
    => \A p \in Panel : p < run.att[i].expected =>
         [step |-> i, version |-> run.version[i], panel |-> p] \in run.sent
=============================================================================
