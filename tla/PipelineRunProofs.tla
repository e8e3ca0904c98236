-------------------------- MODULE PipelineRunProofs --------------------------
(* Theorems about PipelineRun, for every template, every number of panels and  *)
(* every bound on the users' commands.                                         *)
EXTENDS PipelineRun, RunAggregateProofs

-----------------------------------------------------------------------------
(* What an answer does *)

\* Run r is run r0 after the answer to q closed the attempt of its step.
Completes(r0, q, r) ==
  /\ r \in Run
  /\ r.opts = r0.opts /\ r.status = r0.status /\ r.cur = r0.cur
  /\ r.version = r0.version /\ r.stale = r0.stale
  /\ r.sent = r0.sent /\ r.notices = r0.notices
  /\ r.att[q.step].status = "completed"
  /\ r.att[q.step].upstream = r0.att[q.step].upstream
  /\ \A j \in Step : j # q.step => r.att[j] = r0.att[j]

\* closeAttempt completes the attempt and leaves the rest of the run.
LEMMA CloseCompletes ==
  ASSUME NEW r \in Run, NEW q \in Request, NEW n \in 0..MaxPanels, NEW c \in Nat
  PROVE  Completes(r, q, Close(r, q, n, c))
<1>1. q.step \in Step
  BY DEF Request
<1>2. r.att[q.step] \in Attempt
  BY <1>1 DEF Run
<1>3. /\ Closed(r.att[q.step], q, n).status = "completed"
      /\ Closed(r.att[q.step], q, n).upstream = r.att[q.step].upstream
  BY <1>2 DEF Closed, Attempt
<1>4. Close(r, q, n, c) \in Run
  BY CloseType
<1> QED
  BY <1>1, <1>3, <1>4 DEF Completes, Close, Run

\* The last panel completes the attempt and leaves the rest of the run.
LEMMA FillCompletes ==
  ASSUME NEW r \in Run, NEW q \in Request, NEW c \in Nat
  PROVE  Completes(r, q, CompleteImage(Fill(r, q, c), q.step))
<1>1. q.step \in Step
  BY DEF Request
<1> DEFINE f == Fill(r, q, c)
<1>2. f \in Run
  BY FillType
<1>3. /\ f.opts = r.opts /\ f.status = r.status /\ f.cur = r.cur
      /\ f.version = r.version /\ f.stale = r.stale
      /\ f.sent = r.sent /\ f.notices = r.notices
      /\ \A j \in Step : j # q.step => f.att[j] = r.att[j]
  BY <1>1 DEF Fill, Run
<1> DEFINE a == [f.att[q.step] EXCEPT !.status = "completed"]
<1>4. a.status = "completed" /\ a.upstream = r.att[q.step].upstream
  <2>1. f.att[q.step] \in Attempt /\ r.att[q.step] \in Attempt
    BY <1>1, <1>2 DEF Run
  <2>2. a.status = "completed" /\ a.upstream = f.att[q.step].upstream
    BY <2>1 DEF Attempt
  <2>3. f.att[q.step] = Filled(r.att[q.step], q)
    BY <1>1 DEF Fill, Run
  <2>4. Filled(r.att[q.step], q).upstream = r.att[q.step].upstream
    BY <2>1 DEF Filled, Attempt
  <2> QED
    BY <2>2, <2>3, <2>4
<1>5. CompleteImage(f, q.step) \in Run
  BY <1>1, <1>2, CompleteImageType
<1>6. CompleteImage(f, q.step) = [f EXCEPT !.att[q.step] = a]
  BY DEF CompleteImage
<1> HIDE DEF f, a
<1>7. /\ [f EXCEPT !.att[q.step] = a].att[q.step].status = "completed"
      /\ [f EXCEPT !.att[q.step] = a].att[q.step].upstream = r.att[q.step].upstream
      /\ \A j \in Step : j # q.step => [f EXCEPT !.att[q.step] = a].att[j] = f.att[j]
  BY <1>1, <1>2, <1>4 DEF Run
<1>8. /\ [f EXCEPT !.att[q.step] = a].opts = f.opts
      /\ [f EXCEPT !.att[q.step] = a].status = f.status
      /\ [f EXCEPT !.att[q.step] = a].cur = f.cur
      /\ [f EXCEPT !.att[q.step] = a].version = f.version
      /\ [f EXCEPT !.att[q.step] = a].stale = f.stale
      /\ [f EXCEPT !.att[q.step] = a].sent = f.sent
      /\ [f EXCEPT !.att[q.step] = a].notices = f.notices
  BY <1>2 DEF Run
<1> QED
  BY <1>3, <1>5, <1>6, <1>7, <1>8 DEF Completes, f

\* An accepted answer either closes its step and lets the run advance, or fills one
\* more slot of an image attempt that is still open.
LEMMA AnswerCases ==
  ASSUME TypeOK, NEW q \in run.sent, Answer(q)
  PROVE  /\ q \in Request
         /\ Open(run, q)
         /\ charged' = charged \cup {q}
         /\ UNCHANGED history
         /\ \/ \E r : /\ Completes(run, q, r)
                      /\ CanAdvance(r, q.step)
                      /\ run' = Advance(r, q.step)
            \/ /\ StepType[q.step] = "image"
               /\ \E c \in Nat : /\ ~PanelsDone(Fill(run, q, c), q.step)
                                 /\ run' = NextPanel(Fill(run, q, c), q.step)
<1>1. q \in Request /\ run \in Run
  BY DEF TypeOK, Run
<1>2. PICK c \in Costs :
        \/ \E n \in PanelCounts : RecordScriptCompleted(q, n, c)
        \/ RecordImageCompleted(q, c)
        \/ \E kind : SingleCompleted(kind, q, c)
  BY DEF Answer, RecordAudioCompleted, RecordMusicCompleted, RecordCaptionCompleted,
         RecordAssembleCompleted, RecordUploadCompleted
<1>3. c \in Nat
  BY CostsAssumption
<1>4. 0 \in 0..MaxPanels /\ \A n \in PanelCounts : n \in 0..MaxPanels
  BY PanelsAssumption, PanelCountsAssumption
<1>5. CASE \E n \in PanelCounts : RecordScriptCompleted(q, n, c)
  BY <1>1, <1>3, <1>4, <1>5, CloseCompletes DEF RecordScriptCompleted, Accept
<1>6. CASE \E kind : SingleCompleted(kind, q, c)
  BY <1>1, <1>3, <1>4, <1>6, CloseCompletes DEF SingleCompleted, Accept
<1>7. CASE RecordImageCompleted(q, c)
  BY <1>1, <1>3, <1>7, FillCompletes DEF RecordImageCompleted, Accept
<1> QED
  BY <1>2, <1>5, <1>6, <1>7

-----------------------------------------------------------------------------
(* Type correctness *)

\* A created run has the declared types.
LEMMA TypeInit == Init => TypeOK
BY OptionsAssumption, StartedType DEF Init, TypeOK

\* What every command leaves of the right type besides the run.
LEMMA TypeCommand ==
  ASSUME TypeOK, NEW i \in Step, NEW inTurn \in BOOLEAN, Command(i, inTurn)
  PROVE  /\ CanRequest(run, i)
         /\ charged' \subseteq Request
         /\ commanded' \subseteq Step \X Nat
         /\ outOfTurn' \in BOOLEAN
         /\ run.version[i] + 1 \in Nat
BY DEF TypeOK, Command, Run

\* Resume does not touch what a request depends on.
LEMMA ResumeRequests ==
  ASSUME NEW r \in Run, NEW i \in Step, CanRequest(r, i)
  PROVE  CanRequest(Resume(r), i)
BY DEF CanRequest, Sources, Resume, Run

\* What a command with no overrides does.
LEMMA PlainCommand ==
  ASSUME TypeOK, NEW i \in Step, NEW inTurn \in BOOLEAN, Command(i, inTurn)
  PROVE  RequestPlain(Resume(run), i) \in Run
<1>1. run \in Run /\ Resume(run) \in Run
  BY StatusType DEF TypeOK
<1>2. CanRequest(Resume(run), i)
  BY <1>1, ResumeRequests DEF Command
<1> QED
  BY <1>1, <1>2, RequestPlainType

\* Every step keeps the declared types.
LEMMA TypeNext == TypeOK /\ [Next]_vars => TypeOK'
<1> SUFFICES ASSUME TypeOK, [Next]_vars
             PROVE  TypeOK'
  OBVIOUS
<1>1. run \in Run
  BY DEF TypeOK
<1>2. ASSUME NEW q \in run.sent, Answer(q)
      PROVE  TypeOK'
  <2>1. q \in Request /\ q.step \in Step
    BY <1>1 DEF Run, Request
  <2>2. ASSUME NEW r, Completes(run, q, r), CanAdvance(r, q.step), run' = Advance(r, q.step)
        PROVE  run' \in Run
    BY <2>1, <2>2, AdvanceType DEF Completes
  <2>3. ASSUME NEW c \in Nat, ~PanelsDone(Fill(run, q, c), q.step),
               run' = NextPanel(Fill(run, q, c), q.step)
        PROVE  run' \in Run
    BY <1>1, <2>1, <2>3, FillType, NextPanelType
  <2>4. run' \in Run
    BY <1>2, <2>2, <2>3, AnswerCases
  <2> QED
    BY <1>2, <2>4, AnswerCases DEF TypeOK, history
<1>3. ASSUME NEW q \in run.sent, RecordStepFailed(q)
      PROVE  TypeOK'
  <2>1. q.step \in Step
    BY <1>1 DEF Run, Request
  <2> QED
    BY <1>1, <1>3, <2>1, StatusType DEF RecordStepFailed, TypeOK, history
<1>4. ASSUME NEW i \in Step, NEW o \in Overrides, RegenerateStep(i, o)
      PROVE  TypeOK'
  <2>1. Command(i, FALSE)
    BY <1>4 DEF RegenerateStep
  <2>2. o.mode \in RefMode
    BY OverridesAssumption
  <2>3. Resume(run) \in Run /\ CanRequest(Resume(run), i)
    BY <1>1, <2>1, StatusType, ResumeRequests DEF Command
  <2>4. run' \in Run
    <3>1. RequestStep(Resume(run), i, o.panels, o.mode) \in Run
      BY <2>2, <2>3, RequestStepType
    <3> QED
      BY <1>4, <3>1, MarkStaleType DEF RegenerateStep
  <2>5. regenerated' \subseteq Step \X Nat
    <3>1. <<i, run.version[i] + 1>> \in Step \X Nat
      BY <2>1, TypeCommand
    <3> QED
      BY <1>4, <3>1 DEF RegenerateStep, TypeOK
  <2> QED
    BY <2>1, <2>4, <2>5, TypeCommand DEF TypeOK
<1>5. ASSUME RequestAssemble
      PROVE  TypeOK'
  <2> DEFINE i == FirstOf("assemble")
  <2>1. i \in Step
    BY <1>5, FirstOfFound DEF RequestAssemble
  <2>2. InTurn(i) \in BOOLEAN
    BY DEF InTurn
  <2>3. Command(i, InTurn(i)) /\ run' = RequestPlain(Resume(run), i)
    BY <1>5 DEF RequestAssemble
  <2> HIDE DEF i
  <2>4. run' \in Run
    BY <2>1, <2>2, <2>3, PlainCommand
  <2> QED
    BY <1>5, <2>1, <2>2, <2>3, <2>4, TypeCommand DEF TypeOK, RequestAssemble
<1>6. ASSUME ResumeFromReview
      PROVE  TypeOK'
  <2> DEFINE i == FirstOf("upload")
  <2>1. i \in Step
    BY <1>6, FirstOfFound DEF ResumeFromReview
  <2>2. InTurn(i) \in BOOLEAN
    BY DEF InTurn
  <2>3. Command(i, InTurn(i)) /\ run' = RequestPlain(Resume(run), i)
    BY <1>6 DEF ResumeFromReview
  <2> HIDE DEF i
  <2>4. run' \in Run
    BY <2>1, <2>2, <2>3, PlainCommand
  <2> QED
    BY <1>6, <2>1, <2>2, <2>3, <2>4, TypeCommand DEF TypeOK, ResumeFromReview
<1>7. ASSUME Cancel
      PROVE  TypeOK'
  BY <1>1, <1>7, StatusType DEF Cancel, TypeOK, history, Notice
<1>8. CASE UNCHANGED vars
  BY <1>8 DEF TypeOK, vars
<1> QED
  BY <1>2, <1>3, <1>4, <1>5, <1>6, <1>7, <1>8 DEF Next, Answered, Commanded

\* The program keeps to the types of its data: PipelineRun.TypeOK.
THEOREM TypeCorrect == Spec => []TypeOK
<1>1. Init => TypeOK
  BY TypeInit
<1>2. TypeOK /\ [Next]_vars => TypeOK'
  BY TypeNext
<1> QED
  BY <1>1, <1>2, PTL DEF Spec

-----------------------------------------------------------------------------
(* What a command does *)

\* The step is a user asking for step i, by RegenerateStep or without overrides.
Asks(i, P, mode) ==
  /\ CanRequest(run, i)
  /\ run.status # "cancelled"
  /\ commanded' = commanded \cup {<<i, run.version[i] + 1>>}
  /\ UNCHANGED charged
  /\ Resume(run) \in Run
  /\ RequestStep(Resume(run), i, P, mode) \in Run
  /\ outOfTurn' \in BOOLEAN
  /\ \/ /\ run' = RequestStep(Resume(run), i, P, mode)
        /\ regenerated' = regenerated
        /\ P = {} /\ mode = run.opts.mode
        /\ ~outOfTurn' => ~outOfTurn /\ InTurn(i)
     \/ /\ run' = MarkStaleAfter(RequestStep(Resume(run), i, P, mode), i)
        /\ regenerated' = regenerated \cup {<<i, run.version[i] + 1>>}
        /\ outOfTurn'

\* Every command but Cancel asks for one step.
LEMMA CommandCases ==
  ASSUME TypeOK, Commanded, ~Cancel
  PROVE  \E i \in Step, P \in SUBSET Panel, mode \in RefMode : Asks(i, P, mode)
<1>1. run \in Run /\ Resume(run) \in Run /\ Resume(run).opts = run.opts
  BY StatusType, ResumeFields DEF TypeOK
<1>2. ASSUME NEW i \in Step, CanRequest(run, i), NEW P, NEW mode \in RefMode
      PROVE  RequestStep(Resume(run), i, P, mode) \in Run
  BY <1>1, <1>2, ResumeRequests, RequestStepType
<1>3. CASE \E i \in Step, o \in Overrides : RegenerateStep(i, o)
  <2>1. PICK i \in Step, o \in Overrides : RegenerateStep(i, o)
    BY <1>3
  <2>2. o.mode \in RefMode /\ o.panels \in SUBSET Panel
    BY OverridesAssumption
  <2>3. CanRequest(run, i)
    BY <2>1 DEF RegenerateStep, Command
  <2>4. RequestStep(Resume(run), i, o.panels, o.mode) \in Run
    BY <1>2, <2>2, <2>3
  <2>5. outOfTurn' = TRUE
    BY <2>1 DEF RegenerateStep, Command
  <2>6. Asks(i, o.panels, o.mode)
    BY <1>1, <2>1, <2>3, <2>4, <2>5 DEF RegenerateStep, Command, Asks
  <2> QED
    BY <2>2, <2>6
<1>4. ASSUME NEW kind, HasStep(kind), Command(FirstOf(kind), InTurn(FirstOf(kind))),
             run.status # "cancelled", UNCHANGED regenerated,
             run' = RequestPlain(Resume(run), FirstOf(kind))
      PROVE  \E i \in Step, P \in SUBSET Panel, mode \in RefMode : Asks(i, P, mode)
  <2> DEFINE i == FirstOf(kind)
  <2>1. i \in Step
    BY <1>4, FirstOfFound
  <2>2. CanRequest(run, i)
    BY <1>4 DEF Command
  <2>3. run.opts.mode \in RefMode
    BY <1>1 DEF Run, RunOptions
  <2>4. RequestStep(Resume(run), i, {}, run.opts.mode) \in Run
    BY <1>2, <2>1, <2>2, <2>3
  <2>5. run' = RequestStep(Resume(run), i, {}, run.opts.mode)
    BY <1>1, <1>4 DEF RequestPlain
  <2>6. /\ commanded' = commanded \cup {<<i, run.version[i] + 1>>}
        /\ UNCHANGED charged
        /\ outOfTurn' = (outOfTurn \/ ~InTurn(i))
    BY <1>4 DEF Command
  <2> HIDE DEF i
  <2>7. outOfTurn' \in BOOLEAN /\ (~outOfTurn' => ~outOfTurn /\ InTurn(i))
    BY <2>6, Zenon
  <2>8. Asks(i, {}, run.opts.mode)
    BY <1>1, <1>4, <2>2, <2>4, <2>5, <2>6, <2>7 DEF Asks
  <2> QED
    BY <2>1, <2>3, <2>8
<1>5. CASE RequestAssemble
  BY <1>1, <1>4, <1>5 DEF RequestAssemble
<1>6. CASE ResumeFromReview
  BY <1>1, <1>4, <1>6 DEF ResumeFromReview
<1> QED
  BY <1>3, <1>5, <1>6 DEF Commanded

-----------------------------------------------------------------------------
(* Properties of the life of a run *)

\* Nothing changes a cancelled run: PipelineRun.CancelledIsFinal.
THEOREM CancelledStays == Spec => CancelledIsFinal
<1>1. [Next]_vars => (run.status = "cancelled" => UNCHANGED run)
  BY DEF Next, vars, Answered, Answer, Commanded, RecordScriptCompleted, RecordImageCompleted,
         RecordAudioCompleted, RecordMusicCompleted, RecordCaptionCompleted,
         RecordAssembleCompleted, RecordUploadCompleted, SingleCompleted, Open,
         RecordStepFailed, RegenerateStep, RequestAssemble, ResumeFromReview, Cancel
<1> QED
  BY <1>1, PTL DEF Spec, CancelledIsFinal

\* The answer to q closes its step, and the run goes on to the next one.
GoesOnAfter(q) ==
  /\ Open(run, q)
  /\ \E r : /\ Completes(run, q, r)
            /\ GoesOn(r, q.step) /\ q.step + 1 \in Step /\ CanRequest(r, q.step + 1)
            /\ Requested(r, run', q.step + 1, {}, r.opts.mode)

\* The answer to q closes its step, and the run fails, completes or pauses.
StopsAfter(q) ==
  /\ Open(run, q)
  /\ \E r : /\ Completes(run, q, r)
            /\ run'.opts = r.opts /\ run'.cost = r.cost /\ run'.cur = r.cur
            /\ run'.version = r.version /\ run'.stale = r.stale
            /\ run'.att = r.att /\ run'.sent = r.sent
            /\ \/ run'.status = "awaiting_action" /\ run'.notices = r.notices
               \/ /\ run'.status = "failed" /\ OverCap(r)
                  /\ run'.notices = r.notices \cup {"failed"}
               \/ /\ run'.status = "completed" /\ q.step + 1 \notin Step
                  /\ run'.notices = r.notices \cup {"completed"}

\* The answer to q fills a slot of an attempt that stays open.
Fills(q) ==
  /\ Open(run, q)
  /\ StepType[q.step] = "image"
  /\ \E c \in Nat : ~PanelsDone(Fill(run, q, c), q.step) /\ run'.cost = run.cost + c
  /\ run'.opts = run.opts /\ run'.status = run.status /\ run'.cur = run.cur
  /\ run'.version = run.version /\ run'.stale = run.stale /\ run'.notices = run.notices
  /\ run'.att = [run.att EXCEPT ![q.step] = Filled(run.att[q.step], q)]
  /\ run.sent \subseteq run'.sent
  /\ run'.sent \subseteq run.sent \cup
       {[step |-> q.step, version |-> run.version[q.step],
         panel |-> Filled(run.att[q.step], q).done]}
  /\ Filled(run.att[q.step], q).status = run.att[q.step].status
  /\ Filled(run.att[q.step], q).upstream = run.att[q.step].upstream

\* A panel that is not the last: the slot, the count and the cost change, and at most one
\* request is added.
LEMMA PartialFields ==
  ASSUME NEW r \in Run, NEW q \in Request, NEW c \in Nat
  PROVE  LET t == NextPanel(Fill(r, q, c), q.step)
         IN  /\ t.opts = r.opts /\ t.status = r.status /\ t.cur = r.cur
             /\ t.version = r.version /\ t.stale = r.stale /\ t.notices = r.notices
             /\ t.cost = r.cost + c
             /\ t.att = [r.att EXCEPT ![q.step] = Filled(r.att[q.step], q)]
             /\ r.sent \subseteq t.sent
             /\ t.sent \subseteq r.sent \cup
                  {[step |-> q.step, version |-> r.version[q.step],
                    panel |-> Filled(r.att[q.step], q).done]}
             /\ Filled(r.att[q.step], q).status = r.att[q.step].status
             /\ Filled(r.att[q.step], q).upstream = r.att[q.step].upstream
<1>1. Fill(r, q, c) \in Run
  BY FillType
<1>2. q.step \in Step
  BY DEF Request
<1>3. r.att[q.step] \in Attempt
  BY <1>2 DEF Run
<1>4. /\ Filled(r.att[q.step], q).status = r.att[q.step].status
      /\ Filled(r.att[q.step], q).upstream = r.att[q.step].upstream
  BY <1>3 DEF Filled, Attempt
<1>5. Fill(r, q, c).att[q.step] = Filled(r.att[q.step], q)
  <2>1. Fill(r, q, c).att = [r.att EXCEPT ![q.step] = Filled(r.att[q.step], q)]
    BY FillFields
  <2>2. r.att \in [Step -> Attempt]
    BY DEF Run
  <2> QED
    BY <1>2, <2>1, <2>2
<1> DEFINE f == Fill(r, q, c)
<1>6. /\ f.opts = r.opts /\ f.status = r.status /\ f.cur = r.cur
      /\ f.version = r.version /\ f.stale = r.stale /\ f.notices = r.notices
      /\ f.sent = r.sent /\ f.cost = r.cost + c
      /\ f.att = [r.att EXCEPT ![q.step] = Filled(r.att[q.step], q)]
      /\ f.att[q.step] = Filled(r.att[q.step], q)
      /\ f \in Run
  BY <1>1, <1>5, FillFields
<1> HIDE DEF f
<1>7. LET t == NextPanel(f, q.step)
      IN  /\ t.opts = f.opts /\ t.status = f.status /\ t.cur = f.cur
          /\ t.version = f.version /\ t.stale = f.stale /\ t.att = f.att
          /\ t.cost = f.cost /\ t.notices = f.notices
          /\ f.sent \subseteq t.sent
          /\ t.sent \subseteq f.sent \cup
               {[step |-> q.step, version |-> f.version[q.step], panel |-> f.att[q.step].done]}
  BY <1>6, NextPanelFields
<1>8. LET t == NextPanel(f, q.step)
      IN  /\ t.opts = r.opts /\ t.status = r.status /\ t.cur = r.cur
          /\ t.version = r.version /\ t.stale = r.stale /\ t.notices = r.notices
          /\ t.cost = r.cost + c
          /\ t.att = [r.att EXCEPT ![q.step] = Filled(r.att[q.step], q)]
          /\ r.sent \subseteq t.sent
          /\ t.sent \subseteq r.sent \cup
               {[step |-> q.step, version |-> r.version[q.step],
                 panel |-> Filled(r.att[q.step], q).done]}
  BY <1>6, <1>7
<1> QED
  BY <1>4, <1>8 DEF f

\* advance requests the next step or stops the run.
LEMMA AdvanceSteps ==
  ASSUME TypeOK, NEW q \in Request, Open(run, q),
         NEW r, Completes(run, q, r), CanAdvance(r, q.step), run' = Advance(r, q.step)
  PROVE  GoesOnAfter(q) \/ StopsAfter(q)
<1>1. r \in Run /\ q.step \in Step /\ r.status = "running"
  BY DEF Completes, Request, Open
<1>2. CASE GoesOn(r, q.step) /\ Advance(r, q.step) = RequestPlain(r, q.step + 1)
  <2>1. q.step + 1 \in Step /\ CanRequest(r, q.step + 1)
    BY <1>2 DEF GoesOn, CanAdvance
  <2>2. run' = RequestStep(r, q.step + 1, {}, r.opts.mode)
    BY <1>2 DEF RequestPlain
  <2>3. Requested(r, run', q.step + 1, {}, r.opts.mode)
    BY <1>1, <2>1, <2>2, RequestFields
  <2> QED
    BY <1>2, <2>1, <2>3 DEF GoesOnAfter
<1>3. CASE OverCap(r) /\ Advance(r, q.step) = Finish(r, "failed")
  BY <1>1, <1>3, FinishFields DEF StopsAfter
<1>4. CASE q.step + 1 \notin Step /\ Advance(r, q.step) = Finish(r, "completed")
  BY <1>1, <1>4, FinishFields DEF StopsAfter
<1>5. CASE Advance(r, q.step) = Await(r)
  BY <1>1, <1>5, AwaitFields DEF StopsAfter
<1> QED
  BY <1>2, <1>3, <1>4, <1>5, AdvanceCases

\* Every accepted answer is one of the three cases above.
LEMMA AnswerSteps ==
  ASSUME TypeOK, NEW q \in run.sent, Answer(q)
  PROVE  /\ q \in Request /\ q.step \in Step
         /\ charged' = charged \cup {q}
         /\ UNCHANGED history
         /\ GoesOnAfter(q) \/ StopsAfter(q) \/ Fills(q)
<1>1. q \in Request /\ q.step \in Step /\ Open(run, q) /\ run \in Run
  BY AnswerCases DEF Request, TypeOK
<1>2. ASSUME NEW c \in Nat, StepType[q.step] = "image", ~PanelsDone(Fill(run, q, c), q.step),
             run' = NextPanel(Fill(run, q, c), q.step)
      PROVE  Fills(q)
  BY <1>1, <1>2, PartialFields DEF Fills
<1>3. ASSUME NEW r, Completes(run, q, r), CanAdvance(r, q.step), run' = Advance(r, q.step)
      PROVE  GoesOnAfter(q) \/ StopsAfter(q)
  BY <1>1, <1>3, AdvanceSteps
<1> QED
  BY <1>1, <1>2, <1>3, AnswerCases

\* A user's request, field by field.
AskedFields(i, P, mode) ==
  /\ run'.opts = run.opts /\ run'.status = "running" /\ run'.cost = run.cost
  /\ run'.cur = i /\ run'.notices = run.notices
  /\ run'.version = [run.version EXCEPT ![i] = run.version[i] + 1]
  /\ run'.att = [run.att EXCEPT ![i] = NewAttempt(Resume(run), i, P, mode)]
  /\ run'.sent = run.sent \cup FirstRequests(Resume(run), i, P, mode)
  /\ \/ /\ regenerated' = regenerated
        /\ run'.stale = [run.stale EXCEPT ![i] = FALSE]
     \/ /\ regenerated' = regenerated \cup {<<i, run.version[i] + 1>>}
        /\ run'.stale = [j \in Step |-> [run.stale EXCEPT ![i] = FALSE][j] \/ j > i]

\* Asking for a step does what AskedFields says.
LEMMA AskSteps ==
  ASSUME TypeOK, NEW i \in Step, NEW P, NEW mode, Asks(i, P, mode)
  PROVE  AskedFields(i, P, mode)
<1> DEFINE t == RequestStep(Resume(run), i, P, mode)
<1>1. Resume(run) \in Run /\ t \in Run /\ run \in Run
  BY DEF Asks, TypeOK
<1>2. Requested(Resume(run), t, i, P, mode)
  BY <1>1, RequestFields
<1>3. /\ t.opts = run.opts /\ t.status = "running" /\ t.cost = run.cost
      /\ t.cur = i /\ t.notices = run.notices
      /\ t.version = [run.version EXCEPT ![i] = run.version[i] + 1]
      /\ t.att = [run.att EXCEPT ![i] = NewAttempt(Resume(run), i, P, mode)]
      /\ t.sent = run.sent \cup FirstRequests(Resume(run), i, P, mode)
      /\ t.stale = [run.stale EXCEPT ![i] = FALSE]
  BY <1>1, <1>2, ResumeFields DEF Requested
<1>4. \/ run' = t /\ regenerated' = regenerated
      \/ /\ run' = MarkStaleAfter(t, i)
         /\ regenerated' = regenerated \cup {<<i, run.version[i] + 1>>}
  BY DEF Asks
<1> HIDE DEF t
<1>5. CASE run' = t /\ regenerated' = regenerated
  BY <1>3, <1>5, ZenonT(40) DEF AskedFields
<1>6. CASE run' = MarkStaleAfter(t, i) /\ regenerated' = regenerated \cup {<<i, run.version[i] + 1>>}
  <2>1. /\ run'.opts = t.opts /\ run'.cost = t.cost /\ run'.cur = t.cur
        /\ run'.version = t.version /\ run'.att = t.att
        /\ run'.sent = t.sent /\ run'.notices = t.notices /\ run'.status = t.status
    BY <1>1, <1>6, MarkStaleFields, ZenonT(40)
  <2>2. run'.stale = [j \in Step |-> t.stale[j] \/ j > i]
    BY <1>1, <1>6, MarkStaleFields
  <2>3. run'.stale = [j \in Step |-> [run.stale EXCEPT ![i] = FALSE][j] \/ j > i]
    BY <1>3, <2>2, Zenon
  <2> QED
    BY <1>3, <1>6, <2>1, <2>3 DEF AskedFields
<1> QED
  BY <1>4, <1>5, <1>6

\* A failure, field by field.
LEMMA FailFields ==
  ASSUME NEW r \in Run, NEW i \in Step
  PROVE  LET t == Fail(r, i)
         IN  /\ t.opts = r.opts /\ t.cost = r.cost /\ t.cur = r.cur
             /\ t.version = r.version /\ t.stale = r.stale /\ t.sent = r.sent
             /\ t.att = [r.att EXCEPT ![i] = [r.att[i] EXCEPT !.status = "failed"]]
             /\ t.status = "failed" /\ t.notices = r.notices \cup {"failed"}
BY DEF Fail, Finish, Run

\* Every step leaves a running run with an open attempt.
LEMMA OpenNext ==
  TypeOK /\ RunningHasOpenAttempt /\ [Next]_vars => RunningHasOpenAttempt'
<1> SUFFICES ASSUME TypeOK, RunningHasOpenAttempt, [Next]_vars, run'.status = "running"
             PROVE  \E i \in Step : run'.att[i].status = "running"
  BY DEF RunningHasOpenAttempt
<1>1. run \in Run /\ run.att \in [Step -> Attempt]
  BY DEF TypeOK, Run
<1>2. ASSUME NEW q \in run.sent, Answer(q)
      PROVE  \E i \in Step : run'.att[i].status = "running"
  <2>1. CASE GoesOnAfter(q)
    <3>1. PICK r : r \in Run /\ q.step + 1 \in Step
                   /\ Requested(r, run', q.step + 1, {}, r.opts.mode)
      BY <2>1 DEF GoesOnAfter, Completes
    <3>2. r.att \in [Step -> Attempt]
      BY <3>1 DEF Run
    <3>3. run'.att[q.step + 1].status = "running"
      BY <3>1, <3>2, NewAttemptFields DEF Requested
    <3> QED
      BY <3>1, <3>3
  <2>2. CASE StopsAfter(q)
    BY <2>2 DEF StopsAfter
  <2>3. CASE Fills(q)
    <3>1. PICK i \in Step : run.att[i].status = "running"
      BY <2>3 DEF RunningHasOpenAttempt, Fills, Open
    <3> QED
      BY <1>1, <2>3, <3>1 DEF Fills
  <2> QED
    BY <1>2, <2>1, <2>2, <2>3, AnswerSteps
<1>3. ASSUME NEW q \in run.sent, RecordStepFailed(q)
      PROVE  FALSE
  <2>1. q.step \in Step
    BY <1>1 DEF Run, Request
  <2> QED
    BY <1>1, <1>3, <2>1, FailFields DEF RecordStepFailed
<1>4. ASSUME Commanded, ~Cancel
      PROVE  \E i \in Step : run'.att[i].status = "running"
  <2>1. PICK i \in Step, P \in SUBSET Panel, mode \in RefMode : Asks(i, P, mode)
    BY <1>4, CommandCases
  <2>2. run'.att[i] = NewAttempt(Resume(run), i, P, mode)
    <3>1. AskedFields(i, P, mode)
      BY <2>1, AskSteps
    <3> QED
      BY <1>1, <3>1 DEF AskedFields
  <2> QED
    BY <2>2, NewAttemptFields
<1>5. ASSUME Cancel
      PROVE  FALSE
  BY <1>1, <1>5, FinishFields DEF Cancel
<1>6. CASE UNCHANGED vars
  BY <1>6 DEF vars, RunningHasOpenAttempt
<1> QED
  BY <1>2, <1>3, <1>4, <1>5, <1>6 DEF Next, Answered, Commanded

\* Nothing but a worker's answer is needed to move a running run, and one is owed:
\* PipelineRun.RunningHasOpenAttempt.
THEOREM RunningIsOpen == Spec => []RunningHasOpenAttempt
<1>1. Init => RunningHasOpenAttempt
  <2> SUFFICES ASSUME Init PROVE run.att[0].status = "running" /\ 0 \in Step
    BY DEF RunningHasOpenAttempt
  <2>1. PICK o \in RunOptions : run = StartedRun(o)
    BY OptionsAssumption DEF Init
  <2> QED
    BY <2>1, StartedFields
<1>2. TypeOK /\ RunningHasOpenAttempt /\ [Next]_vars => RunningHasOpenAttempt'
  BY OpenNext
<1> QED
  BY <1>1, <1>2, TypeCorrect, PTL DEF Spec

\* A failure report fails the attempt and the run.
FailsAt(i) ==
  /\ run'.opts = run.opts /\ run'.cost = run.cost /\ run'.cur = run.cur
  /\ run'.version = run.version /\ run'.stale = run.stale /\ run'.sent = run.sent
  /\ run'.att = [run.att EXCEPT ![i] = [run.att[i] EXCEPT !.status = "failed"]]
  /\ run'.att[i].status = "failed"
  /\ run'.status = "failed" /\ run'.notices = run.notices \cup {"failed"}

\* RecordStepFailed does what FailsAt says.
LEMMA FailSteps ==
  ASSUME TypeOK, NEW q \in run.sent, RecordStepFailed(q)
  PROVE  q.step \in Step /\ FailsAt(q.step) /\ UNCHANGED <<charged, history>>
<1>1. run \in Run /\ q.step \in Step
  BY DEF TypeOK, Run, Request
<1>2. run.att \in [Step -> Attempt]
  BY <1>1 DEF Run
<1>3. run.att[q.step] \in Attempt
  BY <1>1, <1>2
<1>4. [run.att[q.step] EXCEPT !.status = "failed"].status = "failed"
  BY <1>3 DEF Attempt
<1>5. run' = Fail(run, q.step) /\ UNCHANGED <<charged, history>>
  BY DEF RecordStepFailed
<1> QED
  BY <1>1, <1>2, <1>4, <1>5, FailFields, ZenonT(40) DEF FailsAt

\* Cancelling changes the status and announces it.
CancelsRun ==
  /\ run'.opts = run.opts /\ run'.cost = run.cost /\ run'.cur = run.cur
  /\ run'.version = run.version /\ run'.stale = run.stale /\ run'.sent = run.sent
  /\ run'.att = run.att
  /\ run'.status = "cancelled" /\ run'.notices = run.notices \cup {"cancelled"}
  /\ UNCHANGED <<charged, history>>

\* Cancel does what CancelsRun says.
LEMMA CancelSteps ==
  ASSUME TypeOK, Cancel
  PROVE  CancelsRun
BY FinishFields DEF Cancel, CancelsRun, TypeOK

\* Every step that ends a run has a reason and announces it.
LEMMA EndsNext ==
  TypeOK /\ EndsForAReason /\ [Next]_vars => EndsForAReason'
<1> SUFFICES ASSUME TypeOK, EndsForAReason, [Next]_vars
             PROVE  EndsForAReason'
  OBVIOUS
<1>1. run \in Run
  BY DEF TypeOK
<1>2. ASSUME NEW q \in run.sent, Answer(q)
      PROVE  EndsForAReason'
  <2>1. CASE GoesOnAfter(q)
    <3>1. run'.status = "running"
      BY <2>1 DEF GoesOnAfter, Completes, Requested, Open
    <3> QED
      BY <3>1 DEF EndsForAReason, Notice
  <2>2. CASE StopsAfter(q)
    <3>1. q.step \in Step
      BY <1>2, AnswerSteps
    <3>2. PICK r : /\ Completes(run, q, r) /\ run'.opts = r.opts /\ run'.cost = r.cost
                   /\ run'.att = r.att
                   /\ \/ run'.status = "awaiting_action"
                      \/ /\ run'.status = "failed" /\ OverCap(r)
                         /\ run'.notices = r.notices \cup {"failed"}
                      \/ /\ run'.status = "completed" /\ q.step + 1 \notin Step
                         /\ run'.notices = r.notices \cup {"completed"}
      BY <2>2 DEF StopsAfter
    <3>3. run'.status = "failed" => OverCap(run')
      BY <3>2 DEF OverCap
    <3>4. run'.status = "completed" => run'.att[StepCount - 1].status = "completed"
      <4>1. q.step + 1 \notin Step => q.step = StepCount - 1
        BY <3>1, TemplateAssumption DEF Step
      <4> QED
        BY <3>2, <4>1 DEF Completes
    <3>5. run'.status \in Notice => run'.status \in run'.notices
      BY <3>2 DEF Notice
    <3> QED
      BY <3>3, <3>4, <3>5 DEF EndsForAReason
  <2>3. CASE Fills(q)
    <3>1. run'.status = "running"
      BY <2>3 DEF Fills, Open
    <3> QED
      BY <3>1 DEF EndsForAReason, Notice
  <2> QED
    BY <1>2, <2>1, <2>2, <2>3, AnswerSteps
<1>3. ASSUME NEW q \in run.sent, RecordStepFailed(q)
      PROVE  EndsForAReason'
  BY <1>3, FailSteps DEF FailsAt, EndsForAReason, Notice
<1>4. ASSUME Commanded, ~Cancel
      PROVE  EndsForAReason'
  <2>1. PICK i \in Step, P \in SUBSET Panel, mode \in RefMode : Asks(i, P, mode)
    BY <1>4, CommandCases
  <2>2. AskedFields(i, P, mode)
    BY <2>1, AskSteps
  <2> QED
    BY <2>2 DEF AskedFields, EndsForAReason, Notice
<1>5. ASSUME Cancel
      PROVE  EndsForAReason'
  BY <1>5, CancelSteps DEF CancelsRun, EndsForAReason, Notice
<1>6. CASE UNCHANGED vars
  BY <1>6 DEF vars, EndsForAReason, OverCap
<1> QED
  BY <1>2, <1>3, <1>4, <1>5, <1>6 DEF Next, Answered, Commanded

\* A run ends for a reason that can be read off its steps: PipelineRun.EndsForAReason.
THEOREM EndsWithReason == Spec => []EndsForAReason
<1>1. Init => EndsForAReason
  <2> SUFFICES ASSUME Init PROVE run.status = "running"
    BY DEF EndsForAReason, Notice
  <2>1. PICK o \in RunOptions : run = StartedRun(o)
    BY OptionsAssumption DEF Init
  <2> QED
    BY <2>1, StartedFields
<1>2. TypeOK /\ EndsForAReason /\ [Next]_vars => EndsForAReason'
  BY EndsNext
<1> QED
  BY <1>1, <1>2, TypeCorrect, PTL DEF Spec

-----------------------------------------------------------------------------
(* Gates: what only a user may start *)

\* The requests of a new attempt are for its step and version.
LEMMA FirstRequestsAre ==
  ASSUME NEW r, NEW i, NEW P, NEW mode, NEW x \in FirstRequests(r, i, P, mode)
  PROVE  x.step = i /\ x.version = r.version[i] + 1
BY DEF FirstRequests

\* No answer starts a gated step.
LEMMA GatedNext ==
  TypeOK /\ GatedStepsAreCommanded /\ [Next]_vars => GatedStepsAreCommanded'
<1> SUFFICES ASSUME TypeOK, GatedStepsAreCommanded, [Next]_vars,
                    NEW x \in run'.sent, Reserved(run'.opts, x.step)
             PROVE  <<x.step, x.version>> \in commanded'
  BY DEF GatedStepsAreCommanded
<1>1. run \in Run
  BY DEF TypeOK
<1>2. ASSUME x \in run.sent, run'.opts = run.opts, commanded \subseteq commanded'
      PROVE  <<x.step, x.version>> \in commanded'
  BY <1>2 DEF GatedStepsAreCommanded
<1>3. ASSUME NEW q \in run.sent, Answer(q)
      PROVE  <<x.step, x.version>> \in commanded'
  <2>1. commanded' = commanded
    BY <1>3, AnswerSteps DEF history
  <2>2. CASE GoesOnAfter(q)
    <3>1. PICK r : Completes(run, q, r) /\ GoesOn(r, q.step)
                   /\ Requested(r, run', q.step + 1, {}, r.opts.mode)
      BY <2>2 DEF GoesOnAfter
    <3>2. run'.opts = run.opts /\ r.opts = run.opts
          /\ run'.sent = run.sent \cup FirstRequests(r, q.step + 1, {}, r.opts.mode)
      BY <3>1 DEF Completes, Requested
    <3>3. ~Reserved(run'.opts, q.step + 1)
      BY <3>1, <3>2 DEF Reserved, GoesOn, AssembleGate, ReviewGate
    <3>4. x \notin FirstRequests(r, q.step + 1, {}, r.opts.mode)
      BY <3>3, FirstRequestsAre
    <3> QED
      BY <1>2, <2>1, <3>2, <3>4
  <2>3. CASE StopsAfter(q)
    BY <1>2, <2>1, <2>3 DEF StopsAfter, Completes
  <2>4. CASE Fills(q)
    <3>1. x \in run.sent \/ StepType[x.step] = "image"
      BY <2>4 DEF Fills
    <3> QED
      BY <1>2, <2>1, <2>4, <3>1 DEF Fills, Reserved
  <2> QED
    BY <1>3, <2>2, <2>3, <2>4, AnswerSteps
<1>4. ASSUME NEW q \in run.sent, RecordStepFailed(q)
      PROVE  <<x.step, x.version>> \in commanded'
  BY <1>2, <1>4, FailSteps DEF FailsAt, history
<1>5. ASSUME Commanded, ~Cancel
      PROVE  <<x.step, x.version>> \in commanded'
  <2>1. PICK i \in Step, P \in SUBSET Panel, mode \in RefMode : Asks(i, P, mode)
    BY <1>5, CommandCases
  <2>2. AskedFields(i, P, mode)
    BY <2>1, AskSteps
  <2>3. commanded' = commanded \cup {<<i, run.version[i] + 1>>}
    BY <2>1 DEF Asks
  <2>4. Resume(run).version = run.version
    BY <1>1, ResumeFields
  <2>5. CASE x \in FirstRequests(Resume(run), i, P, mode)
    BY <2>3, <2>4, <2>5, FirstRequestsAre
  <2>6. CASE x \in run.sent
    BY <1>2, <2>2, <2>3, <2>6 DEF AskedFields
  <2> QED
    BY <2>2, <2>5, <2>6 DEF AskedFields
<1>6. ASSUME Cancel
      PROVE  <<x.step, x.version>> \in commanded'
  BY <1>2, <1>6, CancelSteps DEF CancelsRun, history
<1>7. CASE UNCHANGED vars
  BY <1>2, <1>7 DEF vars
<1> QED
  BY <1>3, <1>4, <1>5, <1>6, <1>7 DEF Next, Answered, Commanded

\* Requests for the gated steps all go back to a command: PipelineRun.GatedStepsAreCommanded.
THEOREM GatesHold == Spec => []GatedStepsAreCommanded
<1>1. Init => GatedStepsAreCommanded
  <2> SUFFICES ASSUME Init, NEW x \in run.sent PROVE StepType[x.step] = "script"
    BY DEF GatedStepsAreCommanded, Reserved
  <2>1. PICK o \in RunOptions : run = StartedRun(o)
    BY OptionsAssumption DEF Init
  <2>2. x = [step |-> 0, version |-> 1, panel |-> 0]
    <3>1. run.sent = {[step |-> 0, version |-> 1, panel |-> 0]}
      BY <2>1, StartedFields
    <3> QED
      BY <3>1
  <2> QED
    BY <2>2, TemplateAssumption
<1>2. TypeOK /\ GatedStepsAreCommanded /\ [Next]_vars => GatedStepsAreCommanded'
  BY GatedNext
<1> QED
  BY <1>1, <1>2, TypeCorrect, PTL DEF Spec

-----------------------------------------------------------------------------
(* The cost cap and the staleness of later steps *)

\* Every version a user asked for exists.  The two properties below need it: a version
\* an answer starts is none of those.
CommandsSeen ==
  /\ \A i \in Step, v \in Nat : <<i, v>> \in commanded => v <= run.version[i]
  /\ regenerated \subseteq commanded

\* How a step changes the versions, and what it records of commands.
LEMMA VersionSteps ==
  ASSUME TypeOK, [Next]_vars
  PROVE  \/ /\ run'.version = run.version
            /\ commanded' = commanded /\ regenerated' = regenerated
         \/ /\ \E k \in Step : run'.version = [run.version EXCEPT ![k] = run.version[k] + 1]
            /\ commanded' = commanded /\ regenerated' = regenerated
            /\ \E q \in run.sent : Answer(q) /\ GoesOnAfter(q)
         \/ \E k \in Step :
              /\ run'.version = [run.version EXCEPT ![k] = run.version[k] + 1]
              /\ commanded' = commanded \cup {<<k, run.version[k] + 1>>}
              /\ regenerated' \subseteq regenerated \cup {<<k, run.version[k] + 1>>}
<1>1. ASSUME NEW q \in run.sent, Answer(q)
      PROVE  /\ commanded' = commanded /\ regenerated' = regenerated
             /\ \/ run'.version = run.version
                \/ /\ GoesOnAfter(q)
                   /\ \E k \in Step : run'.version = [run.version EXCEPT ![k] = run.version[k] + 1]
  <2>1. commanded' = commanded /\ regenerated' = regenerated
    BY <1>1, AnswerSteps DEF history
  <2>2. ASSUME GoesOnAfter(q)
        PROVE  \E k \in Step : run'.version = [run.version EXCEPT ![k] = run.version[k] + 1]
    BY <2>2 DEF GoesOnAfter, Completes, Requested
  <2>3. StopsAfter(q) => run'.version = run.version
    BY DEF StopsAfter, Completes
  <2>4. Fills(q) => run'.version = run.version
    BY DEF Fills
  <2> QED
    BY <1>1, <2>1, <2>2, <2>3, <2>4, AnswerSteps
<1>2. ASSUME NEW q \in run.sent, RecordStepFailed(q)
      PROVE  run'.version = run.version /\ commanded' = commanded /\ regenerated' = regenerated
  BY <1>2, FailSteps DEF FailsAt, history
<1>3. ASSUME Commanded, ~Cancel
      PROVE  \E k \in Step :
               /\ run'.version = [run.version EXCEPT ![k] = run.version[k] + 1]
               /\ commanded' = commanded \cup {<<k, run.version[k] + 1>>}
               /\ regenerated' \subseteq regenerated \cup {<<k, run.version[k] + 1>>}
  <2>1. PICK i \in Step, P \in SUBSET Panel, mode \in RefMode : Asks(i, P, mode)
    BY <1>3, CommandCases
  <2>2. AskedFields(i, P, mode)
    BY <2>1, AskSteps
  <2> QED
    BY <2>1, <2>2 DEF Asks, AskedFields
<1>4. ASSUME Cancel
      PROVE  run'.version = run.version /\ commanded' = commanded /\ regenerated' = regenerated
  BY <1>4, CancelSteps DEF CancelsRun, history
<1>5. CASE UNCHANGED vars
  BY <1>5 DEF vars
<1> QED
  BY <1>1, <1>2, <1>3, <1>4, <1>5 DEF Next, Answered, Commanded

\* Every step keeps CommandsSeen: versions only grow, and a command records the one it made.
LEMMA SeenNext == TypeOK /\ CommandsSeen /\ [Next]_vars => CommandsSeen'
<1> SUFFICES ASSUME TypeOK, CommandsSeen, [Next]_vars
             PROVE  CommandsSeen'
  OBVIOUS
<1>1. run.version \in [Step -> Nat]
  BY DEF TypeOK, Run
<1>2. CASE run'.version = run.version /\ commanded' = commanded /\ regenerated' = regenerated
  BY <1>2 DEF CommandsSeen
<1>3. ASSUME NEW k \in Step, run'.version = [run.version EXCEPT ![k] = run.version[k] + 1],
             commanded' = commanded, regenerated' = regenerated
      PROVE  CommandsSeen'
  BY <1>1, <1>3 DEF CommandsSeen
<1>4. ASSUME NEW k \in Step, run'.version = [run.version EXCEPT ![k] = run.version[k] + 1],
             commanded' = commanded \cup {<<k, run.version[k] + 1>>},
             regenerated' \subseteq regenerated \cup {<<k, run.version[k] + 1>>}
      PROVE  CommandsSeen'
  BY <1>1, <1>4 DEF CommandsSeen
<1> QED
  BY <1>2, <1>3, <1>4, VersionSteps

\* Every version a user asked for exists in the run.
THEOREM Seen == Spec => [](TypeOK /\ CommandsSeen)
<1>1. Init => CommandsSeen
  BY DEF Init, CommandsSeen
<1>2. TypeOK /\ CommandsSeen /\ [Next]_vars => CommandsSeen'
  BY SeenNext
<1> QED
  BY <1>1, <1>2, TypeCorrect, PTL DEF Spec

\* A run over its cap starts nothing by itself: PipelineRun.CapStopsAnswers.
THEOREM CapHolds == Spec => CapStopsAnswers
<1>1. TypeOK /\ CommandsSeen /\ [Next]_vars =>
        ((\E i \in Step : run'.version[i] > run.version[i]) /\ UNCHANGED commanded
           => run'.opts.cap = 0 \/ run'.cost <= run'.opts.cap)
  <2> SUFFICES ASSUME TypeOK, CommandsSeen, [Next]_vars, UNCHANGED commanded,
                      NEW i \in Step, run'.version[i] > run.version[i]
               PROVE  run'.opts.cap = 0 \/ run'.cost <= run'.opts.cap
    OBVIOUS
  <2>1. run.version \in [Step -> Nat]
    BY DEF TypeOK, Run
  <2>2. ASSUME NEW k \in Step, commanded' = commanded \cup {<<k, run.version[k] + 1>>}
        PROVE  FALSE
    <3>1. run.version[k] + 1 \in Nat /\ ~(run.version[k] + 1 <= run.version[k])
      BY <2>1
    <3> QED
      BY <2>2, <3>1 DEF CommandsSeen
  <2>3. run'.version # run.version
    BY <2>1
  <2>4. PICK q \in run.sent : GoesOnAfter(q)
    BY <2>2, <2>3, VersionSteps
  <2>5. PICK r : r \in Run /\ ~OverCap(r) /\ run'.opts = r.opts /\ run'.cost = r.cost
    BY <2>4 DEF GoesOnAfter, Completes, GoesOn, Requested
  <2>6. r.opts.cap \in Nat /\ r.cost \in Nat
    BY <2>5 DEF Run, RunOptions
  <2> QED
    BY <2>5, <2>6 DEF OverCap
<1> QED
  BY <1>1, Seen, PTL DEF Spec, CapStopsAnswers

\* Step k is requested again: by an answer or a plain command, which regenerated
\* nothing, or by RegenerateStep, which flags every later step.
Restarts(k) ==
  /\ run'.version = [run.version EXCEPT ![k] = run.version[k] + 1]
  /\ run'.att[k].upstream = UpstreamVersions(run, k)
  /\ \A j \in Step : j # k => run'.att[j].upstream = run.att[j].upstream
  /\ \A j \in Step : j # k /\ run.stale[j] => run'.stale[j]
  /\ \/ regenerated' = regenerated
     \/ /\ regenerated' = regenerated \cup {<<k, run.version[k] + 1>>}
        /\ \A j \in Step : j > k => run'.stale[j]

\* No step is requested.
RestartsNone ==
  /\ run'.version = run.version /\ run'.stale = run.stale
  /\ regenerated' = regenerated
  /\ \A j \in Step : run'.att[j].upstream = run.att[j].upstream

\* Every step of the specification requests one step again, or none.
LEMMA RestartSteps ==
  ASSUME TypeOK, [Next]_vars
  PROVE  RestartsNone \/ \E k \in Step : Restarts(k)
<1>1. run \in Run /\ run.att \in [Step -> Attempt] /\ run.stale \in [Step -> BOOLEAN]
  BY DEF TypeOK, Run
<1>2. ASSUME NEW q \in run.sent, Answer(q)
      PROVE  RestartsNone \/ \E k \in Step : Restarts(k)
  <2>1. q.step \in Step /\ regenerated' = regenerated
    BY <1>2, AnswerSteps DEF history
  <2>2. ASSUME NEW r, Completes(run, q, r)
        PROVE  \A j \in Step : r.att[j].upstream = run.att[j].upstream
    BY <2>1, <2>2 DEF Completes
  <2>3. CASE GoesOnAfter(q)
    <3>1. PICK r : Completes(run, q, r) /\ q.step + 1 \in Step
                   /\ Requested(r, run', q.step + 1, {}, r.opts.mode)
      BY <2>3 DEF GoesOnAfter
    <3> DEFINE k == q.step + 1
    <3>2. /\ run'.att = [r.att EXCEPT ![k] = NewAttempt(r, k, {}, r.opts.mode)]
          /\ run'.version = [run.version EXCEPT ![k] = run.version[k] + 1]
          /\ run'.stale = [run.stale EXCEPT ![k] = FALSE]
          /\ r.att \in [Step -> Attempt] /\ r.version = run.version
      BY <3>1 DEF Requested, Completes, Run
    <3>3. NewAttempt(r, k, {}, r.opts.mode).upstream = UpstreamVersions(run, k)
      BY <3>2, NewAttemptFields DEF UpstreamVersions
    <3> HIDE DEF k
    <3>4. k \in Step
      BY <3>1 DEF k
    <3>5. run'.att[k].upstream = UpstreamVersions(run, k)
      BY <3>2, <3>3, <3>4
    <3>6. \A j \in Step : j # k => run'.att[j].upstream = run.att[j].upstream
      BY <2>2, <3>1, <3>2
    <3>7. \A j \in Step : j # k /\ run.stale[j] => run'.stale[j]
      BY <1>1, <3>2, Zenon
    <3> QED
      BY <2>1, <3>2, <3>4, <3>5, <3>6, <3>7 DEF Restarts
  <2>4. CASE StopsAfter(q)
    <3>1. PICK r : /\ Completes(run, q, r) /\ run'.att = r.att
                   /\ run'.version = r.version /\ run'.stale = r.stale
      BY <2>4 DEF StopsAfter
    <3> QED
      BY <2>1, <2>2, <3>1 DEF RestartsNone, Completes
  <2>5. CASE Fills(q)
    BY <1>1, <2>1, <2>5 DEF Fills, RestartsNone
  <2> QED
    BY <1>2, <2>3, <2>4, <2>5, AnswerSteps
<1>3. ASSUME NEW q \in run.sent, RecordStepFailed(q)
      PROVE  RestartsNone
  <2>1. q.step \in Step /\ FailsAt(q.step) /\ regenerated' = regenerated
    BY <1>3, FailSteps DEF history
  <2>2. [run.att[q.step] EXCEPT !.status = "failed"].upstream = run.att[q.step].upstream
    BY <1>1, <2>1 DEF Attempt
  <2> QED
    BY <1>1, <2>1, <2>2 DEF FailsAt, RestartsNone
<1>4. ASSUME Commanded, ~Cancel
      PROVE  \E k \in Step : Restarts(k)
  <2>1. PICK i \in Step, P \in SUBSET Panel, mode \in RefMode : Asks(i, P, mode)
    BY <1>4, CommandCases
  <2>2. AskedFields(i, P, mode)
    BY <2>1, AskSteps
  <2>3. /\ run'.version = [run.version EXCEPT ![i] = run.version[i] + 1]
        /\ run'.att = [run.att EXCEPT ![i] = NewAttempt(Resume(run), i, P, mode)]
    BY <2>2 DEF AskedFields
  <2>4. NewAttempt(Resume(run), i, P, mode).upstream = UpstreamVersions(run, i)
    BY <1>1, NewAttemptFields, ResumeFields DEF UpstreamVersions
  <2>5. /\ run'.att[i].upstream = UpstreamVersions(run, i)
        /\ \A j \in Step : j # i => run'.att[j].upstream = run.att[j].upstream
    BY <1>1, <2>3, <2>4
  <2>6. CASE regenerated' = regenerated /\ run'.stale = [run.stale EXCEPT ![i] = FALSE]
    <3>1. \A j \in Step : j # i /\ run.stale[j] => run'.stale[j]
      BY <1>1, <2>6, Zenon
    <3> QED
      BY <2>3, <2>5, <2>6, <3>1 DEF Restarts
  <2>7. CASE /\ regenerated' = regenerated \cup {<<i, run.version[i] + 1>>}
             /\ run'.stale = [j \in Step |-> [run.stale EXCEPT ![i] = FALSE][j] \/ j > i]
    <3>1. \A j \in Step : j # i /\ run.stale[j] => run'.stale[j]
      BY <1>1, <2>7, Zenon
    <3>2. \A j \in Step : j > i => run'.stale[j]
      BY <2>7, Zenon
    <3> QED
      BY <2>3, <2>5, <2>7, <3>1, <3>2 DEF Restarts
  <2> QED
    BY <2>2, <2>6, <2>7 DEF AskedFields
<1>5. ASSUME Cancel
      PROVE  RestartsNone
  BY <1>5, CancelSteps DEF CancelsRun, RestartsNone, history
<1>6. CASE UNCHANGED vars
  BY <1>6 DEF vars, RestartsNone
<1> QED
  BY <1>2, <1>3, <1>4, <1>5, <1>6 DEF Next, Answered, Commanded

\* Staleness is kept by every step: what a step is requested from is what its attempt
\* records, and only RegenerateStep makes a version that counts as regenerated.
LEMMA StaleNext ==
  TypeOK /\ CommandsSeen /\ RegenerateFlagsDownstream /\ [Next]_vars
    => RegenerateFlagsDownstream'
<1> SUFFICES ASSUME TypeOK, CommandsSeen, RegenerateFlagsDownstream, [Next]_vars,
                    NEW i \in Step, NEW j \in Step, i < j,
                    <<i, run'.version[i]>> \in regenerated', run'.version[j] > 0,
                    run'.att[j].upstream[i] < run'.version[i]
             PROVE  run'.stale[j]
  BY DEF RegenerateFlagsDownstream
<1>1. run.version \in [Step -> Nat] /\ i # j
  BY TemplateAssumption DEF TypeOK, Run, Step
<1>2. CASE RestartsNone
  BY <1>2 DEF RestartsNone, RegenerateFlagsDownstream
<1>3. ASSUME NEW k \in Step, Restarts(k)
      PROVE  run'.stale[j]
  <2>1. CASE k = j
    <3>1. run'.version[i] = run.version[i] /\ run'.att[j].upstream[i] = run.version[i]
      BY <1>1, <1>3, <2>1 DEF Restarts, UpstreamVersions
    <3>2. run.version[i] \in Nat
      BY <1>1
    <3> QED
      BY <3>1, <3>2
  <2>2. CASE k = i
    <3>1. run'.version[i] = run.version[i] + 1 /\ run.version[i] \in Nat
      BY <1>1, <1>3, <2>2 DEF Restarts
    <3>2. ~(run.version[i] + 1 <= run.version[i]) /\ run.version[i] + 1 \in Nat
      BY <3>1
    <3>3. <<i, run.version[i] + 1>> \notin regenerated
      BY <3>2 DEF CommandsSeen
    <3>4. CASE regenerated' = regenerated
      BY <3>1, <3>3, <3>4
    <3>5. CASE \A m \in Step : m > k => run'.stale[m]
      <4>1. j > k
        BY <2>2, TemplateAssumption DEF Step
      <4> QED
        BY <3>5, <4>1
    <3> QED
      BY <1>3, <3>4, <3>5 DEF Restarts
  <2>3. CASE k # i /\ k # j
    <3>1. /\ run'.version[i] = run.version[i] /\ run'.version[j] = run.version[j]
          /\ run'.att[j].upstream = run.att[j].upstream
          /\ run.stale[j] => run'.stale[j]
      BY <1>1, <1>3, <2>3 DEF Restarts
    <3>2. <<i, run.version[i]>> \in regenerated
      BY <1>3, <2>3, <3>1 DEF Restarts
    <3>3. run.stale[j]
      BY <3>1, <3>2 DEF RegenerateFlagsDownstream
    <3> QED
      BY <3>1, <3>3
  <2> QED
    BY <2>1, <2>2, <2>3
<1> QED
  BY <1>2, <1>3, RestartSteps

\* A step made from an older version of a regenerated one is flagged:
\* PipelineRun.RegenerateFlagsDownstream.
THEOREM RegenerateFlags == Spec => []RegenerateFlagsDownstream
<1>1. Init => RegenerateFlagsDownstream
  BY DEF Init, RegenerateFlagsDownstream
<1>2. TypeOK /\ CommandsSeen /\ RegenerateFlagsDownstream /\ [Next]_vars
        => RegenerateFlagsDownstream'
  BY StaleNext
<1> QED
  BY <1>1, <1>2, Seen, PTL DEF Spec
=============================================================================
