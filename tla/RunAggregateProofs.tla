------------------------- MODULE RunAggregateProofs -------------------------
(* The operators of the Run aggregate return runs. *)
EXTENDS RunAggregate, FiniteSetTheorems, WellFoundedInduction, TLAPS

\* A nonempty set of steps has a last one.
LEMMA LastStep ==
  ASSUME NEW S \in SUBSET Step, S # {}
  PROVE  Max(S) \in S /\ \A j \in S : j <= Max(S)
<1> DEFINE T == {n \in Nat : StepCount - n \in S}
<1>1. PICK j \in S : TRUE
  OBVIOUS
<1>2. StepCount - j \in T
  <2>1. j \in Int /\ StepCount - j \in Nat /\ StepCount - (StepCount - j) = j
    BY TemplateAssumption DEF Step
  <2> QED
    BY <2>1
<1>3. PICK m \in T : \A n \in T : ~(<<n, m>> \in OpToRel(<, Nat))
  <2>1. T \subseteq Nat /\ T # {}
    BY <1>2
  <2> HIDE DEF T
  <2> QED
    BY <2>1, NatLessThanWellFounded, WFMin
<1>4. \A n \in Nat : n < m => <<n, m>> \in OpToRel(<, Nat)
  BY <1>3 DEF OpToRel
<1>5. \A k \in S : StepCount - m >= k
  <2> SUFFICES ASSUME NEW k \in S PROVE StepCount - m >= k
    OBVIOUS
  <2>1. k \in Int /\ StepCount - k \in Nat /\ StepCount - (StepCount - k) = k
    BY TemplateAssumption DEF Step
  <2>2. StepCount - k \in T
    BY <2>1
  <2>3. ~(StepCount - k < m)
    BY <1>3, <1>4, <2>1, <2>2
  <2> QED
    <3>1. m \in Nat /\ StepCount \in Nat
      BY TemplateAssumption
    <3> QED
      BY <2>1, <2>3, <3>1
<1>6. StepCount - m \in S
  BY <1>3
<1>7. Max(S) \in S /\ \A k \in S : Max(S) >= k
  BY <1>5, <1>6 DEF Max
<1> QED
  BY <1>7, TemplateAssumption DEF Step

\* findStepIndex finds a step of the type it looks for where there is one.
LEMMA FirstOfFound ==
  ASSUME NEW kind, HasStep(kind)
  PROVE  FirstOf(kind) \in Step /\ StepType[FirstOf(kind)] = kind
<1> DEFINE T == {i \in Step : StepType[i] = kind}
<1>1. T \subseteq Nat /\ T # {}
  BY TemplateAssumption DEF HasStep, Step
<1>2. PICK m \in T : \A n \in T : ~(<<n, m>> \in OpToRel(<, Nat))
  <2> HIDE DEF T
  <2> QED
    BY <1>1, NatLessThanWellFounded, WFMin
<1>3. \A n \in T : n < m => <<n, m>> \in OpToRel(<, Nat)
  BY <1>1, <1>2 DEF OpToRel
<1>4. \A n \in T : ~(n < m)
  BY <1>2, <1>3
<1>5. \A n \in T : m <= n
  BY <1>1, <1>4
<1>6. m \in Step /\ StepType[m] = kind /\ \A j \in Step : StepType[j] = kind => m <= j
  BY <1>5
<1> QED
  BY <1>6 DEF FirstOf

\* Where a completed step of a kind exists before step i, Source finds one.
LEMMA SourceFound ==
  ASSUME NEW r \in Run, NEW kind, NEW i, Sources(r, kind, i) # {}
  PROVE  Source(r, kind, i) \in Sources(r, kind, i) /\ Source(r, kind, i) \in Step
<1>1. Sources(r, kind, i) \subseteq Step
  BY DEF Sources
<1> QED
  BY <1>1, LastStep DEF Source

\* The panels of a script are finitely many, so the number of seeded slots is a number.
LEMMA SeededCount ==
  ASSUME NEW r, NEW i, NEW P
  PROVE  /\ Seeded(r, i, P) \subseteq Panel
         /\ IsFiniteSet(Panel)
         /\ Cardinality(Seeded(r, i, P)) \in Nat
<1>1. Seeded(r, i, P) \subseteq Panel
  BY DEF Seeded
<1>2. IsFiniteSet(Panel)
  BY PanelsAssumption, FS_Interval DEF Panel
<1>3. IsFiniteSet(Seeded(r, i, P))
  BY <1>1, <1>2, FS_Subset
<1> QED
  BY <1>1, <1>2, <1>3, FS_CardinalityType

\* What a new attempt is made of.
LEMMA AttemptInputs ==
  ASSUME NEW r \in Run, NEW i \in Step, CanRequest(r, i)
  PROVE  /\ Expected(r, i) \in 0..MaxPanels
         /\ RequestInput(r, i) \in Slots
         /\ StepType[i] = "assemble" => r.att[Source(r, "image", i)].expected \in 0..MaxPanels
<1>1. ASSUME NEW kind \in Needs(i)
      PROVE  Source(r, kind, i) \in Step
  BY <1>1, SourceFound DEF CanRequest
<1>2. ASSUME NEW j \in Step
      PROVE  r.att[j].panels \in 0..MaxPanels /\ r.att[j].expected \in 0..MaxPanels
             /\ r.att[j].out \in Slots
  BY DEF Run, Attempt
<1>3. NoSlots \in Slots
  BY DEF NoSlots, Slots
<1>4. StepType[i] = "image" => Source(r, "script", i) \in Step
  BY <1>1 DEF Needs
<1>5. StepType[i] = "assemble" => Source(r, "image", i) \in Step
  BY <1>1 DEF Needs
<1>6. StepType[i] = "upload" => Source(r, "assemble", i) \in Step
  BY <1>1 DEF Needs
<1>7. Expected(r, i) \in 0..MaxPanels
  BY <1>2, <1>4, PanelsAssumption DEF Expected
<1>8. RequestInput(r, i) \in Slots
  BY <1>2, <1>3, <1>5, <1>6 DEF RequestInput
<1> QED
  BY <1>2, <1>5, <1>7, <1>8

\* A new attempt is an attempt.
LEMMA NewAttemptType ==
  ASSUME NEW r \in Run, NEW i \in Step, NEW P, NEW mode \in RefMode, CanRequest(r, i)
  PROVE  NewAttempt(r, i, P, mode) \in Attempt
<1>1. [p \in Panel |-> IF p \in Seeded(r, i, P) THEN r.att[i].out[p] ELSE 0] \in Slots
  BY DEF Run, Attempt, Slots
<1>2. UpstreamVersions(r, i) \in [Step -> Nat]
  BY DEF UpstreamVersions, Run
<1>3. (IF StepType[i] = "assemble" THEN r.att[Source(r, "image", i)].expected ELSE 0)
        \in 0..MaxPanels
  BY AttemptInputs, PanelsAssumption
<1>4. (IF StepType[i] = "image" THEN mode ELSE "none") \in RefMode
  BY DEF RefMode
<1> QED
  BY <1>1, <1>2, <1>3, <1>4, AttemptInputs, SeededCount DEF NewAttempt, Attempt

\* Requesting a step leaves a run, and so does requesting it without overrides.
LEMMA RequestStepType ==
  ASSUME NEW r \in Run, NEW i \in Step, NEW P, NEW mode \in RefMode, CanRequest(r, i)
  PROVE  RequestStep(r, i, P, mode) \in Run
<1>1. FirstPanels(r, i, P, mode) \subseteq Panel
  BY PanelsAssumption DEF FirstPanels, Panel
<1>2. r.version[i] + 1 \in Nat
  BY DEF Run
<1>3. FirstRequests(r, i, P, mode) \subseteq Request
  BY <1>1, <1>2 DEF FirstRequests, Request
<1>4. NewAttempt(r, i, P, mode) \in Attempt
  BY NewAttemptType
<1> QED
  BY <1>2, <1>3, <1>4 DEF RequestStep, Run

\* A request without overrides leaves a run.
LEMMA RequestPlainType ==
  ASSUME NEW r \in Run, NEW i \in Step, CanRequest(r, i)
  PROVE  RequestPlain(r, i) \in Run
<1>1. r.opts.mode \in RefMode
  BY DEF Run, RunOptions
<1> QED
  BY <1>1, RequestStepType DEF RequestPlain

\* The operators that change the status leave a run.
LEMMA StatusType ==
  ASSUME NEW r \in Run
  PROVE  /\ \A s \in Notice : Finish(r, s) \in Run
         /\ Await(r) \in Run
         /\ Resume(r) \in Run
         /\ \A i \in Step : Fail(r, i) \in Run
<1>1. ASSUME NEW q \in Run, NEW s \in Notice
      PROVE  Finish(q, s) \in Run
  BY DEF Finish, Run, RunStatus, Notice
<1>2. ASSUME NEW i \in Step
      PROVE  [r EXCEPT !.att[i] = [@ EXCEPT !.status = "failed"]] \in Run
  <2>1. r.att[i] \in Attempt
    BY DEF Run
  <2>2. [r.att[i] EXCEPT !.status = "failed"] \in Attempt
    BY <2>1 DEF Attempt
  <2> QED
    BY <2>2 DEF Run
<1>3. \A i \in Step : Fail(r, i) \in Run
  BY <1>1, <1>2 DEF Fail, Notice
<1> QED
  BY <1>1, <1>3 DEF Await, Resume, Run, RunStatus

\* What follows the completion of a step leaves a run.
LEMMA AdvanceType ==
  ASSUME NEW r \in Run, NEW i \in Step, CanAdvance(r, i)
  PROVE  Advance(r, i) \in Run
<1>1. GoesOn(r, i) => RequestPlain(r, i + 1) \in Run
  BY RequestPlainType DEF CanAdvance, GoesOn
<1> QED
  BY <1>1, StatusType DEF Advance, Notice

\* Recording an answer to a request leaves a run.
LEMMA AnswerType ==
  ASSUME NEW r \in Run, NEW i \in Step, NEW a \in Attempt, NEW c \in Nat
  PROVE  [r EXCEPT !.att[i] = a, !.cost = c] \in Run
BY DEF Run

\* Closing an attempt with an answer leaves a run.
LEMMA CloseType ==
  ASSUME NEW r \in Run, NEW q \in Request, NEW n \in 0..MaxPanels, NEW c \in Nat
  PROVE  Close(r, q, n, c) \in Run
<1>1. [NoSlots EXCEPT ![0] = q.version] \in Slots
  BY DEF NoSlots, Slots, Request
<1>2. q.step \in Step
  BY DEF Request
<1>3. r.att[q.step] \in Attempt
  BY <1>2 DEF Run
<1>4. Closed(r.att[q.step], q, n) \in Attempt
  BY <1>1, <1>3 DEF Closed, Attempt
<1>5. r.cost + c \in Nat
  BY DEF Run
<1> QED
  BY <1>2, <1>4, <1>5, AnswerType DEF Close

\* Filling a slot with a panel leaves a run.
LEMMA FillType ==
  ASSUME NEW r \in Run, NEW q \in Request, NEW c \in Nat
  PROVE  Fill(r, q, c) \in Run
<1>1. q.step \in Step /\ q.panel \in Panel /\ q.version \in Nat
  BY DEF Request
<1>2. r.att[q.step] \in Attempt
  BY <1>1 DEF Run
<1>3. [r.att[q.step].out EXCEPT ![q.panel] = q.version] \in Slots
  BY <1>1, <1>2 DEF Attempt, Slots
<1>4. r.att[q.step].done + 1 \in Nat
  BY <1>2 DEF Attempt
<1>5. Filled(r.att[q.step], q) \in Attempt
  BY <1>2, <1>3, <1>4 DEF Filled, Attempt
<1>6. r.cost + c \in Nat
  BY DEF Run
<1> QED
  BY <1>1, <1>5, <1>6, AnswerType DEF Fill

\* Closing a filled image attempt leaves a run.
LEMMA CompleteImageType ==
  ASSUME NEW r \in Run, NEW i \in Step
  PROVE  CompleteImage(r, i) \in Run
<1>1. r.att[i] \in Attempt
  BY DEF Run
<1>2. [r.att[i] EXCEPT !.status = "completed"] \in Attempt
  BY <1>1 DEF Attempt
<1> QED
  BY <1>2 DEF CompleteImage, Run

\* Where a panel is missing the next one requested is within the bound.
LEMMA NextPanelType ==
  ASSUME NEW r \in Run, NEW i \in Step, ~PanelsDone(r, i)
  PROVE  NextPanel(r, i) \in Run
<1>1. r.att[i].done \in Panel /\ r.version[i] \in Nat
  BY PanelsAssumption DEF Run, Attempt, Panel, PanelsDone
<1>2. [step |-> i, version |-> r.version[i], panel |-> r.att[i].done] \in Request
  BY <1>1 DEF Request
<1> QED
  BY <1>2 DEF NextPanel, Run

\* Flagging later steps leaves a run.
LEMMA MarkStaleType ==
  ASSUME NEW r \in Run, NEW i \in Step
  PROVE  MarkStaleAfter(r, i) \in Run
BY DEF MarkStaleAfter, Run

\* A run that was started is a run.
LEMMA StartedType ==
  ASSUME NEW o \in RunOptions
  PROVE  FreshRun(o) \in Run /\ StartedRun(o) \in Run
<1>1. 0 \in Step
  BY TemplateAssumption DEF Step
<1>2. NoAttempt \in Attempt
  BY PanelsAssumption DEF NoAttempt, Attempt, NoSlots, Slots, RefMode
<1>3. FreshRun(o) \in Run
  BY <1>1, <1>2 DEF FreshRun, Run, RunStatus
<1>4. CanRequest(FreshRun(o), 0)
  BY TemplateAssumption DEF CanRequest, Needs
<1> QED
  BY <1>1, <1>3, <1>4, RequestPlainType DEF StartedRun

-----------------------------------------------------------------------------
(* What the operators do to each field *)

\* Run t is run r after step i was requested: the step, the position and the requests
\* sent have changed.
Requested(r, t, i, P, mode) ==
  /\ t.opts = r.opts /\ t.status = r.status /\ t.cost = r.cost
  /\ t.notices = r.notices /\ t.cur = i
  /\ t.version = [r.version EXCEPT ![i] = r.version[i] + 1]
  /\ t.stale = [r.stale EXCEPT ![i] = FALSE]
  /\ t.att = [r.att EXCEPT ![i] = NewAttempt(r, i, P, mode)]
  /\ t.sent = r.sent \cup FirstRequests(r, i, P, mode)

\* requestStep changes the fields Requested lists and no other.
LEMMA RequestFields ==
  ASSUME NEW r \in Run, NEW i \in Step, NEW P, NEW mode
  PROVE  Requested(r, RequestStep(r, i, P, mode), i, P, mode)
BY DEF RequestStep, Requested, Run

\* The new attempt of step i has recorded the versions of the steps before it.
LEMMA NewAttemptFields ==
  ASSUME NEW r, NEW i, NEW P, NEW mode
  PROVE  LET a == NewAttempt(r, i, P, mode)
         IN  /\ a.status = "running"
             /\ a.expected = Expected(r, i)
             /\ a.done = Cardinality(Seeded(r, i, P))
             /\ a.input = RequestInput(r, i)
             /\ a.upstream = UpstreamVersions(r, i)
             /\ a.panels = IF StepType[i] = "assemble"
                             THEN r.att[Source(r, "image", i)].expected ELSE 0
BY DEF NewAttempt

\* Ending a run changes its status and announces it.
LEMMA FinishFields ==
  ASSUME NEW r \in Run, NEW s
  PROVE  LET t == Finish(r, s)
         IN  /\ t.opts = r.opts /\ t.cost = r.cost /\ t.cur = r.cur
             /\ t.version = r.version /\ t.stale = r.stale /\ t.att = r.att
             /\ t.sent = r.sent
             /\ t.status = s /\ t.notices = r.notices \cup {s}
BY DEF Finish, Run

\* Pausing a run changes its status only.
LEMMA AwaitFields ==
  ASSUME NEW r \in Run
  PROVE  LET t == Await(r)
         IN  /\ t.opts = r.opts /\ t.cost = r.cost /\ t.cur = r.cur
             /\ t.version = r.version /\ t.stale = r.stale /\ t.att = r.att
             /\ t.sent = r.sent /\ t.notices = r.notices
             /\ t.status = "awaiting_action"
BY DEF Await, Run

\* Resuming a run changes its status only.
LEMMA ResumeFields ==
  ASSUME NEW r \in Run
  PROVE  LET t == Resume(r)
         IN  /\ t.opts = r.opts /\ t.cost = r.cost /\ t.cur = r.cur
             /\ t.version = r.version /\ t.stale = r.stale /\ t.att = r.att
             /\ t.sent = r.sent /\ t.notices = r.notices
             /\ t.status = "running"
BY DEF Resume, Run

\* Flagging later steps changes the flags only.
LEMMA MarkStaleFields ==
  ASSUME NEW r \in Run, NEW i
  PROVE  LET t == MarkStaleAfter(r, i)
         IN  /\ t.opts = r.opts /\ t.cost = r.cost /\ t.cur = r.cur
             /\ t.version = r.version /\ t.att = r.att
             /\ t.sent = r.sent /\ t.notices = r.notices /\ t.status = r.status
             /\ t.stale = [j \in Step |-> r.stale[j] \/ j > i]
BY DEF MarkStaleAfter, Run

\* Filling a slot leaves everything but the attempt and the cost.
LEMMA FillFields ==
  ASSUME NEW r \in Run, NEW q \in Request, NEW c \in Nat
  PROVE  LET t == Fill(r, q, c)
         IN  /\ t.opts = r.opts /\ t.status = r.status /\ t.cur = r.cur
             /\ t.version = r.version /\ t.stale = r.stale
             /\ t.sent = r.sent /\ t.notices = r.notices
             /\ t.cost = r.cost + c
             /\ t.att = [r.att EXCEPT ![q.step] = Filled(r.att[q.step], q)]
BY DEF Fill, Run

\* The chain of panels adds at most one request, for the panel whose number is the count.
LEMMA NextPanelFields ==
  ASSUME NEW r \in Run, NEW i
  PROVE  LET t == NextPanel(r, i)
         IN  /\ t.opts = r.opts /\ t.status = r.status /\ t.cur = r.cur
             /\ t.version = r.version /\ t.stale = r.stale /\ t.att = r.att
             /\ t.cost = r.cost /\ t.notices = r.notices
             /\ r.sent \subseteq t.sent
             /\ t.sent \subseteq r.sent \cup
                  {[step |-> i, version |-> r.version[i], panel |-> r.att[i].done]}
BY DEF NextPanel, Run

\* advance fails, requests the next step, completes, or pauses.
LEMMA AdvanceCases ==
  ASSUME NEW r, NEW i
  PROVE  \/ OverCap(r) /\ Advance(r, i) = Finish(r, "failed")
         \/ GoesOn(r, i) /\ Advance(r, i) = RequestPlain(r, i + 1)
         \/ /\ ~OverCap(r) /\ ~CascadeGate(r, i) /\ i + 1 \notin Step
            /\ Advance(r, i) = Finish(r, "completed")
         \/ ~OverCap(r) /\ ~GoesOn(r, i) /\ Advance(r, i) = Await(r)
BY DEF Advance

\* A started run waits for its script.
LEMMA StartedFields ==
  ASSUME NEW o \in RunOptions
  PROVE  LET t == StartedRun(o)
         IN  /\ 0 \in Step
             /\ t.opts = o /\ t.status = "running" /\ t.cost = 0 /\ t.cur = 0
             /\ t.version = [j \in Step |-> IF j = 0 THEN 1 ELSE 0]
             /\ t.stale = [j \in Step |-> FALSE]
             /\ \A j \in Step : j # 0 => t.att[j] = NoAttempt
             /\ t.att[0] = NewAttempt(FreshRun(o), 0, {}, o.mode)
             /\ t.att[0].status = "running"
             /\ t.sent = {[step |-> 0, version |-> 1, panel |-> 0]}
             /\ t.notices = {}
<1>1. 0 \in Step
  BY TemplateAssumption DEF Step
<1>2. FirstPanels(FreshRun(o), 0, {}, o.mode) = {0}
  BY TemplateAssumption DEF FirstPanels
<1>3. FreshRun(o) \in Run
  BY StartedType
<1> DEFINE f == FreshRun(o)
<1>4. /\ f.opts = o /\ f.status = "running" /\ f.cost = 0
      /\ f.version = [j \in Step |-> 0] /\ f.stale = [j \in Step |-> FALSE]
      /\ f.att = [j \in Step |-> NoAttempt] /\ f.sent = {} /\ f.notices = {}
  BY DEF FreshRun
<1>5. FirstRequests(f, 0, {}, o.mode) = {[step |-> 0, version |-> 1, panel |-> 0]}
  <2>1. f.version[0] + 1 = 1
    BY <1>1, <1>4
  <2> QED
    BY <1>2, <2>1 DEF FirstRequests
<1>6. NewAttempt(f, 0, {}, o.mode).status = "running"
  BY NewAttemptFields
<1>7. Requested(f, StartedRun(o), 0, {}, o.mode)
  BY <1>1, <1>3, <1>4, RequestFields DEF StartedRun, RequestPlain
<1> HIDE DEF f
<1> DEFINE t == StartedRun(o)
<1>8. /\ t.opts = o /\ t.status = "running" /\ t.cost = 0 /\ t.cur = 0 /\ t.notices = {}
      /\ t.version = [f.version EXCEPT ![0] = f.version[0] + 1]
      /\ t.stale = [f.stale EXCEPT ![0] = FALSE]
      /\ t.att = [f.att EXCEPT ![0] = NewAttempt(f, 0, {}, o.mode)]
      /\ t.sent = {[step |-> 0, version |-> 1, panel |-> 0]}
  BY <1>4, <1>5, <1>7 DEF Requested
<1> HIDE DEF t
<1>9. /\ t.version = [j \in Step |-> IF j = 0 THEN 1 ELSE 0]
      /\ t.stale = [j \in Step |-> FALSE]
      /\ \A j \in Step : j # 0 => t.att[j] = NoAttempt
      /\ t.att[0] = NewAttempt(f, 0, {}, o.mode)
  <2>1. t.version = [j \in Step |-> IF j = 0 THEN 1 ELSE 0]
    BY <1>1, <1>4, <1>8
  <2>2. t.stale = [j \in Step |-> FALSE]
    BY <1>1, <1>4, <1>8, Zenon
  <2>3. /\ \A j \in Step : j # 0 => t.att[j] = NoAttempt
        /\ t.att[0] = NewAttempt(f, 0, {}, o.mode)
    BY <1>1, <1>4, <1>8
  <2> QED
    BY <2>1, <2>2, <2>3
<1> QED
  BY <1>1, <1>6, <1>8, <1>9 DEF f, t
=============================================================================
