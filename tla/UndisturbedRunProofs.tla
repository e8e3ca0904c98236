------------------------- MODULE UndisturbedRunProofs -------------------------
(* Theorems about a run whose users only answer its own pauses: however its     *)
(* answers are repeated, delayed or contradicted, it walks through its steps    *)
(* one by one, each under version 1.                                            *)
EXTENDS PipelineRunProofs

-----------------------------------------------------------------------------
(* The inductive invariant *)

\* The slots of an attempt that hold a panel.
Arrived(a) == {p \in Panel : a.out[p] # 0}

\* An image attempt of an undisturbed run: it waits for a panel at least, every panel it
\* holds was made for it and is one of those expected, the count is right, and it is
\* complete when they have all arrived.
Counted(a) ==
  /\ a.expected > 0
  /\ \A p \in Panel : a.out[p] # 0 => a.out[p] = 1 /\ p < a.expected
  /\ a.done = Cardinality(Arrived(a))
  /\ a.status = "completed" => \A p \in Panel : p < a.expected => a.out[p] # 0

\* What each kind of step leaves for the next: panels in a script, all the images of an
\* image attempt, an assemble request without a gap.
Sound(a, i) ==
  /\ StepType[i] = "script" /\ a.status = "completed" => a.panels > 0
  /\ StepType[i] = "image" => Counted(a)
  /\ StepType[i] = "assemble" =>
       a.panels > 0 /\ \A p \in Panel : p < a.panels => a.input[p] # 0

\* The steps up to the current one were requested, once each.
Walked(r) ==
  /\ \A i \in Step : r.version[i] = IF i <= r.cur THEN 1 ELSE 0
  /\ \A i \in Step : i > r.cur => r.att[i].status = "pending"
  /\ \A i \in Step : i <= r.cur => Sound(r.att[i], i)
  /\ \A q \in r.sent : q.version = 1 /\ q.step <= r.cur

\* Every requested step is done.
AllDone(r) == \A i \in Step : i <= r.cur => r.att[i].status = "completed"

\* Where the status says the run is.
Placed(r) ==
  /\ r.status = "running" =>
       /\ r.att[r.cur].status = "running"
       /\ \A i \in Step : i < r.cur => r.att[i].status = "completed"
  /\ r.status \in {"awaiting_action", "completed"} => AllDone(r)
  /\ r.status = "awaiting_action" => r.cur + 1 \in Step
  /\ r.status = "completed" => r.cur + 1 \notin Step

\* An answer that was paid for is one that would be refused today: its step is closed or
\* its slot is taken.
Paid(r, requests) ==
  \A q \in requests :
    /\ q.version = 1 /\ q.step <= r.cur
    /\ r.status = "running" /\ q.step = r.cur =>
         StepType[q.step] = "image" /\ r.att[q.step].out[q.panel] = 1

Undisturbed == ~outOfTurn => Walked(run) /\ Placed(run) /\ Paid(run, charged)

-----------------------------------------------------------------------------
(* Going on to the next step *)

\* A run that has done every step it requested can be asked for the next one without
\* a gap in what that step consumes.
LEMMA NextAttemptSound ==
  ASSUME NEW r \in Run, Walked(r), AllDone(r), r.cur + 1 \in Step,
         CanRequest(r, r.cur + 1), NEW mode \in RefMode
  PROVE  /\ Seeded(r, r.cur + 1, {}) = {}
         /\ Sound(NewAttempt(r, r.cur + 1, {}, mode), r.cur + 1)
<1> DEFINE i == r.cur + 1
           a == NewAttempt(r, i, {}, mode)
<1>0. r.cur \in Step /\ i \in Step /\ r.cur \in Int
  BY TemplateAssumption DEF Run, Step
<1>1. Seeded(r, i, {}) = {}
  BY DEF Seeded
<1>2. /\ a.status = "running" /\ a.expected = Expected(r, i) /\ a.done = 0
      /\ a.out = [p \in Panel |-> 0] /\ a.input = RequestInput(r, i)
      /\ a.panels = IF StepType[i] = "assemble" THEN r.att[Source(r, "image", i)].expected ELSE 0
  <2>1. Cardinality({}) = 0
    BY FS_EmptySet
  <2>2. a.out = [p \in Panel |-> IF p \in Seeded(r, i, {}) THEN r.att[i].out[p] ELSE 0]
    BY DEF NewAttempt
  <2>3. a.out = [p \in Panel |-> 0]
    BY <1>1, <2>2
  <2> QED
    BY <1>1, <2>1, <2>3, NewAttemptFields
<1>3. ASSUME NEW kind \in Needs(i)
      PROVE  LET s == Source(r, kind, i)
             IN  s \in Step /\ StepType[s] = kind /\ r.att[s].status = "completed" /\ Sound(r.att[s], s)
  <2>1. Sources(r, kind, i) # {}
    BY DEF CanRequest
  <2>2. Source(r, kind, i) \in Sources(r, kind, i)
    BY <2>1, SourceFound
  <2>3. Source(r, kind, i) <= r.cur
    BY <1>0, <2>2, TemplateAssumption DEF Sources, Step
  <2> QED
    BY <2>2, <2>3 DEF Sources, Walked
<1> HIDE DEF a, i
<1>4. CASE StepType[i] = "image"
  <2>1. "script" \in Needs(i)
    BY <1>4 DEF Needs
  <2>2. a.expected > 0
    BY <1>2, <1>3, <1>4, <2>1 DEF Expected, Sound
  <2>3. Arrived(a) = {} /\ Cardinality(Arrived(a)) = 0
    BY <1>2, FS_EmptySet DEF Arrived
  <2>4. Counted(a)
    BY <1>2, <2>2, <2>3 DEF Counted
  <2> QED
    BY <1>1, <1>4, <2>4 DEF Sound, a, i
<1>5. CASE StepType[i] = "assemble"
  <2>1. "image" \in Needs(i)
    BY <1>5 DEF Needs
  <2> DEFINE s == Source(r, "image", i)
  <2>2. s \in Step /\ r.att[s].status = "completed" /\ Counted(r.att[s])
    BY <1>3, <2>1 DEF Sound
  <2>3. a.panels = r.att[s].expected /\ a.input = r.att[s].out
    BY <1>2, <1>5 DEF RequestInput
  <2>4. a.panels > 0 /\ \A p \in Panel : p < a.panels => a.input[p] # 0
    BY <2>2, <2>3 DEF Counted
  <2> QED
    BY <1>1, <1>5, <2>4 DEF Sound, a, i
<1>6. CASE StepType[i] \notin {"image", "assemble"}
  BY <1>1, <1>2, <1>6 DEF Sound, a, i
<1> QED
  BY <1>4, <1>5, <1>6

\* Requesting the next step of a run that has done all the others walks one step further.
LEMMA WalkOn ==
  ASSUME NEW r \in Run, Walked(r), AllDone(r), r.status = "running", r.cur + 1 \in Step,
         CanRequest(r, r.cur + 1), NEW requests \in SUBSET Request,
         \A q \in requests : q.version = 1 /\ q.step <= r.cur,
         NEW t, Requested(r, t, r.cur + 1, {}, r.opts.mode)
  PROVE  Walked(t) /\ Placed(t) /\ Paid(t, requests)
<1> DEFINE i == r.cur + 1
           a == NewAttempt(r, i, {}, r.opts.mode)
<1>0. /\ r.cur \in Step /\ i \in Step /\ r.cur \in Int
      /\ r.opts.mode \in RefMode /\ Step \subseteq Int
      /\ r.version \in [Step -> Nat] /\ r.att \in [Step -> Attempt] /\ r.sent \subseteq Request
  BY TemplateAssumption DEF Run, RunOptions, Step
<1>1. Sound(a, i) /\ a.status = "running"
  BY <1>0, NextAttemptSound, NewAttemptFields
<1>2. /\ t.status = "running" /\ t.cur = i
      /\ t.version = [r.version EXCEPT ![i] = r.version[i] + 1]
      /\ t.att = [r.att EXCEPT ![i] = a]
      /\ t.sent = r.sent \cup FirstRequests(r, i, {}, r.opts.mode)
  BY DEF Requested
<1>3. \A q \in FirstRequests(r, i, {}, r.opts.mode) : q.version = r.version[i] + 1 /\ q.step = i
  BY DEF FirstRequests
<1>4. r.version[i] = 0
  BY <1>0 DEF Walked
<1> HIDE DEF a
<1>5. \A j \in Step : t.version[j] = IF j <= t.cur THEN 1 ELSE 0
  BY <1>0, <1>2, <1>4 DEF Walked
<1>6. \A j \in Step : j > t.cur => t.att[j].status = "pending"
  <2> SUFFICES ASSUME NEW j \in Step, j > t.cur PROVE t.att[j].status = "pending"
    OBVIOUS
  <2>1. j # i /\ j > r.cur
    BY <1>0, <1>2
  <2>2. t.att[j] = r.att[j]
    BY <1>0, <1>2, <2>1
  <2> QED
    BY <2>1, <2>2 DEF Walked
<1>7. \A j \in Step : j <= t.cur => Sound(t.att[j], j)
  <2> SUFFICES ASSUME NEW j \in Step, j <= t.cur PROVE Sound(t.att[j], j)
    OBVIOUS
  <2>1. CASE j = i
    BY <1>0, <1>1, <1>2, <2>1
  <2>2. CASE j # i
    <3>1. j <= r.cur /\ t.att[j] = r.att[j]
      BY <1>0, <1>2, <2>2
    <3> QED
      BY <3>1 DEF Walked
  <2> QED
    BY <2>1, <2>2
<1>8. \A q \in t.sent : q.version = 1 /\ q.step <= t.cur
  <2> SUFFICES ASSUME NEW q \in t.sent PROVE q.version = 1 /\ q.step <= t.cur
    OBVIOUS
  <2>1. CASE q \in r.sent
    <3>1. q.version = 1 /\ q.step <= r.cur /\ q.step \in Step
      BY <1>0, <2>1 DEF Walked, Request
    <3>2. q.step \in Int /\ t.cur = r.cur + 1
      BY <1>0, <1>2, <3>1
    <3> QED
      BY <1>0, <3>1, <3>2
  <2>2. CASE q \in FirstRequests(r, i, {}, r.opts.mode)
    BY <1>0, <1>2, <1>3, <1>4, <2>2
  <2> QED
    BY <1>2, <2>1, <2>2
<1>9. Walked(t)
  BY <1>5, <1>6, <1>7, <1>8 DEF Walked
<1>10. Placed(t)
  <2>1. t.att[t.cur].status = "running"
    BY <1>0, <1>1, <1>2
  <2>2. ASSUME NEW j \in Step, j < t.cur
        PROVE  t.att[j].status = "completed"
    <3>1. j # i /\ j <= r.cur
      BY <1>0, <1>2, <2>2
    <3>2. t.att[j] = r.att[j]
      BY <1>0, <1>2, <3>1
    <3> QED
      BY <3>1, <3>2 DEF AllDone
  <2> QED
    BY <1>2, <2>1, <2>2 DEF Placed
<1>11. Paid(t, requests)
  <2> SUFFICES ASSUME NEW q \in requests
               PROVE  q.version = 1 /\ q.step <= t.cur /\ q.step # t.cur
    BY DEF Paid
  <2>1. q.version = 1 /\ q.step <= r.cur /\ q.step \in Int /\ t.cur = r.cur + 1
    BY <1>0, <1>2 DEF Request
  <2> QED
    BY <1>0, <2>1
<1> QED
  BY <1>9, <1>10, <1>11

\* What follows the completion of the current step keeps the run on its walk.
LEMMA AdvanceWalks ==
  ASSUME NEW r \in Run, Walked(r), AllDone(r), r.status = "running", CanAdvance(r, r.cur),
         NEW requests \in SUBSET Request, \A q \in requests : q.version = 1 /\ q.step <= r.cur,
         NEW t, t = Advance(r, r.cur)
  PROVE  Walked(t) /\ Placed(t) /\ Paid(t, requests)
<1>1. r.cur \in Step /\ r.cur \in Nat
  BY TemplateAssumption DEF Run, Step
<1>2. ~CascadeGate(r, r.cur)
  BY <1>1 DEF CascadeGate, Walked
<1>3. ASSUME NEW s \in {"failed", "completed", "awaiting_action"},
             t.status = s, t.cur = r.cur, t.version = r.version, t.att = r.att, t.sent = r.sent,
             s = "awaiting_action" => r.cur + 1 \in Step,
             s = "completed" => r.cur + 1 \notin Step
      PROVE  Walked(t) /\ Placed(t) /\ Paid(t, requests)
  <2>1. Walked(t)
    BY <1>3 DEF Walked
  <2>2. Placed(t)
    BY <1>3 DEF Placed, AllDone
  <2>3. Paid(t, requests)
    BY <1>3 DEF Paid
  <2> QED
    BY <2>1, <2>2, <2>3
<1>4. CASE GoesOn(r, r.cur) /\ t = RequestPlain(r, r.cur + 1)
  <2>1. r.cur + 1 \in Step /\ CanRequest(r, r.cur + 1)
    BY <1>4 DEF CanAdvance, GoesOn
  <2>2. Requested(r, t, r.cur + 1, {}, r.opts.mode)
    BY <1>4, <2>1, RequestFields DEF RequestPlain
  <2> QED
    BY <2>1, <2>2, WalkOn
<1>5. CASE t = Finish(r, "failed")
  BY <1>3, <1>5, FinishFields
<1>6. CASE r.cur + 1 \notin Step /\ t = Finish(r, "completed")
  BY <1>3, <1>6, FinishFields
<1>7. CASE r.cur + 1 \in Step /\ t = Await(r)
  BY <1>3, <1>7, AwaitFields
<1> QED
  BY <1>2, <1>4, <1>5, <1>6, <1>7 DEF Advance

-----------------------------------------------------------------------------
(* What an answer does *)

\* An answer is taken for the step the run is at, and for no other.
LEMMA OpenIsCurrent ==
  ASSUME NEW r \in Run, Walked(r), Placed(r), NEW q \in r.sent, Open(r, q)
  PROVE  /\ q \in Request /\ q.step \in Step /\ q.panel \in Panel
         /\ q.step = r.cur /\ q.version = 1 /\ r.version[r.cur] = 1
         /\ \A i \in Step : i < r.cur => r.att[i].status = "completed"
         /\ r.att \in [Step -> Attempt] /\ r.att[r.cur] \in Attempt
         /\ Sound(r.att[r.cur], r.cur)
<1>1. r.cur \in Step /\ r.att \in [Step -> Attempt] /\ Step \subseteq Int
  BY DEF Run, Step
<1>2. q \in Request /\ q.step \in Step /\ q.panel \in Panel /\ q.version = 1 /\ q.step <= r.cur
  BY DEF Run, Request, Walked
<1>3. r.status = "running" /\ r.att[q.step].status # "completed"
  BY DEF Open
<1>4. \A i \in Step : i < r.cur => r.att[i].status = "completed"
  BY <1>3 DEF Placed
<1>5. q.step = r.cur
  <2>1. q.step \in Int /\ r.cur \in Int
    BY <1>1, <1>2
  <2>2. ~(q.step < r.cur)
    BY <1>2, <1>3, <1>4
  <2> QED
    BY <1>2, <2>1, <2>2
<1> QED
  BY <1>1, <1>2, <1>4, <1>5 DEF Walked

\* A run like r but for the attempt of the current step, which is sound, has walked as far.
LEMMA SameWalk ==
  ASSUME NEW r \in Run, Walked(r), NEW t, t.cur = r.cur, t.version = r.version, t.sent = r.sent,
         Sound(t.att[r.cur], r.cur), \A i \in Step : i # r.cur => t.att[i] = r.att[i]
  PROVE  Walked(t)
<1>1. r.cur \in Step /\ r.cur \in Int
  BY DEF Run, Step
<1>2. \A i \in Step : i > t.cur => t.att[i].status = "pending"
  BY <1>1 DEF Walked
<1>3. \A i \in Step : i <= t.cur => Sound(t.att[i], i)
  BY <1>1 DEF Walked
<1> QED
  BY <1>2, <1>3 DEF Walked

\* An answer that closes a step of one output leaves a run that has done every step it
\* requested.
LEMMA CloseDone ==
  ASSUME NEW r \in Run, Walked(r), Placed(r), NEW q \in r.sent, Open(r, q),
         StepType[q.step] # "image", NEW n \in 0..MaxPanels, NEW c \in Nat,
         StepType[q.step] = "script" => n > 0
  PROVE  LET t == Close(r, q, n, c)
         IN  /\ t \in Run /\ Walked(t) /\ AllDone(t) /\ t.status = "running" /\ t.cur = r.cur
             /\ q.step = r.cur
<1> DEFINE t == Close(r, q, n, c)
           a == Closed(r.att[q.step], q, n)
<1>1. /\ q \in Request /\ q.step = r.cur /\ r.att[r.cur] \in Attempt /\ r.cur \in Step
      /\ \A i \in Step : i < r.cur => r.att[i].status = "completed"
      /\ Sound(r.att[r.cur], r.cur) /\ \A i \in Step : i \in Int
  BY OpenIsCurrent DEF Step
<1>2. /\ a.status = "completed" /\ a.input = r.att[r.cur].input
      /\ a.panels = IF StepType[r.cur] = "script" THEN n ELSE r.att[r.cur].panels
  BY <1>1 DEF Closed, Attempt
<1>3. Sound(a, r.cur)
  BY <1>1, <1>2 DEF Sound
<1>4. /\ t \in Run /\ t.status = "running" /\ t.cur = r.cur /\ t.version = r.version
      /\ t.sent = r.sent /\ t.att = [r.att EXCEPT ![r.cur] = a]
  BY <1>1, CloseType DEF Close, Run, Open
<1> HIDE DEF t, a
<1>5. /\ t.att[r.cur] = a /\ \A i \in Step : i # r.cur => t.att[i] = r.att[i]
      /\ Walked(t)
  <2>1. t.att[r.cur] = a /\ \A i \in Step : i # r.cur => t.att[i] = r.att[i]
    BY <1>1, <1>4 DEF Run
  <2> QED
    BY <1>3, <1>4, <2>1, SameWalk
<1>6. AllDone(t)
  <2> SUFFICES ASSUME NEW i \in Step, i <= t.cur PROVE t.att[i].status = "completed"
    BY DEF AllDone
  <2>1. CASE i = r.cur
    BY <1>2, <1>4, <1>5, <2>1
  <2>2. CASE i # r.cur
    <3>1. i < r.cur
      BY <1>1, <1>4, <2>2
    <3> QED
      BY <1>1, <1>5, <2>2, <3>1
  <2> QED
    BY <2>1, <2>2
<1> QED
  BY <1>1, <1>4, <1>5, <1>6 DEF t

\* Attempt b is attempt a after a panel that was missing has arrived.
Grows(a, b, p) ==
  /\ b.status = a.status /\ b.expected = a.expected /\ b.done = a.done + 1
  /\ a.out[p] = 0
  /\ b.out = [a.out EXCEPT ![p] = 1]

\* A new panel is counted once, and the count says how many slots hold one.
LEMMA GrowsCounted ==
  ASSUME NEW a \in Attempt, Counted(a), a.status # "completed",
         NEW b \in Attempt, NEW p \in Panel, p < a.expected, Grows(a, b, p)
  PROVE  /\ Counted(b)
         /\ b.done >= b.expected => \A k \in Panel : k < b.expected => b.out[k] # 0
<1>1. /\ a.out \in [Panel -> Nat] /\ a.done \in Nat /\ a.expected \in Nat /\ b.expected = a.expected
      /\ \A k \in Panel : k \in Nat
  <2>1. \A k \in Panel : k \in Nat
    BY PanelsAssumption DEF Panel
  <2>2. 0..MaxPanels \subseteq Nat
    BY PanelsAssumption
  <2> QED
    BY <2>1, <2>2 DEF Attempt, Slots, Grows
<1>2. /\ b.out[p] = 1 /\ a.out[p] = 0
      /\ \A k \in Panel : k # p => b.out[k] = a.out[k]
  BY <1>1 DEF Grows
<1>3. Arrived(b) = Arrived(a) \cup {p} /\ p \notin Arrived(a)
  BY <1>2 DEF Arrived
<1>4. Arrived(a) \subseteq Panel /\ IsFiniteSet(Arrived(a))
  <2>1. IsFiniteSet(Panel)
    BY PanelsAssumption, FS_Interval DEF Panel
  <2> QED
    BY <2>1, FS_Subset DEF Arrived
<1>5. b.done = Cardinality(Arrived(b))
  <2>1. Cardinality(Arrived(b)) = Cardinality(Arrived(a)) + 1
    BY <1>3, <1>4, FS_AddElement
  <2> QED
    BY <2>1 DEF Counted, Grows
<1>6. \A k \in Panel : b.out[k] # 0 => b.out[k] = 1 /\ k < b.expected
  BY <1>1, <1>2 DEF Counted
<1>7. Counted(b)
  BY <1>1, <1>5, <1>6 DEF Counted, Grows
<1>8. ASSUME b.done >= b.expected
      PROVE  \A k \in Panel : k < b.expected => b.out[k] # 0
  <2> DEFINE E == 0..(b.expected - 1)
  <2>1. IsFiniteSet(E) /\ Cardinality(E) = b.expected
    <3>1. b.expected > 0 /\ b.expected \in Nat
      BY <1>1 DEF Counted
    <3>2. 0 \in Int /\ b.expected - 1 \in Int /\ ~(0 > b.expected - 1)
          /\ (b.expected - 1) - 0 + 1 = b.expected
      BY <3>1
    <3> QED
      BY <3>2, FS_Interval
  <2>2. Arrived(b) \subseteq E
    BY <1>1, <1>6 DEF Arrived
  <2>3. Cardinality(Arrived(b)) <= Cardinality(E) /\ Cardinality(Arrived(b)) \in Nat
    BY <2>1, <2>2, FS_Subset, FS_CardinalityType
  <2>4. Cardinality(Arrived(b)) = Cardinality(E)
    BY <1>1, <1>5, <1>8, <2>1, <2>3
  <2>5. Arrived(b) = E
    BY <2>1, <2>2, <2>4, FS_Subset
  <2> QED
    BY <1>1, <2>5 DEF Arrived
<1> QED
  BY <1>7, <1>8

\* An image's answer that is taken fills a slot that was empty.
LEMMA FillGrows ==
  ASSUME NEW r \in Run, Walked(r), Placed(r), NEW q \in r.sent, Open(r, q),
         StepType[q.step] = "image", q.panel < r.att[q.step].expected, ~SameKey(r, q), NEW c \in Nat
  PROVE  LET f == Fill(r, q, c)
         IN  /\ f \in Run /\ f.status = "running" /\ f.cur = r.cur /\ f.sent = r.sent
             /\ f.version = r.version /\ f.opts = r.opts
             /\ \A i \in Step : i # r.cur => f.att[i] = r.att[i]
             /\ Grows(r.att[r.cur], f.att[r.cur], q.panel)
             /\ Counted(f.att[r.cur]) /\ f.att[r.cur].status = "running"
             /\ PanelsDone(f, r.cur) =>
                  \A p \in Panel : p < f.att[r.cur].expected => f.att[r.cur].out[p] # 0
<1> DEFINE a == r.att[r.cur]
           b == Filled(a, q)
           f == Fill(r, q, c)
<1>1. /\ q \in Request /\ q.step = r.cur /\ q.version = 1 /\ q.panel \in Panel /\ r.cur \in Step
      /\ a \in Attempt /\ r.att \in [Step -> Attempt] /\ Sound(a, r.cur)
  BY OpenIsCurrent
<1>2. /\ f \in Run /\ f.status = r.status /\ f.cur = r.cur /\ f.sent = r.sent
      /\ f.version = r.version /\ f.opts = r.opts
      /\ f.att = [r.att EXCEPT ![r.cur] = b]
  BY <1>1, FillType, FillFields
<1>3. r.status = "running" /\ a.status = "running"
  BY <1>1 DEF Open, Placed
<1>4. Counted(a)
  BY <1>1 DEF Sound
<1>5. a.out[q.panel] = 0
  BY <1>1, <1>4 DEF SameKey, Counted
<1>6. Grows(a, b, q.panel)
  BY <1>1, <1>5 DEF Filled, Grows, Attempt
<1>7. f.att[r.cur] = b /\ \A i \in Step : i # r.cur => f.att[i] = r.att[i]
  BY <1>1, <1>2
<1>8. b \in Attempt
  BY <1>1, <1>2, <1>7 DEF Run
<1>9. /\ Counted(b) /\ b.status = "running"
      /\ b.done >= b.expected => \A p \in Panel : p < b.expected => b.out[p] # 0
  <2>1. q.panel < a.expected /\ a.status # "completed" /\ q.panel \in Panel
    BY <1>1, <1>3
  <2> HIDE DEF a, b
  <2>2. b.status = "running"
    BY <1>3, <1>6 DEF Grows
  <2> QED
    BY <1>1, <1>4, <1>6, <1>8, <2>1, <2>2, GrowsCounted
<1> HIDE DEF b, f
<1> QED
  BY <1>2, <1>3, <1>6, <1>7, <1>9 DEF f, PanelsDone

\* The last panel leaves a run that has done every step it requested.
LEMMA LastPanel ==
  ASSUME NEW r \in Run, Walked(r), Placed(r), NEW q \in r.sent, Open(r, q),
         StepType[q.step] = "image", q.panel < r.att[q.step].expected, ~SameKey(r, q), NEW c \in Nat,
         PanelsDone(Fill(r, q, c), q.step)
  PROVE  LET t == CompleteImage(Fill(r, q, c), q.step)
         IN  /\ t \in Run /\ Walked(t) /\ AllDone(t) /\ t.status = "running" /\ t.cur = r.cur
             /\ q.step = r.cur
<1> DEFINE f == Fill(r, q, c)
           b == [f.att[r.cur] EXCEPT !.status = "completed"]
           t == CompleteImage(f, q.step)
<1>1. /\ f \in Run /\ f.status = "running" /\ f.cur = r.cur /\ f.sent = r.sent
      /\ f.version = r.version
      /\ \A i \in Step : i # r.cur => f.att[i] = r.att[i]
      /\ Counted(f.att[r.cur])
      /\ PanelsDone(f, r.cur) =>
           \A p \in Panel : p < f.att[r.cur].expected => f.att[r.cur].out[p] # 0
  BY FillGrows
<1>2. /\ q \in Request /\ q.step = r.cur /\ r.cur \in Step /\ r.cur \in Int
      /\ \A i \in Step : i < r.cur => r.att[i].status = "completed"
      /\ \A i \in Step : i \in Int
  BY OpenIsCurrent DEF Step
<1>3. PanelsDone(f, r.cur)
  BY <1>2
<1>4. t = [f EXCEPT !.att[r.cur] = b]
  BY <1>2 DEF CompleteImage
<1>5. t \in Run
  BY <1>1, <1>2, CompleteImageType
<1> HIDE DEF f
<1>6. f.att[r.cur] \in Attempt
  BY <1>1, <1>2 DEF Run
<1>7. /\ b.status = "completed" /\ b.expected = f.att[r.cur].expected
      /\ b.out = f.att[r.cur].out /\ b.done = f.att[r.cur].done
  BY <1>6 DEF Attempt
<1>8. Counted(b)
  BY <1>1, <1>3, <1>7, ZenonT(40) DEF Counted, Arrived
<1> HIDE DEF b
<1>9. /\ t.status = "running" /\ t.cur = r.cur /\ t.sent = r.sent /\ t.version = r.version
      /\ t.att[r.cur] = b /\ \A i \in Step : i # r.cur => t.att[i] = r.att[i]
  BY <1>1, <1>2, <1>4 DEF Run
<1> HIDE DEF t
<1>10. Walked(t)
  BY <1>2, <1>8, <1>9, SameWalk DEF Sound
<1>11. AllDone(t)
  <2> SUFFICES ASSUME NEW i \in Step, i <= r.cur PROVE t.att[i].status = "completed"
    BY <1>9 DEF AllDone
  <2>1. CASE i = r.cur
    BY <1>7, <1>9, <2>1
  <2>2. CASE i # r.cur
    <3>1. i < r.cur
      BY <1>2, <2>2
    <3> QED
      BY <1>2, <1>9, <2>2, <3>1
  <2> QED
    BY <2>1, <2>2
<1> QED
  BY <1>2, <1>5, <1>9, <1>10, <1>11 DEF t, f

\* A panel that is not the last leaves the run where it was, and its slot taken.
LEMMA AnotherPanel ==
  ASSUME NEW r \in Run, Walked(r), Placed(r), NEW q \in r.sent, Open(r, q),
         StepType[q.step] = "image", q.panel < r.att[q.step].expected, ~SameKey(r, q), NEW c \in Nat,
         NEW requests \in SUBSET Request, Paid(r, requests)
  PROVE  LET t == NextPanel(Fill(r, q, c), q.step)
         IN  Walked(t) /\ Placed(t) /\ Paid(t, requests \cup {q})
<1> DEFINE f == Fill(r, q, c)
           t == NextPanel(f, q.step)
<1>1. /\ f \in Run /\ f.status = "running" /\ f.cur = r.cur /\ f.sent = r.sent
      /\ f.version = r.version
      /\ \A i \in Step : i # r.cur => f.att[i] = r.att[i]
      /\ Grows(r.att[r.cur], f.att[r.cur], q.panel)
      /\ Counted(f.att[r.cur]) /\ f.att[r.cur].status = "running"
  BY FillGrows
<1>2. /\ q \in Request /\ q.step = r.cur /\ q.version = 1 /\ q.panel \in Panel
      /\ r.cur \in Step /\ r.cur \in Int /\ r.version[r.cur] = 1
      /\ r.att[r.cur] \in Attempt /\ StepType[r.cur] = "image" /\ r.status = "running"
      /\ \A i \in Step : i < r.cur => r.att[i].status = "completed"
      /\ \A i \in Step : i \in Int
  BY OpenIsCurrent DEF Step, Open
<1> HIDE DEF f
<1>3. /\ t.status = "running" /\ t.cur = r.cur /\ t.version = r.version /\ t.att = f.att
      /\ t.sent \subseteq r.sent \cup {[step |-> r.cur, version |-> 1, panel |-> f.att[r.cur].done]}
  BY <1>1, <1>2, NextPanelFields
<1> HIDE DEF t
<1>4. Walked(f)
  BY <1>1, <1>2, SameWalk DEF Sound
<1>5. \A x \in t.sent : x.version = 1 /\ x.step <= t.cur
  <2> SUFFICES ASSUME NEW x \in t.sent PROVE x.version = 1 /\ x.step <= r.cur
    BY <1>3
  <2>1. CASE x \in r.sent
    BY <2>1 DEF Walked
  <2>2. CASE x = [step |-> r.cur, version |-> 1, panel |-> f.att[r.cur].done]
    BY <1>2, <2>2
  <2> QED
    BY <1>3, <2>1, <2>2
<1>6. Walked(t)
  BY <1>1, <1>3, <1>4, <1>5 DEF Walked
<1>7. Placed(t)
  BY <1>1, <1>2, <1>3 DEF Placed
<1>8. Paid(t, requests \cup {q})
  <2> SUFFICES ASSUME NEW x \in requests \cup {q}
               PROVE  /\ x.version = 1 /\ x.step <= r.cur
                      /\ x.step = r.cur =>
                           StepType[x.step] = "image" /\ f.att[x.step].out[x.panel] = 1
    BY <1>3 DEF Paid
  <2>1. r.att[r.cur].out \in [Panel -> Nat] /\ x.panel \in Panel
    BY <1>2 DEF Attempt, Slots, Request
  <2>2. f.att[r.cur].out = [r.att[r.cur].out EXCEPT ![q.panel] = 1]
    BY <1>1 DEF Grows
  <2>3. CASE x = q
    BY <1>2, <2>1, <2>2, <2>3
  <2>4. CASE x \in requests
    <3>1. /\ x.version = 1 /\ x.step <= r.cur
          /\ x.step = r.cur => r.att[r.cur].out[x.panel] = 1
      BY <1>2, <2>4 DEF Paid
    <3> QED
      BY <1>2, <2>1, <2>2, <3>1
  <2> QED
    BY <2>3, <2>4
<1> QED
  BY <1>6, <1>7, <1>8 DEF t, f

\* An answer keeps the run on its walk.
LEMMA AnswerWalks ==
  ASSUME TypeOK, Walked(run), Placed(run), Paid(run, charged), NEW q \in run.sent, Answer(q)
  PROVE  Walked(run)' /\ Placed(run)' /\ Paid(run, charged)'
<1>1. /\ run \in Run /\ charged \subseteq Request /\ q \in Request
      /\ q.version = 1 /\ q.step <= run.cur
  BY DEF TypeOK, Walked, Run
<1>2. PICK c \in Nat :
        \/ \E n \in PanelCounts : RecordScriptCompleted(q, n, c)
        \/ RecordImageCompleted(q, c)
        \/ \E kind \in StepKind \ {"script", "image"} : SingleCompleted(kind, q, c)
  BY CostsAssumption
     DEF Answer, RecordAudioCompleted, RecordMusicCompleted, RecordCaptionCompleted,
         RecordAssembleCompleted, RecordUploadCompleted, StepKind
<1>3. \A x \in charged \cup {q} : x.version = 1 /\ x.step <= run.cur
  BY <1>1 DEF Paid
<1>4. ASSUME NEW r \in Run, Walked(r), AllDone(r), r.status = "running", r.cur = run.cur,
             q.step = run.cur, Accept(q, r)
      PROVE  Walked(run)' /\ Placed(run)' /\ Paid(run, charged)'
  <2>1. CanAdvance(r, r.cur) /\ run' = Advance(r, r.cur) /\ charged' = charged \cup {q}
    BY <1>4 DEF Accept
  <2>2. charged \cup {q} \in SUBSET Request
    BY <1>1
  <2>3. \A x \in charged \cup {q} : x.version = 1 /\ x.step <= r.cur
    BY <1>3, <1>4
  <2>4. Walked(run') /\ Placed(run') /\ Paid(run', charged \cup {q})
    BY <1>4, <2>1, <2>2, <2>3, AdvanceWalks
  <2> QED
    BY <2>1, <2>4
<1>5. ASSUME NEW n \in 0..MaxPanels, StepType[q.step] # "image", Open(run, q),
             StepType[q.step] = "script" => n > 0, Accept(q, Close(run, q, n, c))
      PROVE  Walked(run)' /\ Placed(run)' /\ Paid(run, charged)'
  BY <1>1, <1>4, <1>5, CloseDone
<1>6. CASE \E n \in PanelCounts : RecordScriptCompleted(q, n, c)
  <2>1. PICK n \in PanelCounts : RecordScriptCompleted(q, n, c)
    BY <1>6
  <2>2. n \in 0..MaxPanels /\ n > 0
    BY PanelCountsAssumption, PanelsAssumption
  <2> QED
    BY <1>5, <2>1, <2>2 DEF RecordScriptCompleted
<1>7. CASE \E kind \in StepKind \ {"script", "image"} : SingleCompleted(kind, q, c)
  <2>1. 0 \in 0..MaxPanels
    BY PanelsAssumption
  <2> QED
    BY <1>5, <1>7, <2>1 DEF SingleCompleted
<1>8. CASE RecordImageCompleted(q, c)
  <2>1. /\ StepType[q.step] = "image" /\ Open(run, q) /\ q.panel < run.att[q.step].expected
        /\ ~SameKey(run, q)
    BY <1>8 DEF RecordImageCompleted
  <2>2. CASE PanelsDone(Fill(run, q, c), q.step)
    <3>1. Accept(q, CompleteImage(Fill(run, q, c), q.step))
      BY <1>8, <2>2 DEF RecordImageCompleted
    <3> QED
      BY <1>1, <1>4, <2>1, <2>2, <3>1, LastPanel
  <2>3. CASE ~PanelsDone(Fill(run, q, c), q.step)
    <3>1. run' = NextPanel(Fill(run, q, c), q.step) /\ charged' = charged \cup {q}
      BY <1>8, <2>3 DEF RecordImageCompleted
    <3>2. charged \in SUBSET Request
      BY <1>1
    <3>3. Walked(run') /\ Placed(run') /\ Paid(run', charged \cup {q})
      BY <1>1, <2>1, <3>1, <3>2, AnotherPanel
    <3> QED
      BY <3>1, <3>3
  <2> QED
    BY <2>2, <2>3
<1> QED
  BY <1>2, <1>6, <1>7, <1>8

-----------------------------------------------------------------------------
(* What users and failures do *)

\* A command that answers the run's pause takes it to its next step.
LEMMA CommandWalks ==
  ASSUME TypeOK, ~outOfTurn => Walked(run) /\ Placed(run) /\ Paid(run, charged),
         Commanded, ~Cancel, ~outOfTurn'
  PROVE  Walked(run)' /\ Placed(run)' /\ Paid(run, charged)'
<1>1. PICK i \in Step, P \in SUBSET Panel, mode \in RefMode : Asks(i, P, mode)
  BY CommandCases
<1>2. /\ run' = RequestStep(Resume(run), i, {}, run.opts.mode)
      /\ ~outOfTurn /\ InTurn(i) /\ UNCHANGED charged /\ CanRequest(run, i)
  BY <1>1 DEF Asks
<1> DEFINE r == Resume(run)
<1>3. /\ run \in Run /\ r \in Run /\ r.opts = run.opts /\ r.cur = run.cur /\ r.version = run.version
      /\ r.att = run.att /\ r.sent = run.sent /\ r.status = "running"
  BY StatusType, ResumeFields DEF TypeOK
<1>4. CanRequest(r, i)
  BY <1>2, <1>3, ResumeRequests
<1> HIDE DEF r
<1>5. i = r.cur + 1 /\ run.status = "awaiting_action"
  BY <1>2, <1>3 DEF InTurn
<1>6. Walked(r) /\ AllDone(r)
  BY <1>2, <1>3, <1>5 DEF Walked, Placed, AllDone
<1>7. charged \in SUBSET Request /\ \A q \in charged : q.version = 1 /\ q.step <= r.cur
  BY <1>2, <1>3 DEF TypeOK, Paid
<1>8. Requested(r, run', r.cur + 1, {}, r.opts.mode)
  <2>1. run' = RequestStep(r, r.cur + 1, {}, r.opts.mode)
    BY <1>2, <1>3, <1>5 DEF r
  <2> QED
    BY <1>3, <1>5, <2>1, RequestFields
<1>9. Walked(run') /\ Placed(run') /\ Paid(run', charged)
  BY <1>3, <1>4, <1>5, <1>6, <1>7, <1>8, WalkOn
<1> QED
  BY <1>2, <1>9

\* A run that stops where it is has walked as far as before, whatever the attempt of one
\* of its steps says now, unless it says it is complete.
LEMMA FailureWalks ==
  ASSUME NEW r \in Run, Walked(r), NEW requests, Paid(r, requests), NEW i \in Step, i <= r.cur
  PROVE  LET t == Fail(r, i)
         IN  Walked(t) /\ Placed(t) /\ Paid(t, requests)
<1> DEFINE a == [r.att[i] EXCEPT !.status = "failed"]
           t == Fail(r, i)
<1>1. /\ t.status = "failed" /\ t.cur = r.cur /\ t.version = r.version /\ t.sent = r.sent
      /\ t.att = [r.att EXCEPT ![i] = a]
  BY FailFields
<1>2. r.att[i] \in Attempt /\ r.att \in [Step -> Attempt] /\ r.cur \in Int /\ i \in Int
  <2>1. r.att[i] \in Attempt /\ r.att \in [Step -> Attempt] /\ r.cur \in Step
    BY DEF Run
  <2> QED
    BY <2>1 DEF Step
<1>3. /\ a.status = "failed" /\ a.expected = r.att[i].expected /\ a.out = r.att[i].out
      /\ a.done = r.att[i].done /\ a.panels = r.att[i].panels /\ a.input = r.att[i].input
  BY <1>2 DEF Attempt
<1>4. Sound(a, i)
  BY <1>3 DEF Walked, Sound, Counted, Arrived
<1> HIDE DEF a, t
<1>5. t.att[i] = a /\ \A j \in Step : j # i => t.att[j] = r.att[j]
  BY <1>1, <1>2
<1>6. \A j \in Step : j > t.cur => t.att[j].status = "pending"
  BY <1>1, <1>2, <1>5 DEF Walked
<1>7. \A j \in Step : j <= t.cur => Sound(t.att[j], j)
  BY <1>1, <1>4, <1>5 DEF Walked
<1>8. Walked(t)
  BY <1>1, <1>6, <1>7 DEF Walked
<1>9. Placed(t) /\ Paid(t, requests)
  BY <1>1 DEF Placed, Paid
<1> QED
  BY <1>8, <1>9 DEF t

\* Every step that leaves the run undisturbed keeps it on its walk.
LEMMA UndisturbedNext ==
  TypeOK /\ Undisturbed /\ [Next]_vars => Undisturbed'
<1> SUFFICES ASSUME TypeOK, Undisturbed, [Next]_vars, ~outOfTurn'
             PROVE  Walked(run)' /\ Placed(run)' /\ Paid(run, charged)'
  BY DEF Undisturbed
<1>1. run \in Run
  BY DEF TypeOK
<1>2. ASSUME NEW q \in run.sent, Answer(q)
      PROVE  Walked(run)' /\ Placed(run)' /\ Paid(run, charged)'
  <2>1. ~outOfTurn
    BY <1>2, AnswerCases DEF history
  <2> QED
    BY <1>2, <2>1, AnswerWalks DEF Undisturbed
<1>3. ASSUME NEW q \in run.sent, RecordStepFailed(q)
      PROVE  Walked(run)' /\ Placed(run)' /\ Paid(run, charged)'
  <2>1. ~outOfTurn /\ run' = Fail(run, q.step) /\ UNCHANGED charged
    BY <1>3 DEF RecordStepFailed, history
  <2>2. Walked(run) /\ Paid(run, charged)
    BY <2>1 DEF Undisturbed
  <2>3. q.step \in Step /\ q.step <= run.cur
    BY <1>1, <2>2 DEF Walked, Run, Request
  <2>4. Walked(run') /\ Placed(run') /\ Paid(run', charged)
    BY <1>1, <2>1, <2>2, <2>3, FailureWalks
  <2> QED
    BY <2>1, <2>4
<1>4. ASSUME Commanded, ~Cancel
      PROVE  Walked(run)' /\ Placed(run)' /\ Paid(run, charged)'
  BY <1>4, CommandWalks DEF Undisturbed
<1>5. ASSUME Cancel
      PROVE  Walked(run)' /\ Placed(run)' /\ Paid(run, charged)'
  <2>1. CancelsRun
    BY <1>5, CancelSteps
  <2>2. ~outOfTurn /\ UNCHANGED charged
    BY <2>1 DEF CancelsRun, history
  <2>3. Walked(run) /\ Paid(run, charged)
    BY <2>2 DEF Undisturbed
  <2>4. /\ run'.status = "cancelled" /\ run'.cur = run.cur /\ run'.version = run.version
        /\ run'.att = run.att /\ run'.sent = run.sent
    BY <2>1 DEF CancelsRun
  <2>5. Walked(run')
    BY <2>3, <2>4 DEF Walked
  <2>6. Placed(run') /\ Paid(run', charged)
    BY <2>3, <2>4 DEF Placed, Paid
  <2> QED
    BY <2>2, <2>5, <2>6
<1>6. CASE UNCHANGED vars
  BY <1>6 DEF vars, Undisturbed
<1> QED
  BY <1>2, <1>3, <1>4, <1>5, <1>6 DEF Next, Answered, Commanded

\* A created run stands at its script.
LEMMA UndisturbedInit == Init => Undisturbed
<1> SUFFICES ASSUME Init PROVE Walked(run) /\ Placed(run) /\ Paid(run, charged)
  BY DEF Undisturbed
<1>1. PICK o \in RunOptions : run = StartedRun(o)
  BY OptionsAssumption DEF Init
<1>2. /\ 0 \in Step /\ run.status = "running" /\ run.cur = 0
      /\ run.version = [j \in Step |-> IF j = 0 THEN 1 ELSE 0]
      /\ \A j \in Step : j # 0 => run.att[j] = NoAttempt
      /\ run.att[0].status = "running"
      /\ run.sent = {[step |-> 0, version |-> 1, panel |-> 0]}
  BY <1>1, StartedFields
<1>3. \A j \in Step : j \in Int /\ j >= 0
  BY DEF Step
<1>4. Sound(run.att[0], 0)
  BY <1>2, TemplateAssumption DEF Sound
<1>5. Walked(run)
  <2>1. \A j \in Step : run.version[j] = IF j <= run.cur THEN 1 ELSE 0
    BY <1>2, <1>3
  <2>2. \A j \in Step : j > run.cur => run.att[j].status = "pending"
    BY <1>2, <1>3 DEF NoAttempt
  <2>3. \A j \in Step : j <= run.cur => Sound(run.att[j], j)
    BY <1>2, <1>3, <1>4
  <2>4. \A q \in run.sent : q.version = 1 /\ q.step <= run.cur
    BY <1>2
  <2> QED
    BY <2>1, <2>2, <2>3, <2>4 DEF Walked
<1>6. Placed(run)
  BY <1>2, <1>3 DEF Placed
<1>7. Paid(run, charged)
  BY DEF Paid, Init
<1> QED
  BY <1>5, <1>6, <1>7

\* A run whose users only answer its pauses walks through its steps one by one, each under
\* version 1: the repeated, late and contradictory answers are all refused.
THEOREM UndisturbedRun == Spec => []Undisturbed
<1>1. Init => Undisturbed
  BY UndisturbedInit
<1>2. TypeOK /\ Undisturbed /\ [Next]_vars => Undisturbed'
  BY UndisturbedNext
<1> QED
  BY <1>1, <1>2, TypeCorrect, PTL DEF Spec

-----------------------------------------------------------------------------
(* What it means for the user *)

\* A run that completes has done all of its steps, and every panel of its script:
\* PipelineRun.CompletedMeansAllDone.
THEOREM CompletedIsAllDone == Spec => []CompletedMeansAllDone
<1>1. TypeOK /\ Undisturbed => CompletedMeansAllDone
  <2> SUFFICES ASSUME TypeOK, Undisturbed, ~outOfTurn, run.status = "completed", NEW i \in Step
               PROVE  /\ run.att[i].status = "completed"
                      /\ StepType[i] = "image" =>
                           \A p \in Panel : p < run.att[i].expected => run.att[i].out[p] # 0
    BY DEF CompletedMeansAllDone
  <2>1. Walked(run) /\ AllDone(run) /\ run.cur + 1 \notin Step /\ run.cur \in Step
    BY DEF Undisturbed, Placed, TypeOK, Run
  <2>2. i <= run.cur
    BY <2>1, TemplateAssumption DEF Step
  <2> QED
    BY <2>1, <2>2 DEF AllDone, Walked, Sound, Counted
<1> QED
  BY <1>1, TypeCorrect, UndisturbedRun, PTL

\* The renderer is never asked to assemble a video with a panel missing:
\* PipelineRun.NoBlankPanel.
THEOREM NoPanelIsBlank == Spec => []NoBlankPanel
<1>1. Undisturbed => NoBlankPanel
  BY DEF Undisturbed, NoBlankPanel, Walked, Sound
<1> QED
  BY <1>1, UndisturbedRun, PTL

\* Each kind of step comes after a step of the kind it cannot be requested without.  The
\* program checks this of the first step only (NewRunWithOptions): a template whose manual
\* assemble step has no image step before it pauses there for good.
NeedsMet == \A i \in Step : \A kind \in Needs(i) : \E j \in Step : j < i /\ StepType[j] = kind

\* A run of such a template that pauses can go on from where it paused:
\* PipelineRun.PauseCanResume.
THEOREM PausedCanResume == Spec => [](NeedsMet => PauseCanResume)
<1>1. TypeOK /\ Undisturbed => (NeedsMet => PauseCanResume)
  <2> SUFFICES ASSUME TypeOK, Undisturbed, NeedsMet, ~outOfTurn, run.status = "awaiting_action"
               PROVE  run.cur + 1 \in Step /\ CanRequest(run, run.cur + 1)
    BY DEF PauseCanResume
  <2>1. AllDone(run) /\ run.cur + 1 \in Step /\ run.cur \in Step
    BY DEF Undisturbed, Placed, TypeOK, Run
  <2>2. ASSUME NEW kind \in Needs(run.cur + 1)
        PROVE  Sources(run, kind, run.cur + 1) # {}
    <3>1. PICK j \in Step : j < run.cur + 1 /\ StepType[j] = kind
      BY <2>1 DEF NeedsMet
    <3>2. j <= run.cur
      BY <2>1, <3>1 DEF Step
    <3>3. j \in Sources(run, kind, run.cur + 1)
      BY <2>1, <3>1, <3>2 DEF Sources, AllDone
    <3> QED
      BY <3>3
  <2> QED
    BY <2>1, <2>2 DEF CanRequest
<1> QED
  BY <1>1, TypeCorrect, UndisturbedRun, PTL

\* An answer adds to the run's cost at most once, however often it is delivered:
\* PipelineRun.ChargedOnce.
THEOREM AnswersAreChargedOnce == Spec => ChargedOnce
<1>1. TypeOK /\ Undisturbed /\ [Next]_vars =>
        (run'.cost > run.cost /\ ~outOfTurn' => charged' # charged)
  <2> SUFFICES ASSUME TypeOK, Undisturbed, [Next]_vars, run'.cost > run.cost, ~outOfTurn'
               PROVE  charged' # charged
    OBVIOUS
  <2>1. run \in Run /\ run.cost \in Nat
    BY DEF TypeOK, Run
  <2>2. ASSUME NEW q \in run.sent, Answer(q)
        PROVE  charged' # charged
    <3>1. ~outOfTurn /\ charged' = charged \cup {q} /\ Open(run, q)
      BY <2>2, AnswerCases DEF history
    <3>2. Walked(run) /\ Placed(run) /\ Paid(run, charged)
      BY <3>1 DEF Undisturbed
    <3>3. q.step = run.cur /\ q.version = 1 /\ run.status = "running"
      BY <2>1, <3>1, <3>2, OpenIsCurrent DEF Open
    <3>4. StepType[q.step] = "image" => ~SameKey(run, q)
      BY <2>2 DEF Answer, RecordScriptCompleted, RecordImageCompleted, RecordAudioCompleted,
         RecordMusicCompleted, RecordCaptionCompleted, RecordAssembleCompleted,
         RecordUploadCompleted, SingleCompleted
    <3>5. q \notin charged
      BY <3>2, <3>3, <3>4 DEF Paid, SameKey
    <3> QED
      BY <3>1, <3>5
  <2>3. ASSUME NEW q \in run.sent, RecordStepFailed(q)
        PROVE  FALSE
    <3>1. run'.cost = run.cost
      BY <2>3, FailSteps DEF FailsAt
    <3> QED
      BY <2>1, <3>1
  <2>4. ASSUME Commanded, ~Cancel
        PROVE  FALSE
    <3>1. PICK i \in Step, P \in SUBSET Panel, mode \in RefMode : Asks(i, P, mode)
      BY <2>4, CommandCases
    <3>2. run'.cost = run.cost
      BY <3>1, AskSteps DEF AskedFields
    <3> QED
      BY <2>1, <3>2
  <2>5. ASSUME Cancel
        PROVE  FALSE
    BY <2>1, <2>5, CancelSteps DEF CancelsRun
  <2>6. ~UNCHANGED vars
    BY <2>1 DEF vars
  <2> QED
    BY <2>2, <2>3, <2>4, <2>5, <2>6 DEF Next, Answered, Commanded
<1> QED
  BY <1>1, TypeCorrect, UndisturbedRun, PTL DEF Spec, ChargedOnce
=============================================================================
