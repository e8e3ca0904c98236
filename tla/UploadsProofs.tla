---------------------------- MODULE UploadsProofs ----------------------------
(* Theorems about Uploads, for every set of scenes, every number of rows and   *)
(* every horizon.                                                              *)
EXTENDS Uploads, RunAggregateProofs, SequenceTheorems, FunctionTheorems

-----------------------------------------------------------------------------
(* Sequences and numbers *)

\* Induction on the natural numbers, for a set of them.
LEMMA SetInduction ==
  ASSUME NEW S, 0 \in S, \A n \in Nat : n \in S => n + 1 \in S
  PROVE  \A n \in Nat : n \in S
<1> DEFINE T == {n \in Nat : n \notin S}
<1> SUFFICES ASSUME T # {} PROVE FALSE
  OBVIOUS
<1>1. PICK m \in T : \A n \in T : ~(<<n, m>> \in OpToRel(<, Nat))
  <2>1. T \subseteq Nat
    OBVIOUS
  <2> HIDE DEF T
  <2> QED
    BY <2>1, NatLessThanWellFounded, WFMin
<1>2. m \in Nat /\ m \notin S /\ m # 0
  OBVIOUS
<1>3. m - 1 \in Nat /\ (m - 1) + 1 = m /\ m - 1 < m
  BY <1>2
<1>4. m - 1 \notin T
  BY <1>1, <1>2, <1>3 DEF OpToRel
<1> QED
  BY <1>2, <1>3, <1>4

\* A nonempty set of integers that has a bound has a largest.
LEMMA Largest ==
  ASSUME NEW T, NEW b \in Int, \A k \in T : k \in Int /\ k <= b, T # {}
  PROVE  Max(T) \in T /\ \A k \in T : k <= Max(T)
<1> DEFINE D == {n \in Nat : b - n \in T}
<1>1. PICK i \in T : TRUE
  OBVIOUS
<1>2. b - i \in D
  <2>1. i \in Int /\ b - i \in Nat /\ b - (b - i) = i
    BY <1>1
  <2> QED
    BY <2>1
<1>3. PICK m \in D : \A n \in D : ~(<<n, m>> \in OpToRel(<, Nat))
  <2>1. D \subseteq Nat /\ D # {}
    BY <1>2
  <2> HIDE DEF D
  <2> QED
    BY <2>1, NatLessThanWellFounded, WFMin
<1>4. \A n \in Nat : n < m => <<n, m>> \in OpToRel(<, Nat)
  BY <1>3 DEF OpToRel
<1>5. ASSUME NEW k \in T PROVE b - m >= k
  <2>1. k \in Int /\ b - k \in Nat /\ b - (b - k) = k
    OBVIOUS
  <2>2. b - k \in D
    BY <2>1
  <2>3. ~(b - k < m)
    BY <1>3, <1>4, <2>1, <2>2
  <2>4. m \in Nat
    BY <1>3
  <2> QED
    BY <2>1, <2>3, <2>4
<1>6. b - m \in T
  BY <1>3
<1>7. Max(T) \in T /\ \A k \in T : Max(T) >= k
  BY <1>5, <1>6 DEF Max
<1> QED
  BY <1>7

\* A function on 1..n is a sequence of length n.
LEMMA SeqOfFunction ==
  ASSUME NEW S, NEW n \in Nat, NEW f \in [1..n -> S]
  PROVE  f \in Seq(S) /\ Len(f) = n
<1>1. f \in Seq(S)
  BY SeqDef
<1>2. Len(f) \in Nat /\ DOMAIN f = 1..Len(f)
  BY <1>1, LenProperties
<1> QED
  BY <1>1, <1>2

\* Replacing an element leaves a sequence of the same length.
LEMMA ReplaceInSeq ==
  ASSUME NEW S, NEW s \in Seq(S), NEW i, NEW e \in S
  PROVE  LET t == [s EXCEPT ![i] = e]
         IN  /\ t \in Seq(S) /\ Len(t) = Len(s) /\ DOMAIN t = DOMAIN s
             /\ \A j \in DOMAIN s : t[j] = IF j = i THEN e ELSE s[j]
<1>1. Len(s) \in Nat /\ s \in [1..Len(s) -> S]
  BY LenProperties
<1> DEFINE t == [s EXCEPT ![i] = e]
<1>2. t \in [1..Len(s) -> S]
  BY <1>1
<1>3. t \in Seq(S) /\ Len(t) = Len(s)
  BY <1>1, <1>2, SeqOfFunction
<1> QED
  BY <1>1, <1>3

-----------------------------------------------------------------------------
(* The run *)

\* The template has the steps the consumer asks for.
LEMMA TheSteps ==
  CaptionStep \in Step /\ UploadStep \in Step /\ StepType[UploadStep] = "upload"
BY TemplateHasUpload, FirstOfFound DEF CaptionStep, UploadStep

\* The run moves from a run to a run that has sent as much and perhaps more, and the worker
\* is asked for what is new; a cancelled run does not move.
RunMoves ==
  /\ run' \in Run
  /\ OwnJobs(run) \subseteq OwnJobs(run)'
  /\ jobs' = jobs \cup (OwnJobs(run)' \ OwnJobs(run))
  /\ run.status = "cancelled" => UNCHANGED run

\* A run with more requests sent has more uploads of its own.
LEMMA OwnJobsGrow ==
  ASSUME NEW r, NEW t, r.sent \subseteq t.sent
  PROVE  OwnJobs(r) \subseteq OwnJobs(t)
BY DEF OwnJobs

\* Requesting a step, stopping and failing take back no request.
LEMMA SentGrows ==
  ASSUME NEW r \in Run
  PROVE  /\ \A i \in Step : CanAdvance(r, i) => r.sent \subseteq Advance(r, i).sent
         /\ \A i \in Step : r.sent \subseteq Fail(r, i).sent
         /\ \A i \in Step : r.sent \subseteq RequestPlain(Resume(r), i).sent
         /\ \A s : r.sent \subseteq Finish(r, s).sent
<1>1. ASSUME NEW t \in Run, NEW i \in Step
      PROVE  t.sent \subseteq RequestPlain(t, i).sent
  <2>1. Requested(t, RequestPlain(t, i), i, {}, t.opts.mode)
    BY <1>1, RequestFields DEF RequestPlain
  <2> QED
    BY <2>1 DEF Requested
<1>2. \A s : Finish(r, s).sent = r.sent
  BY FinishFields
<1>3. Await(r).sent = r.sent
  BY AwaitFields
<1>4. \A i \in Step : CanAdvance(r, i) => r.sent \subseteq Advance(r, i).sent
  <2> SUFFICES ASSUME NEW i \in Step PROVE r.sent \subseteq Advance(r, i).sent
    OBVIOUS
  <2>1. CASE GoesOn(r, i) /\ Advance(r, i) = RequestPlain(r, i + 1)
    BY <1>1, <2>1 DEF GoesOn
  <2> QED
    BY <1>2, <1>3, <2>1, AdvanceCases
<1>5. \A i \in Step : r.sent \subseteq Fail(r, i).sent
  BY DEF Fail, Finish, Run
<1>6. \A i \in Step : r.sent \subseteq RequestPlain(Resume(r), i).sent
  <2>1. Resume(r) \in Run /\ Resume(r).sent = r.sent
    BY StatusType, ResumeFields
  <2> QED
    BY <1>1, <2>1
<1> QED
  BY <1>2, <1>4, <1>5, <1>6

\* A step of the run that was closed moves it.
LEMMA CloseMoves ==
  ASSUME run \in Run, NEW q \in Request, Open(run, q), NEW i \in Step,
         CanAdvance(Close(run, q, 0, 0), i), RunBecomes(Advance(Close(run, q, 0, 0), i))
  PROVE  RunMoves
<1> DEFINE r == Close(run, q, 0, 0)
<1>1. r \in Run
  BY CloseType, PanelsAssumption
<1>2. r.sent = run.sent
  BY DEF Close, Run
<1> HIDE DEF r
<1>3. Advance(r, i) \in Run /\ r.sent \subseteq Advance(r, i).sent
  BY <1>1, AdvanceType, SentGrows DEF r
<1>4. run' = Advance(r, i) /\ jobs' = jobs \cup (OwnJobs(Advance(r, i)) \ OwnJobs(run))
  BY DEF RunBecomes, r
<1>5. OwnJobs(run) \subseteq OwnJobs(Advance(r, i))
  BY <1>2, <1>3, OwnJobsGrow
<1>6. run.status # "cancelled"
  BY DEF Open
<1> QED
  BY <1>3, <1>4, <1>5, <1>6 DEF RunMoves

\* Every transaction that touches the run moves it.
LEMMA RunSteps ==
  ASSUME run \in Run
  PROVE  /\ UNCHANGED <<run, jobs>> => RunMoves
         /\ \A j \in Job : StepCompleted(j) \/ StepFailed(j) => RunMoves
         /\ run.status \in {"running", "awaiting_action"} /\ RunBecomes(Finish(run, "cancelled"))
              => RunMoves
         /\ /\ run.status # "cancelled" /\ CanRequest(run, UploadStep)
            /\ RunBecomes(RequestPlain(Resume(run), UploadStep))
            => RunMoves
<1>1. UNCHANGED <<run, jobs>> => RunMoves
  BY DEF RunMoves, OwnJobs
<1>2. ASSUME NEW j \in Job, StepCompleted(j)
      PROVE  RunMoves
  <2> DEFINE q == UploadRequest(j.version)
  <2>1. q \in Request
    BY TheSteps, PanelsAssumption DEF UploadRequest, Request, Job, Panel
  <2> QED
    BY <1>1, <1>2, <2>1, CloseMoves, TheSteps DEF StepCompleted
<1>3. ASSUME NEW t, t \in Run, run.sent \subseteq t.sent, RunBecomes(t), run.status # "cancelled"
      PROVE  RunMoves
  <2>1. OwnJobs(run) \subseteq OwnJobs(t)
    BY <1>3, OwnJobsGrow
  <2> QED
    BY <1>3, <2>1 DEF RunMoves, RunBecomes
<1>4. ASSUME NEW j \in Job, StepFailed(j)
      PROVE  RunMoves
  <2>1. CASE j.row = 0 /\ run.status = "running"
    <3>1. Fail(run, UploadStep) \in Run /\ run.sent \subseteq Fail(run, UploadStep).sent
      BY StatusType, SentGrows, TheSteps
    <3> QED
      BY <1>3, <1>4, <2>1, <3>1 DEF StepFailed
  <2> QED
    BY <1>1, <1>4, <2>1 DEF StepFailed
<1>5. ASSUME run.status \in {"running", "awaiting_action"}, RunBecomes(Finish(run, "cancelled"))
      PROVE  RunMoves
  BY <1>3, <1>5, StatusType, SentGrows DEF Notice
<1>6. ASSUME run.status # "cancelled", CanRequest(run, UploadStep),
             RunBecomes(RequestPlain(Resume(run), UploadStep))
      PROVE  RunMoves
  <2>1. Resume(run) \in Run /\ CanRequest(Resume(run), UploadStep)
    <3>1. Resume(run) \in Run /\ Resume(run).att = run.att
      BY StatusType, ResumeFields
    <3> QED
      BY <1>6, <3>1 DEF CanRequest, Sources
  <2>2. RequestPlain(Resume(run), UploadStep) \in Run
    BY <2>1, RequestPlainType, TheSteps
  <2> QED
    BY <1>3, <1>6, <2>2, SentGrows, TheSteps
<1> QED
  BY <1>1, <1>2, <1>4, <1>5, <1>6

-----------------------------------------------------------------------------
(* Rows, records and their sets *)

\* Sets of the indexes of a sequence are finite.
LEMMA IndexesFinite ==
  ASSUME NEW S, NEW s \in Seq(S), NEW T \in SUBSET DOMAIN s
  PROVE  IsFiniteSet(T) /\ Cardinality(T) \in Nat
<1>1. DOMAIN s = 1..Len(s) /\ Len(s) \in Nat
  BY LenProperties
<1>2. IsFiniteSet(DOMAIN s)
  BY <1>1, FS_Interval
<1> QED
  BY <1>2, FS_Subset, FS_CardinalityType

\* What Append does to the indexes and the elements.
LEMMA Appended ==
  ASSUME NEW S, NEW s \in Seq(S), NEW e \in S
  PROVE  LET t == Append(s, e)
         IN  /\ t \in Seq(S)
             /\ Len(s) \in Nat /\ DOMAIN s = 1..Len(s) /\ Len(t) = Len(s) + 1
             /\ DOMAIN t = DOMAIN s \cup {Len(s) + 1} /\ Len(s) + 1 \notin DOMAIN s
             /\ \A i \in DOMAIN s : t[i] = s[i]
             /\ t[Len(s) + 1] = e
<1>1. /\ Len(s) \in Nat /\ DOMAIN s = 1..Len(s)
      /\ DOMAIN Append(s, e) = 1..(Len(s) + 1)
      /\ Append(s, e)[Len(s) + 1] = e
      /\ \A i \in 1..Len(s) : Append(s, e)[i] = s[i]
  BY LenProperties, AppendProperties
<1>2. Append(s, e) \in Seq(S) /\ Len(Append(s, e)) = Len(s) + 1
  BY AppendProperties
<1>3. 1..(Len(s) + 1) = (1..Len(s)) \cup {Len(s) + 1} /\ Len(s) + 1 \notin 1..Len(s)
  BY <1>1
<1> QED
  BY <1>1, <1>2, <1>3

\* The methods of a record return records.
LEMMA RecordTypes ==
  ASSUME NEW r \in Record
  PROVE  /\ \A j \in Job, v \in Visibility : MarkUploaded(r, j, v) \in Record
         /\ MarkFailed(r) \in Record /\ PromoteToPublished(r) \in Record
         /\ \A k, b \in BOOLEAN : ApplyLLMMetadata(r, k, b) \in Record
         /\ \A meta \in Metadata : OverrideMetadata(r, meta) \in Record
         /\ Approve(r) \in Record /\ Reject(r) \in Record
<1>0. r.metadata \in Metadata
  BY DEF Record
<1>1. \A j \in Job, v \in Visibility : MarkUploaded(r, j, v) \in Record
  BY DEF MarkUploaded, Record, UploadStatus, Metadata
<1>2. MarkFailed(r) \in Record
  BY DEF MarkFailed, Record, UploadStatus
<1>3. PromoteToPublished(r) \in Record
  BY DEF PromoteToPublished, Record, UploadStatus, Metadata, Visibility
<1>4. ASSUME NEW k \in BOOLEAN, NEW b \in BOOLEAN
      PROVE  ApplyLLMMetadata(r, k, b) \in Record
  BY DEF ApplyLLMMetadata, Record, UploadStatus, Text, Metadata
<1>5. \A meta \in Metadata : OverrideMetadata(r, meta) \in Record
  BY DEF OverrideMetadata, Record
<1>6. Approve(r) \in Record
  BY DEF Approve, Record, UploadStatus
<1>7. Reject(r) \in Record
  BY DEF Reject, Record, UploadStatus
<1> QED
  BY <1>1, <1>2, <1>3, <1>4, <1>5, <1>6, <1>7

\* A new record is pending, and has no metadata and no reference.
LEMMA NewRecordType ==
  ASSUME NEW k \in Nat, NEW p \in UploadProvider
  PROVE  /\ NewUploadRecord(k, p, NoMetadata) \in Record
         /\ NewUploadRecord(k, p, NoMetadata).status = "pending"
         /\ NewUploadRecord(k, p, NoMetadata).provider = p
BY DEF NewUploadRecord, NoMetadata, Record, Metadata, UploadStatus, Text, Visibility, Job, NoJob

\* The API uploads counted against the quota, and one more of them.
LEMMA ApiUsedType ==
  ASSUME NEW s \in Seq(Record)
  PROVE  ApiUsed(s) \in Nat
BY IndexesFinite DEF ApiUsed

\* A new record counts if it is made for the API.
LEMMA ApiUsedAppend ==
  ASSUME NEW s \in Seq(Record), NEW u \in Record, u.status = "pending"
  PROVE  ApiUsed(Append(s, u)) =
           IF u.provider = "youtube_api" THEN ApiUsed(s) + 1 ELSE ApiUsed(s)
<1> DEFINE U(t) == {i \in DOMAIN t : t[i].provider = "youtube_api"
                                     /\ t[i].status \notin {"failed", "rejected"}}
<1>1. /\ Len(s) \in Nat /\ DOMAIN Append(s, u) = DOMAIN s \cup {Len(s) + 1}
      /\ Len(s) + 1 \notin DOMAIN s
      /\ \A i \in DOMAIN s : Append(s, u)[i] = s[i]
      /\ Append(s, u)[Len(s) + 1] = u
  BY Appended
<1>2. U(Append(s, u)) = IF u.provider = "youtube_api" THEN U(s) \cup {Len(s) + 1} ELSE U(s)
  BY <1>1
<1>3. IsFiniteSet(U(s)) /\ Len(s) + 1 \notin U(s)
  BY <1>1, IndexesFinite
<1>4. ApiUsed(s) = Cardinality(U(s)) /\ ApiUsed(Append(s, u)) = Cardinality(U(Append(s, u)))
  BY DEF ApiUsed
<1>5. Cardinality(U(s) \cup {Len(s) + 1}) = Cardinality(U(s)) + 1
  BY <1>3, FS_AddElement
<1> HIDE DEF U
<1> QED
  BY <1>2, <1>4, <1>5

-----------------------------------------------------------------------------
(* A tick *)

Tables == [rows : Seq(Row), recs : Seq(Record), firing : Seq(Nat)]

Chosen(order, n, k) == \E m \in 1..n : order[m] = k
Fires(b, k) == \E m \in DOMAIN b.firing : b.firing[m] = k

\* Selenium is there for every row, so the API is used within its quota only.
SeleniumWillDo == scene.selenium /\ \A k \in DOMAIN rows : rows[k].method # "api"

\* The tables b after the rows order[1], ..., order[n] were fired: these rows are in flight
\* or failed, the others as they were; the ones in flight are those the tick will publish,
\* each once; the records have grown by pending ones, and not past the quota.
FiredSoFar(b, order, n) ==
  /\ b \in Tables /\ DOMAIN b.rows = DOMAIN rows
  /\ DOMAIN recs \subseteq DOMAIN b.recs
  /\ \A i \in DOMAIN recs : b.recs[i] = recs[i]
  /\ \A i \in DOMAIN b.recs : i \notin DOMAIN recs => b.recs[i].status = "pending"
  /\ \A k \in DOMAIN rows :
       /\ b.rows[k].at = rows[k].at /\ b.rows[k].method = rows[k].method
       /\ IF Chosen(order, n, k) THEN b.rows[k].status = IF Fires(b, k) THEN "in_flight" ELSE "failed"
          ELSE b.rows[k] = rows[k]
  /\ \A m \in DOMAIN b.firing : Chosen(order, n, b.firing[m])
  /\ \A m, l \in DOMAIN b.firing : m # l => b.firing[m] # b.firing[l]
  /\ SeleniumWillDo /\ ApiUsed(b.recs) > ApiUsed(recs) => ApiUsed(b.recs) <= ApiCap

\* A row as firing it leaves it.
FiredAs(row, st, n) == [row EXCEPT !.status = st, !.fired = n]

\* A row that is fired keeps its time and its method.
LEMMA FiredRowType ==
  ASSUME NEW row \in Row, NEW st \in ScheduleStatus, NEW n \in Nat
  PROVE  /\ FiredAs(row, st, n) \in Row /\ FiredAs(row, st, n).status = st
         /\ FiredAs(row, st, n).at = row.at /\ FiredAs(row, st, n).method = row.method
BY DEF Row, FiredAs

\* Firing a row changes that row; it makes a record and joins the rows to be published
\* unless it has no provider.
LEMMA FireRowIs ==
  ASSUME NEW b \in Tables, NEW k \in DOMAIN b.rows, k \in Nat, b.rows[k] \in Row, ticks \in Nat,
         NEW p, p = PickProvider(b.rows[k], b.recs),
         NEW u, u = NewUploadRecord(k, p, NoMetadata),
         NEW st, st = IF p = "error" THEN "failed" ELSE "in_flight",
         NEW c, c = FireRow(b, k)
  PROVE  /\ c \in Tables /\ u.status = "pending" /\ u.provider = p
         /\ p # "error" => u \in Record
         /\ DOMAIN c.rows = DOMAIN b.rows
         /\ \A l \in DOMAIN b.rows : l # k => c.rows[l] = b.rows[l]
         /\ c.rows[k].status = st
         /\ c.rows[k].at = b.rows[k].at /\ c.rows[k].method = b.rows[k].method
         /\ c.recs = IF p = "error" THEN b.recs ELSE Append(b.recs, u)
         /\ c.firing = IF p = "error" THEN b.firing ELSE Append(b.firing, k)
<1>1. PICK e : e = FiredAs(b.rows[k], st, ticks + 1)
  OBVIOUS
<1>2. e \in Row /\ e.status = st /\ e.at = b.rows[k].at /\ e.method = b.rows[k].method
  <2>1. st \in ScheduleStatus /\ ticks + 1 \in Nat
    BY DEF ScheduleStatus
  <2> QED
    BY <1>1, <2>1, FiredRowType
<1>3. c = [rows   |-> [b.rows EXCEPT ![k] = e],
           recs   |-> IF p = "error" THEN b.recs ELSE Append(b.recs, u),
           firing |-> IF p = "error" THEN b.firing ELSE Append(b.firing, k)]
  <2>1. CASE p = "error"
    <3> DEFINE s == [b.rows EXCEPT ![k] = [b.rows[k] EXCEPT !.status = "failed"]]
    <3>1. c = [[b EXCEPT !.rows = s] EXCEPT !.rows = [s EXCEPT ![k] = [s[k] EXCEPT !.fired = ticks + 1]]]
      BY <2>1, Zenon DEF FireRow
    <3>2. s[k] = [b.rows[k] EXCEPT !.status = "failed"]
      OBVIOUS
    <3>3. [s EXCEPT ![k] = [s[k] EXCEPT !.fired = ticks + 1]] = [b.rows EXCEPT ![k] = e]
      BY <1>1, <2>1, <3>2 DEF FiredAs
    <3> HIDE DEF s
    <3> QED
      BY <2>1, <3>1, <3>3 DEF Tables
  <2>2. CASE p # "error"
    BY <1>1, <2>2 DEF FireRow, FiredAs
  <2> QED
    BY <2>1, <2>2
<1>4. u.status = "pending" /\ u.provider = p /\ (p # "error" => u \in Record)
  <2>1. p # "error" => p \in UploadProvider
    BY DEF PickProvider, UploadProvider
  <2>2. u.status = "pending" /\ u.provider = p
    BY DEF NewUploadRecord
  <2> QED
    BY <2>1, <2>2, NewRecordType
<1>5. b.rows \in Seq(Row) /\ b.recs \in Seq(Record) /\ b.firing \in Seq(Nat)
  BY DEF Tables
<1>6. /\ [b.rows EXCEPT ![k] = e] \in Seq(Row)
      /\ DOMAIN [b.rows EXCEPT ![k] = e] = DOMAIN b.rows
      /\ \A l \in DOMAIN b.rows : [b.rows EXCEPT ![k] = e][l] = IF l = k THEN e ELSE b.rows[l]
  BY <1>2, <1>5, ReplaceInSeq
<1>7. p # "error" => Append(b.recs, u) \in Seq(Record) /\ Append(b.firing, k) \in Seq(Nat)
  BY <1>4, <1>5, Appended
<1> QED
  BY <1>2, <1>3, <1>4, <1>5, <1>6, <1>7 DEF Tables

\* Firing one more row goes on from there.
LEMMA FireOneMore ==
  ASSUME TypeOK, NEW n \in Nat, NEW order,
         NEW k \in DOMAIN rows, order[n + 1] = k, ~Chosen(order, n, k),
         NEW b, FiredSoFar(b, order, n),
         NEW c, c = FireRow(b, k)
  PROVE  FiredSoFar(c, order, n + 1)
<1>1. PICK p, u, st :
        /\ p = PickProvider(b.rows[k], b.recs) /\ u = NewUploadRecord(k, p, NoMetadata)
        /\ st = IF p = "error" THEN "failed" ELSE "in_flight"
  OBVIOUS
<1>2. /\ b \in Tables /\ DOMAIN b.rows = DOMAIN rows /\ ticks \in Nat
      /\ b.rows \in Seq(Row) /\ b.recs \in Seq(Record) /\ b.firing \in Seq(Nat)
  BY DEF FiredSoFar, Tables, TypeOK
<1>3. k \in Nat /\ k \in DOMAIN b.rows /\ b.rows[k] \in Row /\ b.rows[k] = rows[k]
  <2>1. rows \in Seq(Row)
    BY DEF TypeOK
  <2>2. DOMAIN rows = 1..Len(rows) /\ \A i \in 1..Len(rows) : rows[i] \in Row
    BY <2>1, LenProperties, ElementOfSeq
  <2>3. k \in Nat
    BY <2>1, <2>2, LenProperties
  <2> QED
    BY <2>2, <2>3 DEF FiredSoFar
<1>4. /\ c \in Tables /\ u.status = "pending" /\ u.provider = p
      /\ p # "error" => u \in Record
      /\ DOMAIN c.rows = DOMAIN b.rows
      /\ \A l \in DOMAIN b.rows : l # k => c.rows[l] = b.rows[l]
      /\ c.rows[k].status = st
      /\ c.rows[k].at = b.rows[k].at /\ c.rows[k].method = b.rows[k].method
      /\ c.recs = IF p = "error" THEN b.recs ELSE Append(b.recs, u)
      /\ c.firing = IF p = "error" THEN b.firing ELSE Append(b.firing, k)
  BY <1>1, <1>2, <1>3, FireRowIs
<1>5. \A l : Chosen(order, n + 1, l) <=> Chosen(order, n, l) \/ l = k
  BY DEF Chosen
<1>6. ~Fires(b, k)
  BY DEF FiredSoFar, Fires
<1>7. /\ \A l : Fires(c, l) <=> Fires(b, l) \/ (l = k /\ p # "error")
      /\ \A m \in DOMAIN c.firing : Chosen(order, n + 1, c.firing[m])
      /\ \A m, l \in DOMAIN c.firing : m # l => c.firing[m] # c.firing[l]
  <2>1. CASE p = "error"
    BY <1>4, <1>5, <2>1 DEF FiredSoFar, Fires
  <2>2. CASE p # "error"
    <3>1. /\ DOMAIN c.firing = DOMAIN b.firing \cup {Len(b.firing) + 1}
          /\ Len(b.firing) + 1 \notin DOMAIN b.firing
          /\ \A m \in DOMAIN b.firing : c.firing[m] = b.firing[m]
          /\ c.firing[Len(b.firing) + 1] = k
      <4>1. c.firing = Append(b.firing, k)
        BY <1>4, <2>2
      <4>2. b.firing \in Seq(Nat) /\ k \in Nat
        BY <1>2, <1>3
      <4> QED
        BY <4>1, <4>2, Appended
    <3>2. \A l : Fires(c, l) <=> Fires(b, l) \/ l = k
      BY <3>1 DEF Fires
    <3>3. \A m \in DOMAIN c.firing : Chosen(order, n + 1, c.firing[m])
      BY <1>5, <3>1 DEF FiredSoFar
    <3>4. \A m \in DOMAIN b.firing : b.firing[m] # k
      BY <1>6 DEF Fires
    <3>5. \A m, l \in DOMAIN c.firing : m # l => c.firing[m] # c.firing[l]
      BY <3>1, <3>4 DEF FiredSoFar
    <3> QED
      BY <2>2, <3>2, <3>3, <3>5
  <2> QED
    BY <2>1, <2>2
<1>8. \A l \in DOMAIN rows :
        /\ c.rows[l].at = rows[l].at /\ c.rows[l].method = rows[l].method
        /\ IF Chosen(order, n + 1, l)
           THEN c.rows[l].status = IF Fires(c, l) THEN "in_flight" ELSE "failed"
           ELSE c.rows[l] = rows[l]
  BY <1>1, <1>2, <1>3, <1>4, <1>5, <1>6, <1>7 DEF FiredSoFar
<1>9. p # "error" => /\ DOMAIN c.recs = DOMAIN b.recs \cup {Len(b.recs) + 1}
                     /\ \A i \in DOMAIN b.recs : c.recs[i] = b.recs[i]
                     /\ c.recs[Len(b.recs) + 1] = u
  BY <1>2, <1>4, Appended
<1>10. /\ DOMAIN recs \subseteq DOMAIN c.recs
       /\ \A i \in DOMAIN recs : c.recs[i] = recs[i]
       /\ \A i \in DOMAIN c.recs : i \notin DOMAIN recs => c.recs[i].status = "pending"
  BY <1>4, <1>9 DEF FiredSoFar
<1>11. SeleniumWillDo /\ ApiUsed(c.recs) > ApiUsed(recs) => ApiUsed(c.recs) <= ApiCap
  <2>1. ApiUsed(b.recs) \in Nat /\ ApiUsed(recs) \in Nat /\ ApiCap \in Nat
    BY <1>2, ApiUsedType, BoundsAssumption DEF TypeOK
  <2>2. SeleniumWillDo /\ ApiUsed(b.recs) > ApiUsed(recs) => ApiUsed(b.recs) <= ApiCap
    BY DEF FiredSoFar
  <2>3. CASE p = "error"
    BY <1>4, <2>2, <2>3
  <2>4. CASE p # "error"
    <3>1. ApiUsed(c.recs) = IF p = "youtube_api" THEN ApiUsed(b.recs) + 1 ELSE ApiUsed(b.recs)
      BY <1>2, <1>4, <2>4, ApiUsedAppend
    <3>2. SeleniumWillDo => b.rows[k].method # "api" /\ scene.selenium
      BY <1>3 DEF SeleniumWillDo
    <3>3. SeleniumWillDo /\ p = "youtube_api" => ApiUsed(b.recs) < ApiCap
      BY <1>1, <3>2 DEF PickProvider
    <3> QED
      BY <2>1, <2>2, <3>1, <3>3
  <2> QED
    BY <2>3, <2>4
<1> QED
  BY <1>2, <1>4, <1>7, <1>8, <1>10, <1>11 DEF FiredSoFar

\* A tick's transaction fires the rows of its order one after the other.
LEMMA FireAll ==
  ASSUME TypeOK, NEW t, NEW order \in DueOrders(t)
  PROVE  /\ Len(order) \in Nat /\ DOMAIN order = 1..Len(order)
         /\ FiredSoFar(FireRows(order), order, Len(order))
<1> DEFINE b0 == [rows |-> rows, recs |-> recs, firing |-> <<>>]
           Eq(u, m) == u = [n \in 0..m |-> IF n = 0 THEN b0 ELSE FireRow(u[n - 1], order[n])]
<1>1. Len(order) \in Nat /\ DOMAIN order = 1..Len(order) /\ order \in [1..Len(order) -> Due(t)]
  <2>1. Due(t) \in SUBSET DOMAIN rows
    BY DEF Due
  <2>2. Cardinality(Due(t)) \in Nat
    BY <2>1, IndexesFinite DEF TypeOK
  <2>3. order \in [1..Cardinality(Due(t)) -> Due(t)]
    BY DEF DueOrders
  <2> QED
    BY <2>2, <2>3, SeqOfFunction
<1>2. \A i \in 1..Len(order) : order[i] \in DOMAIN rows
  BY <1>1 DEF Due
<1>3. \A i, j \in 1..Len(order) : i < j => order[i] # order[j]
  BY <1>1 DEF DueOrders
<1>4. \A m \in Nat : \E u : Eq(u, m)
  <2> DEFINE S == {m \in Nat : \E u : Eq(u, m)}
  <2>1. 0 \in S
    <3>1. Eq([n \in 0..0 |-> b0], 0)
      OBVIOUS
    <3> QED
      BY <3>1
  <2>2. ASSUME NEW m \in Nat, m \in S PROVE m + 1 \in S
    <3>1. PICK u : Eq(u, m)
      BY <2>2
    <3> DEFINE v == [n \in 0..(m + 1) |-> IF n = m + 1 THEN FireRow(u[m], order[m + 1]) ELSE u[n]]
    <3>2. ASSUME NEW n \in 0..(m + 1)
          PROVE  v[n] = IF n = 0 THEN b0 ELSE FireRow(v[n - 1], order[n])
      <4>1. CASE n = m + 1
        BY <4>1
      <4>2. CASE n # m + 1
        <5>1. n \in 0..m /\ v[n] = u[n]
          BY <4>2
        <5>2. u[n] = IF n = 0 THEN b0 ELSE FireRow(u[n - 1], order[n])
          BY <3>1, <5>1
        <5>3. n # 0 => v[n - 1] = u[n - 1]
          BY <5>1
        <5> QED
          BY <5>1, <5>2, <5>3
      <4> QED
        BY <4>1, <4>2
    <3>3. Eq(v, m + 1)
      BY <3>2
    <3>4. m + 1 \in Nat
      OBVIOUS
    <3> QED
      BY <3>3, <3>4
  <2> HIDE DEF S
  <2>3. \A m \in Nat : m \in S
    BY <2>1, <2>2, SetInduction
  <2> QED
    BY <2>3 DEF S
<1> DEFINE tables == CHOOSE u : Eq(u, Len(order))
<1>5. Eq(tables, Len(order))
  BY <1>1, <1>4
<1>6. FireRows(order) = tables[Len(order)]
  BY DEF FireRows
<1>7. tables[0] = b0 /\ \A n \in 1..Len(order) : tables[n] = FireRow(tables[n - 1], order[n])
  <2> HIDE DEF tables
  <2> QED
    BY <1>1, <1>5
<1> HIDE DEF tables
<1>8. FiredSoFar(b0, order, 0)
  <2>1. b0 \in Tables /\ b0.rows = rows /\ b0.recs = recs /\ b0.firing = <<>>
    BY DEF Tables, TypeOK
  <2>2. DOMAIN b0.firing = {}
    BY <2>1
  <2>3. ApiUsed(recs) \in Nat
    BY IndexesFinite DEF ApiUsed, TypeOK
  <2>4. \A k : ~Chosen(order, 0, k)
    BY DEF Chosen
  <2> HIDE DEF b0
  <2> QED
    BY <2>1, <2>2, <2>3, <2>4 DEF FiredSoFar
<1> DEFINE S == {n \in Nat : n <= Len(order) => FiredSoFar(tables[n], order, n)}
<1>9. 0 \in S
  BY <1>7, <1>8
<1>10. ASSUME NEW n \in Nat, n \in S PROVE n + 1 \in S
  <2> SUFFICES ASSUME n + 1 <= Len(order) PROVE FiredSoFar(tables[n + 1], order, n + 1)
    OBVIOUS
  <2>1. n + 1 \in 1..Len(order) /\ (n + 1) - 1 = n /\ n <= Len(order)
    BY <1>1
  <2>2. order[n + 1] \in DOMAIN rows /\ tables[n + 1] = FireRow(tables[n], order[n + 1])
    BY <1>2, <1>7, <2>1
  <2>3. ~Chosen(order, n, order[n + 1])
    BY <1>1, <1>3, <2>1 DEF Chosen
  <2>4. FiredSoFar(tables[n], order, n)
    BY <1>10, <2>1
  <2> QED
    BY <2>2, <2>3, <2>4, FireOneMore
<1>11. \A n \in Nat : n \in S
  <2> HIDE DEF S
  <2> QED
    BY <1>9, <1>10, SetInduction
<1>12. FiredSoFar(tables[Len(order)], order, Len(order))
  BY <1>1, <1>11
<1> QED
  BY <1>1, <1>6, <1>12

-----------------------------------------------------------------------------
(* Types *)

\* A nonempty set of indexes has a largest.
LEMMA LastIndex ==
  ASSUME NEW S, NEW s \in Seq(S), NEW T \in SUBSET DOMAIN s, T # {}
  PROVE  Max(T) \in T
<1>1. Len(s) \in Nat /\ DOMAIN s = 1..Len(s)
  BY LenProperties
<1>2. \A k \in T : k \in Int /\ k <= Len(s)
  BY <1>1
<1> QED
  BY <1>1, <1>2, Largest

\* A result finds a record where there is one.
LEMMA RecordFound ==
  ASSUME NEW rs \in Seq(Record), rs # <<>>
  PROVE  RecordForResult(rs) \in DOMAIN rs /\ RecordForResult(rs) \in Nat
                   /\ rs[RecordForResult(rs)] \in Record
<1>1. Len(rs) \in Nat \ {0} /\ DOMAIN rs = 1..Len(rs) /\ \A i \in 1..Len(rs) : rs[i] \in Record
  BY LenProperties, EmptySeq, ElementOfSeq
<1> DEFINE P == {i \in DOMAIN rs : rs[i].status = "pending"}
<1>2. P # {} => Max(P) \in P
  BY LastIndex
<1>3. RecordForResult(rs) = IF P # {} THEN Max(P) ELSE Len(rs)
  BY DEF RecordForResult
<1> QED
  BY <1>1, <1>2, <1>3

\* What a sequence, and what it leaves when its first element is taken, are made of.
LEMMA Taken ==
  ASSUME NEW S, NEW s \in Seq(S), s # <<>>
  PROVE  /\ Head(s) \in S /\ Tail(s) \in Seq(S)
         /\ Len(s) \in Nat \ {0} /\ DOMAIN s = 1..Len(s) /\ Head(s) = s[1]
         /\ Len(Tail(s)) = Len(s) - 1 /\ DOMAIN Tail(s) = 1..(Len(s) - 1)
         /\ \A i \in DOMAIN Tail(s) : Tail(s)[i] = s[i + 1]
<1>1. Len(s) \in Nat \ {0} /\ DOMAIN s = 1..Len(s)
  BY LenProperties, EmptySeq
<1>2. /\ Head(s) \in S /\ Tail(s) \in Seq(S) /\ Len(Tail(s)) = Len(s) - 1
      /\ \A i \in 1..Len(Tail(s)) : Tail(s)[i] = s[i + 1]
  BY HeadTailProperties
<1>3. DOMAIN Tail(s) = 1..Len(Tail(s))
  BY <1>2, LenProperties
<1>4. Head(s) = s[1]
  OBVIOUS
<1> QED
  BY <1>1, <1>2, <1>3, <1>4

\* What the types say of the elements of the sequences.
LEMMA Elements ==
  ASSUME TypeOK
  PROVE  /\ Len(recs) \in Nat /\ DOMAIN recs = 1..Len(recs) /\ \A i \in DOMAIN recs : recs[i] \in Record
         /\ Len(rows) \in Nat /\ DOMAIN rows = 1..Len(rows) /\ \A k \in DOMAIN rows : rows[k] \in Row
         /\ Len(firing) \in Nat /\ DOMAIN firing = 1..Len(firing)
         /\ \A n \in DOMAIN firing : firing[n] \in Nat
         /\ \A i \in DOMAIN backfill.recs : backfill.recs[i] \in Record
         /\ scene \in Scene
<1>1. ASSUME NEW S, NEW s \in Seq(S)
      PROVE  Len(s) \in Nat /\ DOMAIN s = 1..Len(s) /\ \A i \in DOMAIN s : s[i] \in S
  BY LenProperties, ElementOfSeq
<1>2. recs \in Seq(Record) /\ rows \in Seq(Row) /\ firing \in Seq(Nat) /\ backfill.recs \in Seq(Record)
  BY DEF TypeOK, Backfill
<1>3. scene \in Scene
  BY ScenesAssumption DEF TypeOK
<1> QED
  BY <1>1, <1>2, <1>3

\* A run's own uploads are jobs of row 0.
LEMMA OwnJobsType ==
  ASSUME NEW r \in Run
  PROVE  OwnJobs(r) \subseteq Job /\ \A j \in OwnJobs(r) : j.row = 0
<1>1. \A q \in r.sent : q.version \in Nat
  BY DEF Run, Request
<1> QED
  BY <1>1 DEF OwnJobs, OwnJob, Job

\* Where the run moves, it and the jobs keep their types.
LEMMA RunMovesType ==
  ASSUME TypeOK, RunMoves
  PROVE  run' \in Run /\ jobs' \subseteq Job
<1>1. run' \in Run /\ OwnJobs(run') \subseteq Job
  BY OwnJobsType DEF RunMoves
<1>2. OwnJobs(run)' = OwnJobs(run')
  BY DEF OwnJobs
<1> QED
  BY <1>1, <1>2 DEF TypeOK, RunMoves

\* The values nothing is being applied with.
LEMMA IdleType ==
  Idle \in Result /\ Idle.stage = "idle" /\ NoBackfill \in Backfill /\ Idle.copy.status = "pending"
  /\ NoBackfill.recs = <<>>
<1>1. NewUploadRecord(0, "platform", NoMetadata) \in Record
      /\ NewUploadRecord(0, "platform", NoMetadata).status = "pending"
  BY NewRecordType DEF UploadProvider
<1> QED
  BY <1>1 DEF Idle, Result, NoJob, Job, NoBackfill, Backfill

\* The initial states are typed.
LEMMA InitType ==
  Init => TypeOK
<1> SUFFICES ASSUME Init PROVE TypeOK
  OBVIOUS
<1>1. scene \in Scene
  BY ScenesAssumption DEF Init
<1>2. scene.run \in Run /\ scene.recs \in Seq(Record) /\ scene.rows \in Seq(Row)
  BY <1>1 DEF Scene
<1>3. OwnJobs(run) \subseteq Job
  BY <1>2, OwnJobsType DEF Init
<1>4. answers \in [Stream -> Seq(Job)] /\ result \in [Stream -> Result] /\ firing \in Seq(Nat)
  BY IdleType DEF Init
<1> QED
  BY <1>2, <1>3, <1>4, IdleType DEF Init, TypeOK

\* The scene stays what it was, one of those given.
LEMMA SceneType ==
  ASSUME TypeOK
  PROVE  /\ scene \in Scene /\ scene.visibility \in Visibility
         /\ \A meta \in scene.edits : meta \in Metadata /\ meta.text = "user"
<1>1. scene \in Scene /\ \A meta \in scene.edits : meta.text = "user"
  BY ScenesAssumption DEF TypeOK
<1> QED
  BY <1>1 DEF Scene

\* What a handler of job j may show of it.
Shows(j) ==
  /\ Posts(j) \/ UNCHANGED <<posted, reposts>>
  /\ \/ UNCHANGED answers
     \/ Posts(j) /\ Publish("completed", j)
     \/ Publish("failed", j)

\* Handlers of one job at a time act, on the outside world and on their own books only.
LEMMA WorkerShows ==
  ASSUME TypeOK, Worker
  PROVE  /\ Unchanged4Worker /\ UNCHANGED <<commands, captions>>
         /\ jobs' \subseteq jobs
         /\ \E j \in Job : (j \in jobs \/ \E w \in again : w.job = j) /\ Shows(j)
<1>1. ASSUME NEW j, Handles(j)
      PROVE  Shows(j)
  BY <1>1, Zenon DEF Handles, Upload, UploadFails, SkipCancelled, Shows
<1>2. ASSUME NEW j \in jobs, Works(j) \/ Claim(j) \/ WorkerDies(j)
      PROVE  Unchanged4Worker /\ UNCHANGED <<commands, captions>> /\ jobs' \subseteq jobs /\ Shows(j)
  <2>1. CASE Works(j)
    BY <1>1, <2>1 DEF Works, counters
  <2>2. CASE Claim(j)
    BY <2>2 DEF Claim, Shows
  <2>3. CASE WorkerDies(j)
    <3>1. Shows(j)
      BY <2>3, Zenon DEF WorkerDies, Upload, UploadFails, Shows
    <3> QED
      BY <2>3, <3>1 DEF WorkerDies, Fails
  <2> QED
    BY <1>2, <2>1, <2>2, <2>3
<1>3. ASSUME NEW w \in again, WorksAgain(w) \/ WorkerDiesAgain(w)
      PROVE  /\ Unchanged4Worker /\ UNCHANGED <<commands, captions>>
             /\ jobs' \subseteq jobs /\ Shows(w.job)
  <2>1. CASE WorksAgain(w)
    BY <1>1, <2>1 DEF WorksAgain, counters
  <2>2. CASE WorkerDiesAgain(w)
    BY <2>2 DEF WorkerDiesAgain, Fails, Shows
  <2> QED
    BY <1>3, <2>1, <2>2
<1>4. jobs \subseteq Job /\ \A w \in again : w.job \in Job
  BY DEF TypeOK, Again
<1> QED
  BY <1>2, <1>3, <1>4, Zenon DEF Worker

\* The workers' steps keep the types.
LEMMA WorkerType ==
  ASSUME TypeOK, Worker
  PROVE  TypeOK'
<1>1. PICK j \in Job : Shows(j)
  BY WorkerShows
<1>2. posted' \subseteq Job /\ reposts' \in Nat
  BY <1>1 DEF Shows, Posts, TypeOK
<1>3. ASSUME NEW s \in Stream, Publish(s, j)
      PROVE  answers' \in [Stream -> Seq(Job)]
  <2>1. Append(answers[s], j) \in Seq(Job)
    BY AppendProperties DEF TypeOK
  <2> QED
    BY <1>3, <2>1 DEF Publish, TypeOK
<1>4. answers' \in [Stream -> Seq(Job)]
  BY <1>1, <1>3 DEF Shows, Stream, TypeOK
<1>5. Unchanged4Worker /\ UNCHANGED <<commands, captions>> /\ jobs' \subseteq jobs
  BY WorkerShows
<1>6. again' \subseteq Again /\ failures' \in Nat /\ claims' \in Nat
  <2>1. ASSUME NEW i \in jobs, Works(i) \/ Claim(i) \/ WorkerDies(i)
        PROVE  again' \subseteq Again /\ failures' \in Nat /\ claims' \in Nat
    <3>1. [job |-> i, n |-> claims + 1] \in Again
      BY DEF Again, TypeOK
    <3> QED
      BY <2>1, <3>1 DEF Works, Claim, WorkerDies, Fails, counters, TypeOK
  <2>2. ASSUME NEW w \in again, WorksAgain(w) \/ WorkerDiesAgain(w)
        PROVE  again' \subseteq Again /\ failures' \in Nat /\ claims' \in Nat
    BY <2>2 DEF WorksAgain, WorkerDiesAgain, Fails, counters, TypeOK
  <2> QED
    BY <2>1, <2>2 DEF Worker
<1> QED
  BY <1>2, <1>4, <1>5, <1>6 DEF TypeOK, Unchanged4Worker, database, ticker, history

\* Saving a record keeps the sequence of records.
LEMMA SavedRecs ==
  ASSUME TypeOK, NEW i, NEW r \in Record
  PROVE  /\ [recs EXCEPT ![i] = r] \in Seq(Record)
         /\ DOMAIN [recs EXCEPT ![i] = r] = DOMAIN recs
         /\ \A l \in DOMAIN recs : [recs EXCEPT ![i] = r][l] = IF l = i THEN r ELSE recs[l]
BY ReplaceInSeq DEF TypeOK

\* So does saving all of them.
LEMMA BackfilledRecs ==
  ASSUME TypeOK, BackfillSave
  PROVE  /\ recs' \in Seq(Record) /\ DOMAIN recs' = DOMAIN recs
         /\ \A i \in DOMAIN recs :
              recs'[i] = IF i \in DOMAIN backfill.recs
                         THEN ApplyLLMMetadata(backfill.recs[i], backfill.kids,
                                               RequireReview(backfill.recs))
                         ELSE recs[i]
<1>1. RequireReview(backfill.recs) \in BOOLEAN
  <2>1. run.opts.review \in BOOLEAN
    BY DEF TypeOK, Run, RunOptions
  <2> QED
    BY <2>1 DEF RequireReview
<1>2. PICK b \in BOOLEAN, k \in BOOLEAN : b = RequireReview(backfill.recs) /\ k = backfill.kids
  BY <1>1 DEF TypeOK, Backfill
<1>3. recs' = [i \in DOMAIN recs |->
        IF i \in DOMAIN backfill.recs THEN ApplyLLMMetadata(backfill.recs[i], k, b) ELSE recs[i]]
  BY <1>2 DEF BackfillSave
<1>4. ASSUME NEW i \in DOMAIN recs PROVE recs'[i] \in Record
  BY <1>3, Elements, RecordTypes
<1>5. recs' \in [1..Len(recs) -> Record] /\ Len(recs) \in Nat /\ DOMAIN recs = 1..Len(recs)
  BY <1>3, <1>4, Elements
<1>6. recs' \in Seq(Record)
  BY <1>5, SeqOfFunction
<1> QED
  BY <1>2, <1>3, <1>6

\* The consumers' steps keep the types.
LEMMA ConsumerType ==
  ASSUME TypeOK, Consumer
  PROVE  TypeOK'
<1>1. ASSUME NEW s \in Stream, answers[s] # <<>>
      PROVE  /\ Head(answers[s]) \in Job
             /\ [answers EXCEPT ![s] = Tail(@)] \in [Stream -> Seq(Job)]
             /\ [result EXCEPT ![s] = [Idle EXCEPT !.stage = "read", !.job = Head(answers[s])]]
                  \in [Stream -> Result]
  <2>1. answers[s] \in Seq(Job)
    BY DEF TypeOK
  <2>2. Head(answers[s]) \in Job /\ Tail(answers[s]) \in Seq(Job)
    BY <1>1, <2>1, Taken
  <2>3. [Idle EXCEPT !.stage = "read", !.job = Head(answers[s])] \in Result
    BY <2>2, IdleType DEF Result
  <2> QED
    BY <2>2, <2>3 DEF TypeOK
<1>2. ASSUME NEW s \in Stream
      PROVE  /\ result[s] \in Result
             /\ [result EXCEPT ![s].stage = "settle"] \in [Stream -> Result]
             /\ [result EXCEPT ![s] = Idle] \in [Stream -> Result]
  BY IdleType DEF TypeOK, Result
<1>3. ASSUME NEW s \in Stream, ApplyToStep(s)
      PROVE  TypeOK'
  <2>1. StepCompleted(Head(answers[s])) \/ StepFailed(Head(answers[s]))
    BY <1>3, Zenon DEF ApplyToStep
  <2>2. RunMoves
    BY <1>1, <1>3, <2>1, RunSteps DEF ApplyToStep, TypeOK
  <2>3. result' \in [Stream -> Result] /\ answers' \in [Stream -> Seq(Job)]
    BY <1>1, <1>3 DEF ApplyToStep
  <2> QED
    BY <1>3, <2>2, <2>3, RunMovesType DEF ApplyToStep, TypeOK, worked, ticker, history, counters
<1>4. ASSUME NEW s \in Stream, ReadRecord(s)
      PROVE  TypeOK'
  <2>1. PICK i : i = RecordForResult(recs)
    OBVIOUS
  <2>2. recs # <<>> => i \in Nat /\ recs[i] \in Record
    BY <2>1, RecordFound DEF TypeOK
  <2>3. PICK e : e = IF recs = <<>> THEN [result[s] EXCEPT !.stage = "settle"]
                     ELSE [result[s] EXCEPT !.stage = "save", !.index = i, !.copy = recs[i]]
    OBVIOUS
  <2>4. e \in Result
    BY <1>2, <2>2, <2>3 DEF Result
  <2>5. result' = [result EXCEPT ![s] = e]
    BY <1>4, <2>1, <2>3 DEF ReadRecord
  <2>6. result' \in [Stream -> Result]
    BY <2>4, <2>5 DEF TypeOK
  <2> QED
    BY <1>4, <2>6 DEF ReadRecord, TypeOK, worked, database, ticker, outside, history, counters
<1>5. ASSUME NEW s \in Stream, SaveRecord(s)
      PROVE  TypeOK'
  <2>1. Marked(s) \in Record
    BY <1>2, RecordTypes, SceneType DEF Marked, Result
  <2>2. recs' \in Seq(Record) /\ DOMAIN recs' = DOMAIN recs
    BY <1>5, <2>1, SavedRecs DEF SaveRecord
  <2>3. result' \in [Stream -> Result]
    BY <1>2, <1>5 DEF SaveRecord
  <2>4. clobbered' \in BOOLEAN
    BY <1>5 DEF SaveRecord, TypeOK
  <2> QED
    BY <1>5, <2>2, <2>3, <2>4 DEF SaveRecord, TypeOK, worked, ticker, outside, counters
<1>6. ASSUME NEW s \in Stream, Settle(s)
      PROVE  TypeOK'
  <2>1. rows' \in Seq(Row)
    <3>1. ASSUME NEW k \in LastFired, rows' = [rows EXCEPT ![k] = Settled(s, @)]
          PROVE  rows' \in Seq(Row)
      <4>1. rows[k] \in Row
        BY Elements DEF LastFired, InFlight
      <4>2. PICK e : e = Settled(s, rows[k])
        OBVIOUS
      <4>3. e \in Row
        BY <1>2, <4>1, <4>2 DEF Settled, Row, Result, ScheduleStatus
      <4>4. rows' = [rows EXCEPT ![k] = e]
        BY <3>1, <4>2
      <4> QED
        BY <4>3, <4>4, ReplaceInSeq DEF TypeOK
    <3> QED
      BY <1>6, <3>1 DEF Settle, TypeOK
  <2>2. result' \in [Stream -> Result]
    BY <1>2, <1>6 DEF Settle
  <2> QED
    BY <1>6, <2>1, <2>2 DEF Settle, TypeOK, worked, ticker, outside, history, counters
<1>7. ASSUME NEW s \in Stream, TransactionFails(s)
      PROVE  TypeOK'
  <2>1. result' \in [Stream -> Result]
    <3>1. CASE /\ answers[s] # <<>>
               /\ result' = [result EXCEPT ![s] =
                               [Idle EXCEPT !.stage = "read", !.job = Head(answers[s])]]
      BY <1>1, <3>1
    <3>2. CASE result' = [result EXCEPT ![s].stage = "settle"] \/ result' = [result EXCEPT ![s] = Idle]
      BY <1>2, <3>2
    <3> QED
      BY <1>7, <3>1, <3>2 DEF TransactionFails
  <2>2. answers' \in [Stream -> Seq(Job)]
    BY <1>1, <1>7 DEF TransactionFails, TypeOK
  <2>3. failures' \in Nat
    BY <1>7 DEF TransactionFails, Fails, TypeOK
  <2> QED
    BY <1>7, <2>1, <2>2, <2>3
       DEF TransactionFails, Fails, TypeOK, worked, database, ticker, outside, history
<1>8. ASSUME NEW q \in run.sent, NEW w \in BOOLEAN, NEW k \in BOOLEAN, CaptionCompleted(q, w, k)
      PROVE  TypeOK'
  <2>1. q \in Request
    BY DEF TypeOK, Run
  <2>2. RunMoves
    BY <1>8, <2>1, CloseMoves, RunSteps, TheSteps DEF CaptionCompleted, TypeOK
  <2>3. backfill' \in Backfill
    BY <1>8, IdleType DEF CaptionCompleted, NoBackfill, Backfill
  <2> QED
    BY <1>8, <2>2, <2>3, RunMovesType DEF CaptionCompleted, TypeOK, worked, ticker, history
<1>9. ASSUME BackfillRead
      PROVE  TypeOK'
  BY <1>9 DEF BackfillRead, Backfill, TypeOK, worked, database, ticker, outside, history, counters
<1>10. ASSUME BackfillSave
       PROVE  TypeOK'
  <2>1. clobbered' \in BOOLEAN
    BY <1>10 DEF BackfillSave, TypeOK
  <2> QED
    BY <1>10, <2>1, BackfilledRecs, IdleType
       DEF BackfillSave, TypeOK, worked, ticker, outside, counters
<1> QED
  BY <1>3, <1>4, <1>5, <1>6, <1>7, <1>8, <1>9, <1>10, Zenon DEF Consumer, Consume

\* What a tick leaves behind.
LEMMA TickMoves ==
  ASSUME TypeOK, NEW t, Tick(t)
  PROVE  \E order \in DueOrders(t) :
           /\ Len(order) \in Nat /\ DOMAIN order = 1..Len(order)
           /\ \A m \in 1..Len(order) : order[m] \in Due(t)
           /\ FiredSoFar([rows |-> rows', recs |-> recs', firing |-> firing'], order, Len(order))
<1>1. PICK order \in DueOrders(t) :
        /\ rows' = FireRows(order).rows /\ recs' = FireRows(order).recs
        /\ firing' = FireRows(order).firing
  BY DEF Tick
<1>2. /\ Len(order) \in Nat /\ DOMAIN order = 1..Len(order)
      /\ FiredSoFar(FireRows(order), order, Len(order))
  BY FireAll
<1>3. FireRows(order) \in Tables
  BY <1>2 DEF FiredSoFar
<1>4. FireRows(order) = [rows |-> rows', recs |-> recs', firing |-> firing']
  <2> HIDE DEF FiredSoFar
  <2> QED
    BY <1>1, <1>3 DEF Tables
<1>5. order \in [1..Cardinality(Due(t)) -> Due(t)]
  BY DEF DueOrders
<1>6. \A m \in DOMAIN order : order[m] \in Due(t)
  BY <1>5
<1> QED
  BY <1>2, <1>4, <1>6

\* The ticker's steps keep the types.
LEMMA TickerType ==
  ASSUME TypeOK, Ticker
  PROVE  TypeOK'
<1>1. ASSUME NEW t \in now..Horizon, Tick(t)
      PROVE  TypeOK'
  <2>1. PICK order : FiredSoFar([rows |-> rows', recs |-> recs', firing |-> firing'], order, Len(order))
    BY <1>1, TickMoves
  <2>2. rows' \in Seq(Row) /\ recs' \in Seq(Record) /\ firing' \in Seq(Nat)
        /\ DOMAIN recs \subseteq DOMAIN recs'
    BY <2>1 DEF FiredSoFar, Tables
  <2>3. now' \in Nat /\ ticks' \in Nat
    BY <1>1, BoundsAssumption DEF Tick, TypeOK
  <2> QED
    BY <1>1, <2>2, <2>3 DEF Tick, TypeOK, worked, consumers, outside, history, counters
<1>2. ASSUME firing # <<>>
      PROVE  Head(firing) \in Nat /\ Tail(firing) \in Seq(Nat)
  BY <1>2, Taken DEF TypeOK
<1>3. ASSUME Fire
      PROVE  TypeOK'
  <2>1. jobs' \subseteq Job
    BY <1>2, <1>3 DEF Fire, RowJob, Job, TypeOK
  <2> QED
    BY <1>2, <1>3, <2>1 DEF Fire, TypeOK, worked, database, consumers, history, counters
<1>4. ASSUME FireFails
      PROVE  TypeOK'
  BY <1>2, <1>4 DEF FireFails, Fails, TypeOK, worked, database, consumers, outside, history
<1> QED
  BY <1>1, <1>3, <1>4 DEF Ticker

\* So do the reviewer's, which lock the record they change.
LEMMA ReviewerType ==
  ASSUME TypeOK, Reviewer
  PROVE  TypeOK'
<1>1. PICK i \in DOMAIN recs :
        \/ \E meta \in scene.edits : EditUploadMetadata(i, meta)
        \/ ApproveUploadRecord(i)
        \/ RejectUploadRecord(i) \/ PromoteUploadToPublished(i)
  BY DEF Reviewer
<1>2. PICK r \in Record, act \in UserAct : RecordCommand(act, i, r)
  BY <1>1, Elements, RecordTypes, SceneType
     DEF UserAct, EditUploadMetadata, ApproveUploadRecord, RejectUploadRecord, PromoteUploadToPublished
<1>3. recs' \in Seq(Record) /\ DOMAIN recs' = DOMAIN recs
  BY <1>2, SavedRecs DEF RecordCommand
<1>4. run' \in Run /\ jobs' \subseteq Job
  <2>1. CASE UNCHANGED <<run, jobs>>
    BY <2>1 DEF TypeOK
  <2>2. CASE /\ run.status = "awaiting_action" /\ CanRequest(run, UploadStep)
             /\ RunBecomes(RequestPlain(Resume(run), UploadStep))
    <3>1. run.status # "cancelled"
      BY <2>2
    <3> QED
      BY <2>2, <3>1, RunSteps, RunMovesType DEF TypeOK
  <2> QED
    BY <1>1, <2>1, <2>2
       DEF EditUploadMetadata, ApproveUploadRecord, RejectUploadRecord,
           PromoteUploadToPublished, MayResume
<1>5. edited' \subseteq DOMAIN recs
  BY <1>1 DEF EditUploadMetadata, ApproveUploadRecord, RejectUploadRecord,
              PromoteUploadToPublished, TypeOK
<1> QED
  BY <1>2, <1>3, <1>4, <1>5 DEF RecordCommand, Commanded, TypeOK, worked, ticker, consumers

\* A user's times are those of the scene's horizon.
LEMMA SchedulingType ==
  ASSUME TypeOK, Scheduling
  PROVE  TypeOK'
<1>1. \A t : SlotsInWindow(t) \subseteq Slot
  BY Elements DEF SlotsInWindow, Slot, Row
<1>2. ASSUME NEW act, NEW a \in Ask, Asks(act, a)
      PROVE  TypeOK'
  BY <1>2 DEF Asks, Commanded, TypeOK, worked, database, ticker, consumers, outside, history
<1>3. ASSUME NEW t \in 0..Horizon, NEW method \in Method, AskSchedule(t, method)
      PROVE  TypeOK'
  <2>1. [row |-> 0, at |-> t, method |-> method, seen |-> SlotsInWindow(t)] \in Ask
    BY <1>1, BoundsAssumption DEF Ask
  <2> QED
    BY <1>2, <1>3, <2>1 DEF AskSchedule
<1>4. ASSUME NEW t \in 0..Horizon, NEW k \in DOMAIN rows, AskReschedule(k, t)
      PROVE  TypeOK'
  <2>1. k \in Nat /\ rows[k].method \in Method
    BY Elements DEF Row
  <2>2. OtherSlots(k, t) \subseteq Slot
    BY <1>1 DEF OtherSlots
  <2>3. [row |-> k, at |-> t, method |-> rows[k].method, seen |-> OtherSlots(k, t)] \in Ask
    BY <2>1, <2>2, BoundsAssumption DEF Ask
  <2> QED
    BY <1>2, <1>4, <2>3 DEF AskReschedule
<1>5. ASSUME NEW a \in asking, rows' \in Seq(Row), raced' \in Nat, Write(a)
      PROVE  TypeOK'
  BY <1>5 DEF Write, TypeOK, worked, ticker, consumers, outside, counters
<1>6. ASSUME NEW a \in asking, WriteSchedule(a)
      PROVE  TypeOK'
  <2>1. PICK e : e = NewRow(a.at, a.method)
    OBVIOUS
  <2>2. e \in Row
    BY <2>1 DEF NewRow, Row, TypeOK, Ask, ScheduleStatus, NoJob, Job
  <2>3. rows' \in Seq(Row)
    BY <1>6, <2>1, <2>2, AppendProperties DEF WriteSchedule, TypeOK
  <2>4. raced' \in Nat
    BY <1>6 DEF WriteSchedule, TypeOK
  <2> QED
    BY <1>5, <1>6, <2>3, <2>4 DEF WriteSchedule
<1>7. ASSUME NEW a \in asking, WriteReschedule(a)
      PROVE  TypeOK'
  <2>1. rows' \in Seq(Row)
    <3>1. CASE a.row \in DOMAIN rows
      <4>1. PICK e : e = [rows[a.row] EXCEPT !.at = a.at]
        OBVIOUS
      <4>2. e \in Row
        BY <3>1, <4>1, Elements DEF Row, TypeOK, Ask
      <4>3. rows' = [rows EXCEPT ![a.row] = e]
        BY <1>7, <4>1 DEF WriteReschedule
      <4> QED
        BY <4>2, <4>3, ReplaceInSeq DEF TypeOK
    <3>2. CASE a.row \notin DOMAIN rows
      <4>1. rows \in [1..Len(rows) -> Row]
        BY LenProperties DEF TypeOK
      <4>2. PICK e : rows' = [rows EXCEPT ![a.row] = e]
        BY <1>7 DEF WriteReschedule
      <4>3. rows' = rows
        BY <3>2, <4>1, <4>2
      <4> QED
        BY <4>3 DEF TypeOK
    <3> QED
      BY <3>1, <3>2
  <2>2. raced' \in Nat
    BY <1>7 DEF WriteReschedule, TypeOK
  <2> QED
    BY <1>5, <1>7, <2>1, <2>2 DEF WriteReschedule
<1>8. ASSUME NEW k \in DOMAIN rows, CancelScheduledUpload(k)
      PROVE  TypeOK'
  <2>1. PICK e : e = [rows[k] EXCEPT !.status = "cancelled"]
    OBVIOUS
  <2>2. e \in Row
    BY <2>1, Elements DEF Row, ScheduleStatus
  <2>3. rows' = [rows EXCEPT ![k] = e]
    BY <1>8, <2>1 DEF CancelScheduledUpload
  <2>4. rows' \in Seq(Row)
    BY <2>2, <2>3, ReplaceInSeq DEF TypeOK
  <2> QED
    BY <1>8, <2>4
       DEF CancelScheduledUpload, Commanded, TypeOK, worked, ticker, consumers, outside, history
<1> QED
  BY <1>3, <1>4, <1>6, <1>7, <1>8 DEF Scheduling

\* Every step keeps the types.
LEMMA TypeStep ==
  ASSUME TypeOK, [Next]_vars
  PROVE  TypeOK'
<1>1. CASE RegenerateUpload \/ CancelRun
  <2>1. RunMoves
    BY <1>1, RunSteps DEF RegenerateUpload, CancelRun, TypeOK
  <2> QED
    BY <1>1, <2>1, RunMovesType, SMTT(30)
       DEF RegenerateUpload, CancelRun, Commanded, TypeOK, worked, ticker, consumers, history
<1>2. CASE Crash
  <2>1. result' \in [Stream -> Result] /\ backfill' \in Backfill
    BY <1>2, IdleType DEF Crash
  <2> QED
    BY <1>2, <2>1 DEF Crash, Fails, TypeOK, worked, database, outside, history
<1>3. CASE UNCHANGED vars
  BY <1>3 DEF vars, database, ticker, consumers, outside, worked, history, counters, TypeOK
<1> QED
  BY <1>1, <1>2, <1>3, WorkerType, ConsumerType, TickerType, ReviewerType, SchedulingType DEF Next

\* Every variable has its type: no index, status or reference is made up on the way.
THEOREM UploadsTypeOK ==
  Spec => []TypeOK
BY InitType, TypeStep, PTL DEF Spec

-----------------------------------------------------------------------------
(* What the steps do to each table *)

\* The reviewer changes record i.
Reviewed(i) ==
  /\ UNCHANGED clobbered /\ DOMAIN recs' = DOMAIN recs
  /\ \A l \in DOMAIN recs : l # i => recs'[l] = recs[l]
  /\ commands' # commands
  /\ \/ /\ \E meta \in scene.edits : recs'[i] = OverrideMetadata(recs[i], meta)
        /\ edited' = edited \cup {i}
     \/ /\ recs'[i] \in {Approve(recs[i]), Reject(recs[i]), PromoteToPublished(recs[i])}
        /\ UNCHANGED edited

\* The steps that change records.
LEMMA RecordSteps ==
  ASSUME TypeOK, [Next]_vars
  PROVE  \/ UNCHANGED <<recs, edited, clobbered>>
         \/ \E s \in Stream : SaveRecord(s)
         \/ BackfillSave
         \/ \E t : Tick(t)
         \/ \E i \in DOMAIN recs : Reviewed(i) /\ UNCHANGED <<rows, consumers, worked>>
<1>1. CASE Worker
  BY <1>1, WorkerShows DEF Unchanged4Worker, database, history
<1>2. CASE Consumer
  <2>1. ASSUME NEW s \in Stream, ApplyToStep(s) \/ ReadRecord(s) \/ Settle(s) \/ TransactionFails(s)
        PROVE  UNCHANGED <<recs, edited, clobbered>>
    BY <2>1 DEF ApplyToStep, ReadRecord, Settle, TransactionFails, database, history
  <2>2. ASSUME (\E q, w, k : CaptionCompleted(q, w, k)) \/ BackfillRead
        PROVE  UNCHANGED <<recs, edited, clobbered>>
    BY <2>2 DEF CaptionCompleted, BackfillRead, database, history
  <2> QED
    BY <1>2, <2>1, <2>2, Zenon DEF Consumer, Consume
<1>3. CASE Ticker
  BY <1>3, Zenon DEF Ticker, Fire, FireFails, database, history
<1>4. CASE Reviewer
  <2>1. PICK i \in DOMAIN recs :
          \/ \E meta \in scene.edits : EditUploadMetadata(i, meta)
        \/ ApproveUploadRecord(i)
          \/ RejectUploadRecord(i) \/ PromoteUploadToPublished(i)
    BY <1>4 DEF Reviewer
  <2>2. ASSUME NEW act, NEW r \in Record, RecordCommand(act, i, r)
        PROVE  /\ recs'[i] = r /\ UNCHANGED <<rows, consumers, worked>>
               /\ UNCHANGED clobbered /\ DOMAIN recs' = DOMAIN recs
               /\ commands' # commands
               /\ \A l \in DOMAIN recs : l # i => recs'[l] = recs[l]
    BY <2>2, SavedRecs DEF RecordCommand, Commanded, TypeOK
  <2>3. Reviewed(i) /\ UNCHANGED <<rows, consumers, worked>>
    <3>1. CASE \E meta \in scene.edits : EditUploadMetadata(i, meta)
      BY <2>2, <3>1, Elements, RecordTypes, SceneType DEF EditUploadMetadata, Reviewed
    <3>2. CASE ApproveUploadRecord(i)
      BY <2>2, <3>2, Elements, RecordTypes DEF ApproveUploadRecord, Reviewed
    <3>3. CASE RejectUploadRecord(i)
      BY <2>2, <3>3, Elements, RecordTypes DEF RejectUploadRecord, Reviewed
    <3>4. CASE PromoteUploadToPublished(i)
      BY <2>2, <3>4, Elements, RecordTypes DEF PromoteUploadToPublished, Reviewed
    <3> QED
      BY <2>1, <3>1, <3>2, <3>3, <3>4
  <2> QED
    BY <2>3
<1>5. CASE Scheduling
  <2>1. ASSUME NEW k, NEW t, NEW m, AskSchedule(t, m) \/ AskReschedule(k, t)
        PROVE  UNCHANGED <<recs, edited, clobbered>>
    BY <2>1 DEF AskSchedule, AskReschedule, Asks, database, history
  <2>2. ASSUME NEW a, WriteSchedule(a) \/ WriteReschedule(a)
        PROVE  UNCHANGED <<recs, edited, clobbered>>
    BY <2>2 DEF WriteSchedule, WriteReschedule, Write
  <2>3. ASSUME NEW k, CancelScheduledUpload(k)
        PROVE  UNCHANGED <<recs, edited, clobbered>>
    BY <2>3 DEF CancelScheduledUpload, history
  <2> QED
    BY <1>5, <2>1, <2>2, <2>3, Zenon DEF Scheduling
<1>6. CASE RegenerateUpload \/ CancelRun \/ Crash \/ UNCHANGED vars
  BY <1>6 DEF RegenerateUpload, CancelRun, Crash, vars, database, history
<1> QED
  BY <1>1, <1>2, <1>3, <1>4, <1>5, <1>6 DEF Next

\* A settled row.
RowSettled(s, k) ==
  /\ DOMAIN rows' = DOMAIN rows
  /\ \A l \in DOMAIN rows : l # k => rows'[l] = rows[l]
  /\ rows'[k] = Settled(s, rows[k])

\* A row is added.
RowAdded(a) ==
  /\ DOMAIN rows' = DOMAIN rows \cup {Len(rows) + 1} /\ Len(rows) + 1 \notin DOMAIN rows
  /\ \A l \in DOMAIN rows : rows'[l] = rows[l]
  /\ rows'[Len(rows) + 1] = NewRow(a.at, a.method)

\* A row is moved to another time.
RowMoved(k, t) ==
  /\ DOMAIN rows' = DOMAIN rows
  /\ \A l \in DOMAIN rows :
       /\ rows'[l].status = rows[l].status /\ rows'[l].ref = rows[l].ref
       /\ rows'[l].fired = rows[l].fired
       /\ rows'[l].at = IF l = k THEN t ELSE rows[l].at

\* A row is cancelled.
RowCancelled(k) ==
  /\ DOMAIN rows' = DOMAIN rows
  /\ \A l \in DOMAIN rows : l # k => rows'[l] = rows[l]
  /\ rows'[k].status = "cancelled" /\ rows'[k].at = rows[k].at

\* Settling touches a row in flight, if there is one.
LEMMA SettleMoves ==
  ASSUME TypeOK, NEW s \in Stream, Settle(s)
  PROVE  IF InFlight = {} THEN UNCHANGED rows ELSE \E k \in InFlight : RowSettled(s, k)
<1>1. ASSUME NEW k \in LastFired, rows' = [rows EXCEPT ![k] = Settled(s, @)]
      PROVE  k \in InFlight /\ RowSettled(s, k)
  <2>1. k \in InFlight /\ k \in DOMAIN rows
    BY DEF LastFired, InFlight
  <2>2. DOMAIN rows' = DOMAIN rows
    BY <1>1
  <2>3. rows \in [DOMAIN rows -> Row]
    BY LenProperties DEF TypeOK
  <2> QED
    BY <1>1, <2>1, <2>2, <2>3 DEF RowSettled
<1> QED
  BY <1>1 DEF Settle

\* The other steps that change a row.
LEMMA RowChanges ==
  ASSUME TypeOK
  PROVE  /\ \A a \in asking : WriteSchedule(a) => RowAdded(a)
         /\ \A a \in asking : WriteReschedule(a) => RowMoved(a.row, a.at)
         /\ \A k \in DOMAIN rows : CancelScheduledUpload(k) => RowCancelled(k)
<1>1. rows \in [DOMAIN rows -> Row] /\ rows \in Seq(Row)
  BY LenProperties DEF TypeOK
<1>2. ASSUME NEW a \in asking, WriteSchedule(a)
      PROVE  RowAdded(a)
  <2>1. PICK e : e = NewRow(a.at, a.method)
    OBVIOUS
  <2>2. e \in Row
    BY <2>1 DEF NewRow, Row, TypeOK, Ask, ScheduleStatus, NoJob, Job
  <2> QED
    BY <1>1, <1>2, <2>1, <2>2, Appended DEF WriteSchedule, RowAdded
<1>3. ASSUME NEW a \in asking, WriteReschedule(a)
      PROVE  RowMoved(a.row, a.at)
  <2>1. DOMAIN rows' = DOMAIN rows
    BY <1>3 DEF WriteReschedule
  <2>2. ASSUME NEW l \in DOMAIN rows
        PROVE  rows'[l] = IF l = a.row THEN [rows[l] EXCEPT !.at = a.at] ELSE rows[l]
    BY <1>1, <1>3 DEF WriteReschedule
  <2>3. \A l \in DOMAIN rows : rows[l] \in Row
    BY <1>1
  <2> QED
    BY <2>1, <2>2, <2>3 DEF RowMoved, Row
<1>4. ASSUME NEW k \in DOMAIN rows, CancelScheduledUpload(k)
      PROVE  RowCancelled(k)
  <2>1. DOMAIN rows' = DOMAIN rows
    BY <1>4 DEF CancelScheduledUpload
  <2>2. \A l \in DOMAIN rows : rows'[l] = IF l = k THEN [rows[l] EXCEPT !.status = "cancelled"] ELSE rows[l]
    BY <1>1, <1>4 DEF CancelScheduledUpload
  <2>3. rows[k] \in Row
    BY <1>1
  <2> QED
    BY <2>1, <2>2, <2>3 DEF RowCancelled, Row
<1> QED
  BY <1>2, <1>3, <1>4

\* The steps that change rows.
LEMMA RowSteps ==
  ASSUME TypeOK, [Next]_vars
  PROVE  \/ UNCHANGED rows
         \/ \E s \in Stream : Settle(s)
         \/ \E t : Tick(t)
         \/ \E a \in asking : WriteSchedule(a) \/ WriteReschedule(a)
         \/ \E k \in DOMAIN rows : CancelScheduledUpload(k)
<1>1. CASE Worker
  BY <1>1, WorkerShows DEF Unchanged4Worker, database
<1>2. CASE Consumer
  <2>1. ASSUME NEW s \in Stream, ApplyToStep(s) \/ ReadRecord(s) \/ SaveRecord(s) \/ TransactionFails(s)
        PROVE  UNCHANGED rows
    BY <2>1 DEF ApplyToStep, ReadRecord, SaveRecord, TransactionFails, database
  <2>2. ASSUME (\E q, w, k : CaptionCompleted(q, w, k)) \/ BackfillRead \/ BackfillSave
        PROVE  UNCHANGED rows
    BY <2>2 DEF CaptionCompleted, BackfillRead, BackfillSave, database
  <2> QED
    BY <1>2, <2>1, <2>2, Zenon DEF Consumer, Consume
<1>3. CASE Ticker
  BY <1>3, Zenon DEF Ticker, Fire, FireFails, database
<1>4. CASE Reviewer
  BY <1>4 DEF Reviewer, EditUploadMetadata, ApproveUploadRecord, RejectUploadRecord,
              PromoteUploadToPublished, RecordCommand
<1>5. CASE Scheduling
  <2>1. ASSUME NEW k, NEW t, NEW m, AskSchedule(t, m) \/ AskReschedule(k, t)
        PROVE  UNCHANGED rows
    BY <2>1 DEF AskSchedule, AskReschedule, Asks, database
  <2> QED
    BY <1>5, <2>1, Zenon DEF Scheduling
<1>6. CASE RegenerateUpload \/ CancelRun \/ Crash \/ UNCHANGED vars
  BY <1>6 DEF RegenerateUpload, CancelRun, Crash, vars, database
<1> QED
  BY <1>1, <1>2, <1>3, <1>4, <1>5, <1>6 DEF Next

-----------------------------------------------------------------------------
(* What users decide stays *)

\* A record whose text the user wrote is locked, as long as no save has put back a record
\* read earlier: without the lock the caption's text could still replace it.
EditsInv ==
  ~clobbered => \A i \in edited : recs[i].overridden /\ recs[i].metadata.text = "user"

\* A saved result names the job it came from.
LEMMA MarkedRef ==
  ASSUME NEW r \in Record, NEW j, NEW v
  PROVE  MarkUploaded(r, j, v).ref = j
BY DEF MarkUploaded, Record

\* What saving a result leaves alone.
LEMMA SavesKeep ==
  ASSUME NEW r \in Record
  PROVE  /\ \A j, v :
              /\ MarkUploaded(r, j, v).overridden = r.overridden
              /\ MarkUploaded(r, j, v).ref = j
              /\ MarkUploaded(r, j, v).status \in Done
              /\ \/ MarkUploaded(r, j, v).metadata = r.metadata
                 \/ MarkUploaded(r, j, v).metadata = [r.metadata EXCEPT !.visibility = v]
         /\ MarkFailed(r).metadata = r.metadata /\ MarkFailed(r).overridden = r.overridden
         /\ MarkFailed(r).status = "failed"
<1>0. r.metadata \in Metadata
  BY DEF Record
<1>1. ASSUME NEW j, NEW v
      PROVE  /\ MarkUploaded(r, j, v).overridden = r.overridden
             /\ MarkUploaded(r, j, v).ref = j
             /\ MarkUploaded(r, j, v).status \in Done
             /\ \/ MarkUploaded(r, j, v).metadata = r.metadata
                \/ MarkUploaded(r, j, v).metadata = [r.metadata EXCEPT !.visibility = v]
  <2>1. PICK t : t = MarkUploaded(r, j, v)
    OBVIOUS
  <2>2. /\ t.overridden = r.overridden /\ t.ref = j /\ t.status \in Done
        /\ \/ t.metadata = r.metadata
           \/ t.metadata = [r.metadata EXCEPT !.visibility = v]
    BY <1>0, <2>1 DEF MarkUploaded, Record, Done, Metadata
  <2> QED
    BY <2>1, <2>2
<1>2. MarkFailed(r).metadata = r.metadata /\ MarkFailed(r).overridden = r.overridden
      /\ MarkFailed(r).status = "failed"
  BY DEF MarkFailed, Record
<1> QED
  BY <1>1, <1>2

\* What saving the caption's text leaves alone.
LEMMA CaptionKeeps ==
  ASSUME NEW r \in Record, NEW k \in BOOLEAN, NEW b \in BOOLEAN
  PROVE  /\ ApplyLLMMetadata(r, k, b).overridden = r.overridden
         /\ ApplyLLMMetadata(r, k, b).ref = r.ref
         /\ r.overridden =>
              \/ ApplyLLMMetadata(r, k, b).metadata = r.metadata
              \/ ApplyLLMMetadata(r, k, b).metadata = [r.metadata EXCEPT !.kids = TRUE]
         /\ r.status # "pending" => ApplyLLMMetadata(r, k, b).status = r.status
         /\ ApplyLLMMetadata(r, k, b).status \in Done => r.status \in Done
<1>1. r.metadata \in Metadata /\ r.metadata.kids \in BOOLEAN
  BY DEF Record, Metadata
<1>2. PICK t : t = ApplyLLMMetadata(r, k, b)
  OBVIOUS
<1>3. t.overridden = r.overridden /\ t.ref = r.ref
  BY <1>2 DEF ApplyLLMMetadata, Record
<1>4. (r.status # "pending" => t.status = r.status) /\ (t.status \in Done => r.status \in Done)
  BY <1>2 DEF ApplyLLMMetadata, Record, Done
<1>5. ASSUME r.overridden
      PROVE  t.metadata = r.metadata \/ t.metadata = [r.metadata EXCEPT !.kids = TRUE]
  <2>1. t.metadata = [r.metadata EXCEPT !.kids = r.metadata.kids \/ k]
    BY <1>1, <1>2, <1>5 DEF ApplyLLMMetadata, Record, Metadata
  <2>2. CASE k
    BY <2>1, <2>2
  <2>3. CASE ~k
    BY <1>1, <2>1, <2>3 DEF Metadata
  <2> QED
    BY <2>2, <2>3
<1> QED
  BY <1>2, <1>3, <1>4, <1>5

\* What the reviewer's methods leave alone.
LEMMA ReviewKeeps ==
  ASSUME NEW r \in Record
  PROVE  /\ \A meta : LET t == OverrideMetadata(r, meta)
                      IN  /\ t.overridden /\ t.metadata = meta
                          /\ t.status = r.status /\ t.ref = r.ref
         /\ \A t \in {Approve(r), Reject(r), PromoteToPublished(r)} :
              /\ t.overridden = r.overridden /\ t.metadata.text = r.metadata.text
              /\ t.ref = r.ref
              /\ t.status \in AwaitingReview => r.status \in AwaitingReview
              /\ t.status \in Done => r.status \in Done
<1>1. \A t \in {Approve(r), Reject(r), PromoteToPublished(r)} :
        t.overridden = r.overridden /\ t.metadata.text = r.metadata.text /\ t.ref = r.ref
  <2>1. \A t \in {Approve(r), Reject(r)} :
          t.overridden = r.overridden /\ t.metadata = r.metadata /\ t.ref = r.ref
    BY DEF Approve, Reject, Record
  <2>2. r.metadata \in Metadata
    BY DEF Record
  <2>3. ASSUME NEW t, t = PromoteToPublished(r)
        PROVE  t.overridden = r.overridden /\ t.metadata.text = r.metadata.text /\ t.ref = r.ref
    BY <2>2, <2>3 DEF PromoteToPublished, Record, Metadata
  <2> QED
    BY <2>1, <2>3
<1>2. \A t \in {Approve(r), Reject(r), PromoteToPublished(r)} :
        /\ t.status \in AwaitingReview => r.status \in AwaitingReview
        /\ t.status \in Done => r.status \in Done
  BY DEF Approve, Reject, PromoteToPublished, Record, Done, AwaitingReview
<1>3. \A meta : LET t == OverrideMetadata(r, meta)
               IN  /\ t.overridden /\ t.metadata = meta
                   /\ t.status = r.status /\ t.ref = r.ref
  BY DEF OverrideMetadata, Record
<1> QED
  BY <1>1, <1>2, <1>3

\* What SaveRecord writes.
LEMMA SaveMoves ==
  ASSUME TypeOK, NEW s \in Stream, SaveRecord(s)
  PROVE  \E i :
           /\ DOMAIN recs' = DOMAIN recs
           /\ \A l \in DOMAIN recs : recs'[l] = IF l = i THEN Marked(s) ELSE recs[l]
           /\ UNCHANGED edited /\ (~clobbered' => ~clobbered /\ recs[i] = result[s].copy)
           /\ result[s].copy \in Record
<1>1. result[s] \in Result
  BY DEF TypeOK
<1>2. Marked(s) \in Record /\ result[s].copy \in Record
  BY <1>1, RecordTypes, SceneType DEF Marked, Result
<1>3. PICK i : i = result[s].index
  OBVIOUS
<1>4. recs' = [recs EXCEPT ![i] = Marked(s)]
  BY <1>3 DEF SaveRecord
<1>5. UNCHANGED edited /\ (~clobbered' => ~clobbered /\ recs[i] = result[s].copy)
  BY <1>3 DEF SaveRecord, TypeOK
<1> QED
  BY <1>2, <1>4, <1>5, SavedRecs

\* What a step that is no command does to the metadata of an edited record, and what any
\* step does to a decided one.
EditKept(i) ==
  \/ Becomes(i, recs[i].metadata)
  \/ Becomes(i, [recs[i].metadata EXCEPT !.kids = TRUE])
  \/ /\ recs'[i].status \in Done
     /\ Becomes(i, [recs[i].metadata EXCEPT !.visibility = scene.visibility])
EditsKept == commands' = commands /\ ~clobbered' => \A i \in edited : EditKept(i)
Decided ==
  \A i \in DOMAIN recs :
    recs[i].status \notin {"pending"} \cup AwaitingReview /\ ~clobbered'
      => recs'[i].status \notin AwaitingReview

\* An edit that is kept in this sense still has the user's text.
LEMMA KeptText ==
  ASSUME TypeOK, NEW i \in DOMAIN recs, EditKept(i), recs[i].metadata.text = "user"
  PROVE  recs'[i].metadata.text = "user"
<1>1. recs[i].metadata \in Metadata
  BY Elements DEF Record
<1> QED
  BY <1>1 DEF EditKept, Becomes, Metadata

\* Every step keeps EditsInv, the edits and the decisions.
LEMMA EditsStep ==
  ASSUME TypeOK, EditsInv, [Next]_vars
  PROVE  EditsInv' /\ EditsKept /\ Decided
<1>0. edited \subseteq DOMAIN recs
  BY DEF TypeOK
<1>1. CASE UNCHANGED <<recs, edited, clobbered>>
  BY <1>1 DEF EditsInv, EditsKept, EditKept, Becomes, Decided
<1>2. ASSUME NEW s \in Stream, SaveRecord(s)
      PROVE  EditsInv' /\ EditsKept /\ Decided
  <2>1. PICK i :
          /\ DOMAIN recs' = DOMAIN recs
          /\ \A l \in DOMAIN recs : recs'[l] = IF l = i THEN Marked(s) ELSE recs[l]
          /\ UNCHANGED edited /\ (~clobbered' => ~clobbered /\ recs[i] = result[s].copy)
          /\ result[s].copy \in Record
    BY <1>2, SaveMoves
  <2>2. /\ Marked(s).overridden = result[s].copy.overridden
        /\ \/ Marked(s).metadata = result[s].copy.metadata
           \/ /\ Marked(s).status \in Done
              /\ Marked(s).metadata = [result[s].copy.metadata EXCEPT !.visibility = scene.visibility]
        /\ Marked(s).status \in Done \cup {"failed"}
    <3>1. CASE s = "completed"
      <4>1. PICK r \in Record : r = result[s].copy
        BY <2>1
      <4>2. PICK j, v : j = result[s].job /\ v = scene.visibility
        OBVIOUS
      <4>3. Marked(s) = MarkUploaded(r, j, v)
        BY <3>1, <4>1, <4>2 DEF Marked
      <4>4. /\ MarkUploaded(r, j, v).overridden = r.overridden
            /\ MarkUploaded(r, j, v).status \in Done
            /\ \/ MarkUploaded(r, j, v).metadata = r.metadata
               \/ MarkUploaded(r, j, v).metadata = [r.metadata EXCEPT !.visibility = v]
        BY SavesKeep
      <4> QED
        BY <4>1, <4>2, <4>3, <4>4
    <3>2. CASE s # "completed"
      <4>1. Marked(s) = MarkFailed(result[s].copy)
        BY <3>2 DEF Marked
      <4>2. result[s].copy \in Record
        BY <2>1
      <4> QED
        BY <4>1, <4>2, SavesKeep
    <3> QED
      BY <3>1, <3>2
  <2>3. Marked(s).status \notin AwaitingReview
    BY <2>2 DEF Done, AwaitingReview
  <2>4. Decided
    BY <2>1, <2>3 DEF Decided
  <2>5. ~clobbered' => \A l \in DOMAIN recs : EditKept(l) /\ recs'[l].overridden = recs[l].overridden
    BY <2>1, <2>2 DEF EditKept, Becomes
  <2>6. EditsInv'
    BY <1>0, <2>1, <2>5, KeptText DEF EditsInv
  <2> QED
    BY <1>0, <2>4, <2>5, <2>6 DEF EditsKept
<1>3. ASSUME BackfillSave
      PROVE  EditsInv' /\ EditsKept /\ Decided
  <2>1. PICK b \in BOOLEAN, k \in BOOLEAN : b = RequireReview(backfill.recs) /\ k = backfill.kids
    <3>1. run.opts.review \in BOOLEAN /\ backfill.kids \in BOOLEAN
      BY DEF TypeOK, Run, RunOptions, Backfill
    <3> QED
      BY <3>1 DEF RequireReview
  <2>2. ~clobbered' => ~clobbered /\ \A i \in DOMAIN backfill.recs : recs[i] = backfill.recs[i]
    BY <1>3 DEF BackfillSave, TypeOK
  <2>3. \A i \in DOMAIN recs : ~clobbered' =>
          \/ recs'[i] = recs[i]
          \/ recs'[i] = ApplyLLMMetadata(recs[i], k, b)
    BY <1>3, <2>1, <2>2, BackfilledRecs
  <2>4. \A i \in DOMAIN recs : ~clobbered' =>
          /\ recs'[i].overridden = recs[i].overridden
          /\ recs[i].overridden => EditKept(i)
          /\ recs[i].status # "pending" => recs'[i].status = recs[i].status
    <3> SUFFICES ASSUME NEW i \in DOMAIN recs, ~clobbered'
                 PROVE  /\ recs'[i].overridden = recs[i].overridden
                        /\ recs[i].overridden => EditKept(i)
                        /\ recs[i].status # "pending" => recs'[i].status = recs[i].status
      OBVIOUS
    <3>1. CASE recs'[i] = recs[i]
      BY <3>1 DEF EditKept, Becomes
    <3>2. CASE recs'[i] = ApplyLLMMetadata(recs[i], k, b)
      <4>1. PICK r \in Record : r = recs[i]
        BY Elements
      <4>2. recs'[i] = ApplyLLMMetadata(r, k, b)
        BY <3>2, <4>1
      <4>3. /\ ApplyLLMMetadata(r, k, b).overridden = r.overridden
            /\ r.overridden =>
                 \/ ApplyLLMMetadata(r, k, b).metadata = r.metadata
                 \/ ApplyLLMMetadata(r, k, b).metadata = [r.metadata EXCEPT !.kids = TRUE]
            /\ r.status # "pending" => ApplyLLMMetadata(r, k, b).status = r.status
        BY CaptionKeeps
      <4>4. /\ recs'[i].overridden = r.overridden
            /\ r.overridden => \/ recs'[i].metadata = r.metadata
                               \/ recs'[i].metadata = [r.metadata EXCEPT !.kids = TRUE]
            /\ r.status # "pending" => recs'[i].status = r.status
        BY <4>2, <4>3
      <4> QED
        BY <4>1, <4>4 DEF EditKept, Becomes
    <3> QED
      BY <2>3, <3>1, <3>2
  <2>5. UNCHANGED edited
    BY <1>3 DEF BackfillSave
  <2>6. EditsInv'
    BY <1>0, <2>2, <2>4, <2>5, KeptText DEF EditsInv
  <2> QED
    BY <1>0, <2>2, <2>4, <2>6 DEF EditsInv, EditsKept, Decided
<1>4. ASSUME NEW t, Tick(t)
      PROVE  EditsInv' /\ EditsKept /\ Decided
  <2>1. \A i \in DOMAIN recs : recs'[i] = recs[i]
    BY <1>4, TickMoves DEF FiredSoFar
  <2>2. UNCHANGED <<edited, clobbered>>
    BY <1>4 DEF Tick, history
  <2> QED
    BY <1>0, <2>1, <2>2 DEF EditsInv, EditsKept, EditKept, Becomes, Decided
<1>5. ASSUME NEW i \in DOMAIN recs, Reviewed(i)
      PROVE  EditsInv' /\ EditsKept /\ Decided
  <2>1. recs[i] \in Record
    BY Elements
  <2>2. recs'[i].status \in AwaitingReview => recs[i].status \in AwaitingReview
    BY <1>5, <2>1, ReviewKeeps DEF Reviewed
  <2>3. Decided
    BY <1>5, <2>2 DEF Reviewed, Decided
  <2>4. EditsInv'
    <3>1. CASE /\ \E meta \in scene.edits : recs'[i] = OverrideMetadata(recs[i], meta)
               /\ edited' = edited \cup {i}
      <4>1. recs'[i].overridden /\ recs'[i].metadata.text = "user"
        BY <2>1, <3>1, ReviewKeeps, SceneType
      <4> QED
        BY <1>0, <1>5, <3>1, <4>1 DEF EditsInv, Reviewed
    <3>2. CASE /\ recs'[i] \in {Approve(recs[i]), Reject(recs[i]), PromoteToPublished(recs[i])}
               /\ UNCHANGED edited
      <4>1. recs'[i].overridden = recs[i].overridden
            /\ recs'[i].metadata.text = recs[i].metadata.text
        BY <2>1, <3>2, ReviewKeeps
      <4> QED
        BY <1>0, <1>5, <3>2, <4>1 DEF EditsInv, Reviewed
    <3> QED
      BY <1>5, <3>1, <3>2 DEF Reviewed
  <2>5. EditsKept
    BY <1>5 DEF Reviewed, EditsKept
  <2> QED
    BY <2>3, <2>4, <2>5
<1> QED
  BY <1>1, <1>2, <1>3, <1>4, <1>5, RecordSteps

\* What users decide stays, unless a save put back a record read before they did: their
\* text is never replaced, the rest of an edited record's metadata only by a caption that
\* says the video is for kids and by the result of its upload, and a decided record never
\* asks for review again.
THEOREM UsersHaveTheLastWord ==
  Spec => UsersWordIsFinal
<1>1. Init => EditsInv
  BY DEF Init, EditsInv
<1>2. TypeOK /\ EditsInv /\ [Next]_vars => EditsInv'
  BY EditsStep
<1>3. EditsInv => (~clobbered => \A i \in edited : recs[i].metadata.text = "user")
  BY DEF EditsInv
<1>4. TypeOK /\ EditsInv /\ [Next]_vars =>
        [commands' = commands /\ ~clobbered' => \A i \in edited :
           \/ Becomes(i, recs[i].metadata)
           \/ Becomes(i, [recs[i].metadata EXCEPT !.kids = TRUE])
           \/ /\ recs'[i].status \in Done
              /\ Becomes(i, [recs[i].metadata EXCEPT !.visibility = scene.visibility])]_vars
  BY EditsStep DEF EditsKept, EditKept
<1>5. TypeOK /\ EditsInv /\ [Next]_vars =>
        [\A i \in DOMAIN recs :
           recs[i].status \notin {"pending"} \cup AwaitingReview /\ ~clobbered'
             => recs'[i].status \notin AwaitingReview]_vars
  BY EditsStep DEF Decided
<1> QED
  BY <1>1, <1>2, <1>3, <1>4, <1>5, UploadsTypeOK, PTL DEF Spec, UsersWordIsFinal

-----------------------------------------------------------------------------
(* What counts as done was posted *)

RefPosted(r) == r.status \in Done => r.ref \in posted

\* Wherever a result or a copy of a record is between the worker and the tables, what it
\* calls done was posted.
PostedInv ==
  /\ \A i \in DOMAIN recs : RefPosted(recs[i])
  /\ \A i \in DOMAIN backfill.recs : RefPosted(backfill.recs[i])
  /\ \A s \in Stream : RefPosted(result[s].copy)
  /\ \A k \in DOMAIN rows : rows[k].status = "completed" => rows[k].ref \in posted
  /\ \A n \in DOMAIN answers["completed"] : answers["completed"][n] \in posted
  /\ result["completed"].stage # "idle" => result["completed"].job \in posted

\* The first answer of a stream is taken.
Takes(s) == answers[s] # <<>> /\ answers' = [answers EXCEPT ![s] = Tail(@)]

\* Nothing that was posted is taken back, and the worker's answers say so.
LEMMA PostedGrows ==
  ASSUME TypeOK, [Next]_vars
  PROVE  \/ Worker
         \/ UNCHANGED <<worked>> /\ (UNCHANGED answers \/ \E s \in Stream : Takes(s))
<1>1. CASE Consumer
  <2>1. ASSUME NEW s \in Stream, ApplyToStep(s) \/ ReadRecord(s) \/ SaveRecord(s) \/ Settle(s)
                                   \/ TransactionFails(s)
        PROVE  UNCHANGED <<worked>> /\ (UNCHANGED answers \/ Takes(s))
    <3>1. CASE ApplyToStep(s)
      BY <3>1 DEF ApplyToStep, Takes
    <3>2. CASE ReadRecord(s) \/ SaveRecord(s) \/ Settle(s)
      <4>1. UNCHANGED <<worked, answers>>
        BY <3>2 DEF ReadRecord, SaveRecord, Settle, outside
      <4> QED
        BY <4>1
    <3>3. CASE TransactionFails(s)
      <4>1. UNCHANGED <<worked>>
        BY <3>3 DEF TransactionFails, outside
      <4>2. UNCHANGED answers \/ Takes(s)
        BY <3>3 DEF TransactionFails, Takes
      <4> QED
        BY <4>1, <4>2
    <3> QED
      BY <2>1, <3>1, <3>2, <3>3
  <2>2. ASSUME (\E q, w, k : CaptionCompleted(q, w, k)) \/ BackfillRead \/ BackfillSave
        PROVE  UNCHANGED <<worked, answers>>
    BY <2>2 DEF CaptionCompleted, BackfillRead, BackfillSave, outside
  <2> QED
    BY <1>1, <2>1, <2>2, Zenon DEF Consumer, Consume
<1>2. CASE Ticker
  BY <1>2, Zenon DEF Ticker, Tick, Fire, FireFails, outside, consumers
<1>3. CASE Reviewer
  BY <1>3 DEF Reviewer, EditUploadMetadata, ApproveUploadRecord, RejectUploadRecord,
              PromoteUploadToPublished, RecordCommand, consumers
<1>4. CASE Scheduling
  <2>1. ASSUME NEW k, NEW t, NEW m, AskSchedule(t, m) \/ AskReschedule(k, t)
        PROVE  UNCHANGED <<worked, answers>>
    BY <2>1 DEF AskSchedule, AskReschedule, Asks, outside, consumers
  <2>2. ASSUME NEW a, WriteSchedule(a) \/ WriteReschedule(a)
        PROVE  UNCHANGED <<worked, answers>>
    BY <2>2 DEF WriteSchedule, WriteReschedule, Write, outside, consumers
  <2>3. ASSUME NEW k, CancelScheduledUpload(k)
        PROVE  UNCHANGED <<worked, answers>>
    BY <2>3 DEF CancelScheduledUpload, outside, consumers
  <2> QED
    BY <1>4, <2>1, <2>2, <2>3, Zenon DEF Scheduling
<1>5. CASE RegenerateUpload \/ CancelRun \/ Crash \/ UNCHANGED vars
  BY <1>5 DEF RegenerateUpload, CancelRun, Crash, vars, outside, consumers
<1> QED
  BY <1>1, <1>2, <1>3, <1>4, <1>5 DEF Next

\* The steps of the consumers of results, and those that leave them alone.
LEMMA ResultSteps ==
  ASSUME TypeOK, [Next]_vars
  PROVE  \/ UNCHANGED <<result, backfill>>
         \/ \E s \in Stream : Consume(s) \/ TransactionFails(s)
         \/ UNCHANGED result /\ (backfill' = NoBackfill \/ backfill'.recs = <<>>
                                 \/ backfill'.recs = recs)
         \/ backfill' = NoBackfill /\ result' = [s \in Stream |-> Idle]
<1>1. CASE Worker
  BY <1>1, WorkerShows DEF Unchanged4Worker
<1>2. CASE Consumer
  <2>1. ASSUME NEW q, NEW w, NEW k, CaptionCompleted(q, w, k)
        PROVE  UNCHANGED result /\ backfill'.recs = <<>>
    BY <2>1 DEF CaptionCompleted, NoBackfill
  <2>2. ASSUME BackfillRead \/ BackfillSave
        PROVE  UNCHANGED result /\ (backfill' = NoBackfill \/ backfill'.recs = recs)
    BY <2>2 DEF BackfillRead, BackfillSave, Backfill, TypeOK
  <2> QED
    BY <1>2, <2>1, <2>2, Zenon DEF Consumer
<1>3. CASE Ticker
  BY <1>3, Zenon DEF Ticker, Tick, Fire, FireFails, consumers
<1>4. CASE Reviewer
  BY <1>4 DEF Reviewer, EditUploadMetadata, ApproveUploadRecord, RejectUploadRecord,
              PromoteUploadToPublished, RecordCommand, consumers
<1>5. CASE Scheduling
  <2>1. ASSUME NEW k, NEW t, NEW m, AskSchedule(t, m) \/ AskReschedule(k, t)
        PROVE  UNCHANGED <<result, backfill>>
    BY <2>1 DEF AskSchedule, AskReschedule, Asks, consumers
  <2>2. ASSUME NEW a, WriteSchedule(a) \/ WriteReschedule(a)
        PROVE  UNCHANGED <<result, backfill>>
    BY <2>2 DEF WriteSchedule, WriteReschedule, Write, consumers
  <2>3. ASSUME NEW k, CancelScheduledUpload(k)
        PROVE  UNCHANGED <<result, backfill>>
    BY <2>3 DEF CancelScheduledUpload, consumers
  <2> QED
    BY <1>5, <2>1, <2>2, <2>3, Zenon DEF Scheduling
<1>6. CASE RegenerateUpload \/ CancelRun \/ UNCHANGED vars
  BY <1>6 DEF RegenerateUpload, CancelRun, vars, consumers
<1>7. CASE Crash
  BY <1>7 DEF Crash
<1> QED
  BY <1>1, <1>2, <1>3, <1>4, <1>5, <1>6, <1>7 DEF Next

\* What a consumer of results does to its place: it takes the next result, goes on with the
\* one it has, or is done with it.
LEMMA ConsumeMoves ==
  ASSUME TypeOK, NEW s \in Stream, Consume(s) \/ TransactionFails(s)
  PROVE  /\ UNCHANGED backfill
         /\ \A u \in Stream : u # s => result'[u] = result[u]
         /\ \/ /\ Takes(s)
               /\ result[s].stage = "idle" /\ result'[s].stage = "read"
               /\ result'[s].job = Head(answers[s]) /\ result'[s].copy = Idle.copy
            \/ result[s].stage = "settle" /\ result'[s] = Idle /\ UNCHANGED answers
            \/ /\ result[s].stage # "idle" /\ result'[s].stage # "idle"
               /\ result'[s].job = result[s].job /\ UNCHANGED answers
               /\ \/ result'[s].copy = result[s].copy
                  \/ \E i \in DOMAIN recs : result'[s].copy = recs[i]
<1>1. result \in [Stream -> Result] /\ result[s] \in Result
  BY DEF TypeOK
<1>2. /\ UNCHANGED backfill
      /\ \A u \in Stream : u # s => result'[u] = result[u]
  BY <1>1 DEF Consume, ApplyToStep, ReadRecord, SaveRecord, Settle, TransactionFails
<1>3. CASE /\ result[s].stage = "idle" /\ Takes(s)
           /\ result' = [result EXCEPT ![s] = [Idle EXCEPT !.stage = "read", !.job = Head(answers[s])]]
  <2>1. result'[s] = [Idle EXCEPT !.stage = "read", !.job = Head(answers[s])]
    BY <1>1, <1>3
  <2>2. result'[s].stage = "read" /\ result'[s].job = Head(answers[s]) /\ result'[s].copy = Idle.copy
    BY <2>1 DEF Idle
  <2> QED
    BY <1>2, <1>3, <2>2
<1>4. CASE /\ result[s].stage = "settle" /\ result' = [result EXCEPT ![s] = Idle]
           /\ UNCHANGED answers
  BY <1>1, <1>2, <1>4
<1>5. CASE /\ result[s].stage = "save" /\ result' = [result EXCEPT ![s].stage = "settle"]
           /\ UNCHANGED answers
  BY <1>1, <1>2, <1>5 DEF Result
<1>6. CASE ReadRecord(s)
  <2>1. PICK i : i = RecordForResult(recs)
    OBVIOUS
  <2>2. recs # <<>> => i \in DOMAIN recs
    BY <2>1, RecordFound DEF TypeOK
  <2>3. result[s].stage = "read" /\ UNCHANGED answers
    BY <1>6 DEF ReadRecord
  <2>4. result'[s] = IF recs = <<>> THEN [result[s] EXCEPT !.stage = "settle"]
                     ELSE [result[s] EXCEPT !.stage = "save", !.index = i, !.copy = recs[i]]
    BY <1>1, <1>6, <2>1 DEF ReadRecord
  <2>5. /\ result'[s].stage # "idle" /\ result'[s].job = result[s].job
        /\ recs = <<>> => result'[s].copy = result[s].copy
        /\ recs # <<>> => result'[s].copy = recs[i]
    BY <1>1, <2>4 DEF Result
  <2> QED
    BY <1>2, <2>2, <2>3, <2>5
<1>7. CASE ApplyToStep(s)
  BY <1>3, <1>7, Zenon DEF ApplyToStep, Takes
<1>8. CASE SaveRecord(s)
  BY <1>5, <1>8 DEF SaveRecord
<1>9. CASE Settle(s)
  BY <1>4, <1>9 DEF Settle
<1>10. CASE TransactionFails(s)
  BY <1>3, <1>4, <1>5, <1>10 DEF TransactionFails, Takes
<1> QED
  BY <1>6, <1>7, <1>8, <1>9, <1>10 DEF Consume

\* Every step keeps what is done posted.
LEMMA PostedStep ==
  ASSUME TypeOK, PostedInv, [Next]_vars
  PROVE  PostedInv'
<1>0. "completed" \in Stream /\ TypeOK' /\ posted \subseteq posted'
  BY TypeStep, PostedGrows, WorkerShows DEF Stream, Posts, Shows, worked
<1>1. (\A n \in DOMAIN answers["completed"] : answers["completed"][n] \in posted)'
  <2>1. answers["completed"] \in Seq(Job) /\ answers \in [Stream -> Seq(Job)]
    BY <1>0 DEF TypeOK
  <2>2. CASE answers' = answers \/ answers'["completed"] = answers["completed"]
    BY <1>0, <2>2 DEF PostedInv
  <2>3. CASE answers["completed"] # <<>> /\ answers'["completed"] = Tail(answers["completed"])
    <3>1. \A i \in DOMAIN Tail(answers["completed"]) : \E n \in DOMAIN answers["completed"] :
            Tail(answers["completed"])[i] = answers["completed"][n]
      BY <2>1, <2>3, Taken
    <3> QED
      BY <1>0, <2>3, <3>1 DEF PostedInv
  <2>4. ASSUME NEW j \in Job, Posts(j), Publish("completed", j)
        PROVE  (\A n \in DOMAIN answers["completed"] : answers["completed"][n] \in posted)'
    <3>1. /\ DOMAIN Append(answers["completed"], j)
               = DOMAIN answers["completed"] \cup {Len(answers["completed"]) + 1}
          /\ \A i \in DOMAIN answers["completed"] :
               Append(answers["completed"], j)[i] = answers["completed"][i]
          /\ Append(answers["completed"], j)[Len(answers["completed"]) + 1] = j
      BY <2>1, Appended
    <3>2. answers'["completed"] = Append(answers["completed"], j)
      BY <1>0, <2>1, <2>4 DEF Publish
    <3> QED
      BY <2>4, <3>1, <3>2 DEF PostedInv, Posts
  <2> QED
    <3>1. CASE Worker
      <4>1. PICK j \in Job :
              \/ UNCHANGED answers
              \/ Posts(j) /\ Publish("completed", j)
              \/ Publish("failed", j)
        BY <3>1, WorkerShows DEF Shows
      <4>2. Publish("failed", j) => answers'["completed"] = answers["completed"]
        BY <2>1 DEF Publish
      <4> QED
        BY <2>2, <2>4, <4>1, <4>2
    <3>2. CASE ~Worker
      <4>1. ASSUME NEW s \in Stream, Takes(s)
            PROVE  \/ answers'["completed"] = answers["completed"]
                   \/ /\ answers["completed"] # <<>>
                      /\ answers'["completed"] = Tail(answers["completed"])
        BY <1>0, <2>1, <4>1 DEF Takes
      <4> QED
        BY <2>2, <2>3, <3>2, <4>1, PostedGrows
    <3> QED
      BY <3>1, <3>2
<1>2. (\A k \in DOMAIN rows : rows[k].status = "completed" => rows[k].ref \in posted)'
  <2>1. CASE UNCHANGED rows
    BY <1>0, <2>1 DEF PostedInv
  <2>2. ASSUME NEW s \in Stream, Settle(s), NEW k \in InFlight, RowSettled(s, k)
        PROVE  \A l \in DOMAIN rows' : rows'[l].status = "completed" => rows'[l].ref \in posted
    <3>1. rows[k] \in Row /\ k \in DOMAIN rows
      BY Elements DEF InFlight
    <3>2. Settled(s, rows[k]).status = "completed" =>
            s = "completed" /\ Settled(s, rows[k]).ref = result[s].job
      BY <3>1 DEF Settled, Row
    <3>3. result[s].stage # "idle"
      BY <2>2 DEF Settle
    <3> QED
      BY <2>2, <3>2, <3>3 DEF RowSettled, PostedInv
  <2>3. ASSUME NEW t, Tick(t)
        PROVE  \A l \in DOMAIN rows' : rows'[l].status = "completed" => rows'[l].ref \in posted
    BY <2>3, TickMoves DEF FiredSoFar, PostedInv
  <2>4. ASSUME NEW a \in asking, RowAdded(a)
        PROVE  \A l \in DOMAIN rows' : rows'[l].status = "completed" => rows'[l].ref \in posted
    BY <2>4 DEF RowAdded, NewRow, PostedInv
  <2>5. ASSUME NEW k, NEW t, RowMoved(k, t)
        PROVE  \A l \in DOMAIN rows' : rows'[l].status = "completed" => rows'[l].ref \in posted
    BY <2>5 DEF RowMoved, PostedInv
  <2>6. ASSUME NEW k \in DOMAIN rows, RowCancelled(k)
        PROVE  \A l \in DOMAIN rows' : rows'[l].status = "completed" => rows'[l].ref \in posted
    BY <2>6 DEF RowCancelled, PostedInv
  <2> QED
    BY <1>0, <2>1, <2>2, <2>3, <2>4, <2>5, <2>6, RowSteps, SettleMoves, RowChanges
<1>3. (\A i \in DOMAIN recs : RefPosted(recs[i]))'
  <2>1. CASE UNCHANGED <<recs, edited, clobbered>>
    BY <1>0, <2>1 DEF PostedInv, RefPosted
  <2>2. ASSUME NEW s \in Stream, SaveRecord(s)
        PROVE  \A i \in DOMAIN recs' : RefPosted(recs'[i])
    <3>1. result[s].copy \in Record
      BY DEF TypeOK, Result
    <3>2. result[s].stage # "idle"
      BY <2>2 DEF SaveRecord
    <3>3. RefPosted(Marked(s))
      <4>1. CASE s = "completed"
        <5>0. PICK j, v : j = result[s].job /\ v = scene.visibility
          OBVIOUS
        <5>1. PICK r \in Record : Marked(s) = MarkUploaded(r, j, v)
          BY <3>1, <4>1, <5>0 DEF Marked
        <5>2. MarkUploaded(r, j, v).ref = j
          BY <5>1, MarkedRef
        <5>3. Marked(s).ref = j
          BY <5>1, <5>2
        <5> QED
          BY <3>2, <4>1, <5>0, <5>3 DEF RefPosted, PostedInv
      <4>2. CASE s # "completed"
        <5>1. Marked(s) = MarkFailed(result[s].copy)
          BY <4>2 DEF Marked
        <5>2. Marked(s).status = "failed"
          BY <3>1, <5>1, SavesKeep
        <5> QED
          BY <5>2 DEF RefPosted, Done
      <4> QED
        BY <4>1, <4>2
    <3> QED
      BY <2>2, <3>3, SaveMoves DEF PostedInv
  <2>3. ASSUME BackfillSave
        PROVE  \A i \in DOMAIN recs' : RefPosted(recs'[i])
    <3>1. PICK b \in BOOLEAN, k \in BOOLEAN :
            b = RequireReview(backfill.recs) /\ k = backfill.kids
      <4>1. run.opts.review \in BOOLEAN /\ backfill.kids \in BOOLEAN
        BY DEF TypeOK, Run, RunOptions, Backfill
      <4> QED
        BY <4>1 DEF RequireReview
    <3>2. ASSUME NEW i \in DOMAIN backfill.recs
          PROVE  RefPosted(ApplyLLMMetadata(backfill.recs[i], k, b))
      <4>1. PICK r \in Record : r = backfill.recs[i] /\ RefPosted(r)
        BY Elements DEF PostedInv
      <4>2. /\ ApplyLLMMetadata(r, k, b).ref = r.ref
            /\ ApplyLLMMetadata(r, k, b).status \in Done => r.status \in Done
        BY CaptionKeeps
      <4>3. RefPosted(ApplyLLMMetadata(r, k, b))
        BY <4>1, <4>2 DEF RefPosted
      <4> QED
        BY <4>1, <4>3
    <3>3. \A i \in DOMAIN recs : recs'[i] = IF i \in DOMAIN backfill.recs
                                         THEN ApplyLLMMetadata(backfill.recs[i], k, b)
                                         ELSE recs[i]
      BY <2>3, <3>1, BackfilledRecs
    <3> QED
      BY <2>3, <3>2, <3>3, BackfilledRecs DEF PostedInv
  <2>4. ASSUME NEW t, Tick(t)
        PROVE  \A i \in DOMAIN recs' : RefPosted(recs'[i])
    BY <2>4, TickMoves DEF FiredSoFar, PostedInv, RefPosted, Done
  <2>5. ASSUME NEW i \in DOMAIN recs, Reviewed(i)
        PROVE  \A l \in DOMAIN recs' : RefPosted(recs'[l])
    <3>1. recs'[i].status \in Done => recs[i].status \in Done /\ recs'[i].ref = recs[i].ref
      BY <2>5, ReviewKeeps, Elements DEF Reviewed
    <3> QED
      BY <2>5, <3>1 DEF Reviewed, PostedInv, RefPosted
  <2> QED
    BY <1>0, <2>1, <2>2, <2>3, <2>4, <2>5, RecordSteps DEF RefPosted
<1>4. (\A i \in DOMAIN backfill.recs : RefPosted(backfill.recs[i]))'
  <2>1. \/ backfill' = backfill \/ backfill'.recs = <<>> \/ backfill'.recs = recs
    BY ResultSteps, ConsumeMoves, IdleType
  <2> QED
    BY <1>0, <2>1 DEF PostedInv, RefPosted
<1>5. /\ (\A s \in Stream : RefPosted(result[s].copy))'
      /\ (result["completed"].stage # "idle" => result["completed"].job \in posted)'
  <2>1. CASE UNCHANGED result
    BY <1>0, <2>1 DEF PostedInv, RefPosted
  <2>2. Idle.copy.status \notin Done
    BY IdleType DEF Done
  <2>3. CASE result' = [s \in Stream |-> Idle]
    BY <1>0, <2>2, <2>3, IdleType DEF RefPosted
  <2>4. ASSUME NEW s \in Stream, Consume(s) \/ TransactionFails(s)
        PROVE  /\ \A u \in Stream : result'[u].copy.status \in Done => result'[u].copy.ref \in posted
               /\ result'["completed"].stage # "idle" => result'["completed"].job \in posted
    <3>1. /\ result'[s].copy.status \in Done => result'[s].copy.ref \in posted
          /\ s = "completed" /\ result'[s].stage # "idle" => result'[s].job \in posted
      <4>1. CASE answers[s] # <<>> /\ result'[s].job = Head(answers[s])
                   /\ result'[s].copy = Idle.copy
        <5>1. answers[s] \in Seq(Job)
          BY DEF TypeOK
        <5>2. Head(answers[s]) = answers[s][1] /\ 1 \in DOMAIN answers[s]
          BY <4>1, <5>1, Taken
        <5> QED
          BY <2>2, <4>1, <5>2 DEF PostedInv
      <4>2. CASE result'[s] = Idle
        BY <2>2, <4>2, IdleType
      <4>3. CASE /\ result[s].stage # "idle" /\ result'[s].job = result[s].job
                 /\ \/ result'[s].copy = result[s].copy
                    \/ \E i \in DOMAIN recs : result'[s].copy = recs[i]
        BY <4>3 DEF PostedInv, RefPosted
      <4> QED
        BY <2>4, <4>1, <4>2, <4>3, ConsumeMoves DEF Takes
    <3>2. \A u \in Stream : u # s => result'[u] = result[u]
      BY <2>4, ConsumeMoves
    <3> QED
      BY <1>0, <3>1, <3>2 DEF PostedInv, RefPosted
  <2> QED
    BY <1>0, <2>1, <2>3, <2>4, ResultSteps DEF RefPosted
<1> QED
  BY <1>1, <1>2, <1>3, <1>4, <1>5 DEF PostedInv

-----------------------------------------------------------------------------
(* Each further copy of a video takes a failure or a claim *)

FiredRow(k) == k \in DOMAIN rows /\ rows[k].status # "pending"
RowJobFired(j) == j = RowJob(j.row) /\ FiredRow(j.row)

\* The jobs that are asked for, being handled or posted.
Asked == jobs \cup posted \cup {w.job : w \in again}

\* Every job there is of is one of the run's or that of a row a tick has fired; a tick
\* publishes a row once, and what it has yet to publish was not asked for before.
AskedInv ==
  /\ \A j \in Asked : j \in OwnJobs(run) \/ RowJobFired(j)
  /\ \A n \in DOMAIN firing : FiredRow(firing[n]) /\ RowJob(firing[n]) \notin Asked
  /\ \A m, n \in DOMAIN firing : m # n => firing[m] # firing[n]

\* What was posted again, and what may yet be: by a further handler, or because it is
\* still asked for.  It takes failures and claims.
OnceInv ==
  /\ AskedInv
  /\ IsFiniteSet(posted) /\ IsFiniteSet(again)
  /\ reposts + Cardinality(again) + Cardinality(jobs \cap posted) <= failures + claims

\* One element more, or less.
LEMMA OneElement ==
  ASSUME NEW S, IsFiniteSet(S), NEW x
  PROVE  /\ Cardinality(S) \in Nat
         /\ IsFiniteSet(S \cup {x})
         /\ Cardinality(S \cup {x}) = IF x \in S THEN Cardinality(S) ELSE Cardinality(S) + 1
         /\ IsFiniteSet(S \ {x})
         /\ Cardinality(S \ {x}) = IF x \in S THEN Cardinality(S) - 1 ELSE Cardinality(S)
BY FS_AddElement, FS_RemoveElement, FS_CardinalityType

\* A worker posts no job but one that is asked for, and for what it posts again it uses up
\* a handler, a request, a failure or a claim.
LEMMA WorkerPosts ==
  ASSUME TypeOK, OnceInv, Worker
  PROVE  /\ Asked' \subseteq Asked
         /\ IsFiniteSet(posted') /\ IsFiniteSet(again')
         /\ reposts' + Cardinality(again') + Cardinality(jobs' \cap posted') <= failures' + claims'
<1> DEFINE repeats == jobs \cap posted
<1>1. /\ reposts \in Nat /\ failures \in Nat /\ claims \in Nat
      /\ IsFiniteSet(posted) /\ IsFiniteSet(again) /\ IsFiniteSet(repeats)
      /\ reposts + Cardinality(again) + Cardinality(repeats) <= failures + claims
  BY FS_Subset DEF TypeOK, OnceInv
<1>2. Cardinality(again) \in Nat /\ Cardinality(repeats) \in Nat
  BY <1>1, FS_CardinalityType
<1>3. ASSUME NEW j, Posts(j) \/ UNCHANGED <<posted, reposts>>
      PROVE  /\ posted' \subseteq posted \cup {j} /\ posted \subseteq posted'
             /\ IsFiniteSet(posted')
             /\ \/ reposts' = reposts
                \/ reposts' = reposts + 1 /\ j \in posted /\ posted' = posted
  <2>1. posted' = posted \/ posted' = posted \cup {j}
    BY <1>3 DEF Posts
  <2>2. IsFiniteSet(posted')
    BY <1>1, <2>1, OneElement
  <2> QED
    BY <1>3, <2>1, <2>2 DEF Posts
<1>4. \A j : Handles(j) => Posts(j) \/ UNCHANGED <<posted, reposts>>
  BY Zenon DEF Handles, Upload, UploadFails, SkipCancelled
<1>5. ASSUME NEW j \in jobs, Works(j)
      PROVE  /\ Asked' \subseteq Asked
             /\ IsFiniteSet(posted') /\ IsFiniteSet(again')
             /\ reposts' + Cardinality(again') + Cardinality(jobs' \cap posted') <= failures' + claims'
  <2>1. /\ Posts(j) \/ UNCHANGED <<posted, reposts>>
        /\ jobs' = jobs \ {j} /\ UNCHANGED <<again, failures, claims>>
    BY <1>4, <1>5 DEF Works, counters
  <2>2. jobs' \cap posted' = repeats \ {j}
    BY <1>3, <2>1
  <2>3. Cardinality(repeats \ {j}) = IF j \in posted THEN Cardinality(repeats) - 1
                                     ELSE Cardinality(repeats)
    BY <1>1, OneElement
  <2>4. Asked' \subseteq Asked
    BY <1>3, <2>1 DEF Asked
  <2>5. PICK a, b, c : /\ a = Cardinality(again) /\ b = Cardinality(repeats)
                       /\ c = Cardinality(jobs' \cap posted')
    OBVIOUS
  <2>6. c = IF j \in posted THEN b - 1 ELSE b
    BY <2>2, <2>3, <2>5
  <2>7. a \in Nat /\ b \in Nat /\ reposts + a + b <= failures + claims
    BY <1>1, <1>2, <2>5
  <2>8. reposts' + a + c <= failures + claims
    BY <1>1, <1>3, <2>1, <2>6, <2>7
  <2> HIDE DEF repeats
  <2> QED
    BY <1>3, <1>1, <2>1, <2>4, <2>5, <2>8
<1>6. ASSUME NEW w \in again, WorksAgain(w)
      PROVE  /\ Asked' \subseteq Asked
             /\ IsFiniteSet(posted') /\ IsFiniteSet(again')
             /\ reposts' + Cardinality(again') + Cardinality(jobs' \cap posted') <= failures' + claims'
  <2>1. /\ Posts(w.job) \/ UNCHANGED <<posted, reposts>>
        /\ w.job \notin jobs
        /\ again' = again \ {w} /\ UNCHANGED <<jobs, failures, claims>>
    BY <1>4, <1>6 DEF WorksAgain, counters
  <2>2. jobs' \cap posted' = repeats
    BY <1>3, <2>1
  <2>3. IsFiniteSet(again') /\ Cardinality(again') = Cardinality(again) - 1
    BY <1>1, <2>1, OneElement
  <2>4. Asked' \subseteq Asked
    BY <1>3, <2>1 DEF Asked
  <2> HIDE DEF repeats
  <2> QED
    BY <1>1, <1>2, <1>3, <2>1, <2>2, <2>3, <2>4
<1>7. ASSUME NEW j \in jobs, Claim(j)
      PROVE  /\ Asked' \subseteq Asked
             /\ IsFiniteSet(posted') /\ IsFiniteSet(again')
             /\ reposts' + Cardinality(again') + Cardinality(jobs' \cap posted') <= failures' + claims'
  <2>1. /\ again' = again \cup {[job |-> j, n |-> claims + 1]}
        /\ claims' = claims + 1 /\ UNCHANGED <<jobs, posted, reposts, failures>>
    BY <1>7 DEF Claim
  <2>2. IsFiniteSet(again') /\ Cardinality(again') \in Nat
        /\ Cardinality(again') <= Cardinality(again) + 1
    <3>1. PICK w : w = [job |-> j, n |-> claims + 1]
      OBVIOUS
    <3>2. again' = again \cup {w}
      BY <2>1, <3>1
    <3>3. /\ IsFiniteSet(again \cup {w})
          /\ Cardinality(again \cup {w})
               = IF w \in again THEN Cardinality(again) ELSE Cardinality(again) + 1
      BY <1>1, OneElement
    <3> QED
      BY <1>2, <3>2, <3>3
  <2>3. Asked' \subseteq Asked
    BY <2>1 DEF Asked
  <2>4. jobs' \cap posted' = repeats
    BY <2>1
  <2> HIDE DEF repeats
  <2> QED
    <3>1. PICK a, b, c : /\ a = Cardinality(again) /\ b = Cardinality(repeats)
                         /\ c = Cardinality(again')
      OBVIOUS
    <3>2. reposts + c + b <= failures + (claims + 1)
      BY <1>1, <1>2, <2>2, <3>1
    <3> QED
      BY <1>1, <2>1, <2>2, <2>3, <2>4, <3>1, <3>2
<1>8. ASSUME NEW j \in Asked, Posts(j) \/ UNCHANGED <<posted, reposts>>, Fails, UNCHANGED jobs,
             again' = again \/ (\E w \in again : again' = again \ {w})
      PROVE  /\ Asked' \subseteq Asked
             /\ IsFiniteSet(posted') /\ IsFiniteSet(again')
             /\ reposts' + Cardinality(again') + Cardinality(jobs' \cap posted') <= failures' + claims'
  <2>1. IsFiniteSet(again') /\ Cardinality(again') \in Nat
        /\ Cardinality(again') <= Cardinality(again)
    BY <1>1, <1>2, <1>8, OneElement
  <2>2. failures' = failures + 1 /\ claims' = claims
    BY <1>8 DEF Fails
  <2>3. /\ Cardinality(jobs' \cap posted') \in Nat
        /\ \/ jobs' \cap posted' = repeats
           \/ /\ Cardinality(jobs' \cap posted') <= Cardinality(repeats) + 1
              /\ reposts' = reposts
    <3>1. jobs' \cap posted' = repeats \/ (jobs' \cap posted' = repeats \cup {j} /\ reposts' = reposts)
      BY <1>3, <1>8
    <3>2. ASSUME NEW S, S = repeats
          PROVE  Cardinality(S \cup {j}) \in Nat /\ Cardinality(S \cup {j}) <= Cardinality(S) + 1
      <4>1. IsFiniteSet(S) /\ Cardinality(S) \in Nat
        BY <1>1, <1>2, <3>2
      <4> QED
        BY <4>1, OneElement
    <3> HIDE DEF repeats
    <3> QED
      BY <1>2, <3>1, <3>2
  <2>4. Asked' \subseteq Asked
    BY <1>3, <1>8 DEF Asked
  <2> HIDE DEF repeats
  <2> QED
    BY <1>1, <1>2, <1>3, <1>8, <2>1, <2>2, <2>3, <2>4
<1>9. ASSUME NEW j \in jobs, WorkerDies(j)
      PROVE  /\ j \in Asked /\ Fails /\ UNCHANGED <<jobs, again>>
             /\ Posts(j) \/ UNCHANGED <<posted, reposts>>
  BY <1>9, Zenon DEF WorkerDies, Upload, UploadFails, Asked
<1>10. ASSUME NEW w \in again, WorkerDiesAgain(w)
       PROVE  /\ w.job \in Asked /\ Fails /\ UNCHANGED jobs /\ again' = again \ {w}
              /\ Posts(w.job) \/ UNCHANGED <<posted, reposts>>
  BY <1>10 DEF WorkerDiesAgain, Asked
<1> HIDE DEF repeats
<1> QED
  BY <1>5, <1>6, <1>7, <1>8, <1>9, <1>10 DEF Worker

\* The steps that change the jobs, the run, or what the ticker has yet to publish.
LEMMA JobSteps ==
  ASSUME TypeOK, [Next]_vars
  PROVE  /\ \/ Worker /\ UNCHANGED <<run, firing, rows>>
            \/ RunMoves /\ UNCHANGED <<worked, firing, rows>>
            \/ Fire
            \/ \E t : Tick(t)
            \/ /\ UNCHANGED <<run, jobs, worked, rows>>
               /\ \/ firing' = <<>>
                  \/ firing # <<>> /\ firing' = Tail(firing)
               /\ failures' > 0
            \/ UNCHANGED <<run, jobs, worked, firing>>
         /\ failures' >= failures /\ claims' >= claims
<1>0. failures \in Nat /\ claims \in Nat /\ run \in Run
  BY DEF TypeOK
<1>1. CASE Worker
  <2>1. UNCHANGED <<run, firing, rows>>
    BY <1>1, WorkerShows DEF Unchanged4Worker, database, ticker
  <2>2. ASSUME NEW j \in jobs, Works(j) \/ Claim(j) \/ WorkerDies(j)
        PROVE  failures' >= failures /\ claims' >= claims
    BY <1>0, <2>2 DEF Works, Claim, WorkerDies, Fails, counters
  <2>3. ASSUME NEW w \in again, WorksAgain(w) \/ WorkerDiesAgain(w)
        PROVE  failures' >= failures /\ claims' >= claims
    BY <1>0, <2>3 DEF WorksAgain, WorkerDiesAgain, Fails, counters
  <2> QED
    BY <1>1, <2>1, <2>2, <2>3 DEF Worker
<1>2. CASE Consumer
  <2>1. ASSUME NEW s \in Stream, ApplyToStep(s)
        PROVE  RunMoves /\ UNCHANGED <<worked, firing, rows, failures, claims>>
    <3>1. StepCompleted(Head(answers[s])) \/ StepFailed(Head(answers[s]))
      BY <2>1, Zenon DEF ApplyToStep
    <3>2. answers[s] \in Seq(Job) /\ answers[s] # <<>>
      BY <2>1 DEF ApplyToStep, TypeOK
    <3>3. Head(answers[s]) \in Job
      BY <3>2, Taken
    <3> QED
      BY <1>0, <2>1, <3>1, <3>3, RunSteps DEF ApplyToStep, ticker, counters
  <2>2. ASSUME NEW s \in Stream, ReadRecord(s) \/ SaveRecord(s) \/ Settle(s)
        PROVE  UNCHANGED <<run, jobs, worked, firing, failures, claims>>
    BY <2>2 DEF ReadRecord, SaveRecord, Settle, database, ticker, outside, counters
  <2>3. ASSUME NEW s \in Stream, TransactionFails(s)
        PROVE  UNCHANGED <<run, jobs, worked, firing, claims>> /\ failures' = failures + 1
    BY <2>3 DEF TransactionFails, Fails, database, ticker, outside
  <2>4. ASSUME NEW q \in run.sent, NEW w \in BOOLEAN, NEW k \in BOOLEAN, CaptionCompleted(q, w, k)
        PROVE  RunMoves /\ UNCHANGED <<worked, firing, rows, failures, claims>>
    <3>1. q \in Request
      BY DEF TypeOK, Run
    <3>2. RunMoves
      BY <2>4, <3>1, CloseMoves, RunSteps, TheSteps DEF CaptionCompleted, TypeOK
    <3> QED
      BY <2>4, <3>2 DEF CaptionCompleted, ticker
  <2>5. ASSUME BackfillRead \/ BackfillSave
        PROVE  UNCHANGED <<run, jobs, worked, firing, failures, claims>>
    BY <2>5 DEF BackfillRead, BackfillSave, database, ticker, outside, counters
  <2> QED
    BY <1>0, <1>2, <2>1, <2>2, <2>3, <2>4, <2>5 DEF Consumer, Consume
<1>3. CASE Ticker
  <2>1. (\E t : Tick(t)) => UNCHANGED <<failures, claims>>
    BY DEF Tick, counters
  <2>2. Fire => UNCHANGED <<failures, claims>>
    BY DEF Fire, counters
  <2>3. FireFails => /\ UNCHANGED <<run, jobs, worked, rows, claims>>
                     /\ firing # <<>> /\ firing' = Tail(firing)
                     /\ failures' = failures + 1
    BY DEF FireFails, Fails, database, outside
  <2> QED
    BY <1>0, <1>3, <2>1, <2>2, <2>3 DEF Ticker
<1>4. ASSUME run.status # "cancelled", CanRequest(run, UploadStep),
             RunBecomes(RequestPlain(Resume(run), UploadStep))
      PROVE  RunMoves
  BY <1>0, <1>4, RunSteps
<1>5. CASE Reviewer
  <2>1. UNCHANGED <<worked, firing, rows, failures, claims>>
    BY <1>5 DEF Reviewer, EditUploadMetadata, ApproveUploadRecord, RejectUploadRecord,
                PromoteUploadToPublished, RecordCommand, Commanded, ticker
  <2>2. \/ UNCHANGED <<run, jobs>>
        \/ /\ run.status = "awaiting_action" /\ CanRequest(run, UploadStep)
           /\ RunBecomes(RequestPlain(Resume(run), UploadStep))
    BY <1>5 DEF Reviewer, EditUploadMetadata, ApproveUploadRecord, RejectUploadRecord,
                PromoteUploadToPublished, MayResume
  <2> QED
    BY <1>0, <1>4, <2>1, <2>2
<1>6. CASE Scheduling
  <2>1. ASSUME NEW k, NEW t, NEW m, AskSchedule(t, m) \/ AskReschedule(k, t)
        PROVE  UNCHANGED <<run, jobs, worked, firing, failures, claims>>
    BY <2>1 DEF AskSchedule, AskReschedule, Asks, Commanded, database, ticker, outside
  <2>2. ASSUME NEW a, WriteSchedule(a) \/ WriteReschedule(a)
        PROVE  UNCHANGED <<run, jobs, worked, firing, failures, claims>>
    BY <2>2 DEF WriteSchedule, WriteReschedule, Write, ticker, outside, counters
  <2>3. ASSUME NEW k, CancelScheduledUpload(k)
        PROVE  UNCHANGED <<run, jobs, worked, firing, failures, claims>>
    BY <2>3 DEF CancelScheduledUpload, Commanded, ticker, outside
  <2> QED
    BY <1>0, <1>6, <2>1, <2>2, <2>3 DEF Scheduling
<1>7. CASE RegenerateUpload \/ CancelRun
  <2>1. RunMoves
    BY <1>0, <1>7, RunSteps DEF RegenerateUpload, CancelRun
  <2> QED
    BY <1>0, <1>7, <2>1 DEF RegenerateUpload, CancelRun, Commanded, ticker
<1>8. CASE Crash
  <2>1. /\ UNCHANGED <<run, jobs, worked, rows, claims>>
        /\ firing' = <<>> /\ failures' = failures + 1
    BY <1>8 DEF Crash, Fails, database, outside
  <2>2. failures' > 0 /\ failures' >= failures /\ claims' >= claims
    BY <1>0, <2>1
  <2> QED
    BY <2>1, <2>2, Zenon
<1>9. CASE UNCHANGED vars
  BY <1>0, <1>9 DEF vars, database, ticker, outside, counters
<1> QED
  BY <1>1, <1>2, <1>3, <1>5, <1>6, <1>7, <1>8, <1>9 DEF Next

\* A row that was fired is never pending again.
LEMMA FiredStays ==
  ASSUME TypeOK, [Next]_vars, NEW k, FiredRow(k)
  PROVE  FiredRow(k)'
<1>1. CASE UNCHANGED rows
  BY <1>1 DEF FiredRow
<1>2. ASSUME NEW s \in Stream, NEW l \in InFlight, RowSettled(s, l)
      PROVE  FiredRow(k)'
  <2>1. rows[l] \in Row
    BY Elements DEF InFlight
  <2>2. Settled(s, rows[l]).status # "pending"
    BY <2>1 DEF Settled, Row
  <2> QED
    BY <1>2, <2>2 DEF FiredRow, RowSettled
<1>3. ASSUME NEW t, Tick(t)
      PROVE  FiredRow(k)'
  BY <1>3, TickMoves DEF FiredSoFar, FiredRow
<1>4. ASSUME NEW a \in asking, RowAdded(a) \/ RowMoved(a.row, a.at)
      PROVE  FiredRow(k)'
  BY <1>4 DEF RowAdded, RowMoved, FiredRow
<1>5. ASSUME NEW l, RowCancelled(l)
      PROVE  FiredRow(k)'
  BY <1>5 DEF RowCancelled, FiredRow
<1> QED
  BY <1>1, <1>2, <1>3, <1>4, <1>5, RowSteps, SettleMoves, RowChanges

\* A bound that is a sum grows with its parts.
LEMMA BoundGrows ==
  ASSUME NEW r \in Nat, NEW a \in Nat, NEW b \in Nat, NEW f \in Nat, NEW c \in Nat,
         NEW g \in Nat, NEW d \in Nat, r + a + b <= f + c, f <= g, c <= d
  PROVE  r + a + b <= g + d
OBVIOUS

\* Every step keeps jobs from being asked for again but by a failure or a claim.
LEMMA OnceStep ==
  ASSUME TypeOK, OnceInv, [Next]_vars
  PROVE  OnceInv'
<1>n. /\ failures \in Nat /\ failures' \in Nat /\ failures <= failures'
      /\ claims \in Nat /\ claims' \in Nat /\ claims <= claims' /\ reposts \in Nat
  BY JobSteps, TypeStep DEF TypeOK
<1>0. /\ run \in Run /\ run' \in Run
      /\ \A k : FiredRow(k) => FiredRow(k)'
  BY JobSteps, TypeStep, FiredStays DEF TypeOK
<1>a. \A k : FiredRow(k) => k \in DOMAIN rows' /\ rows'[k].status # "pending"
  BY <1>0 DEF FiredRow
<1>1. /\ IsFiniteSet(posted) /\ IsFiniteSet(again)
      /\ Cardinality(again) \in Nat /\ Cardinality(jobs \cap posted) \in Nat
  BY FS_Subset, FS_CardinalityType DEF OnceInv
<1>b. UNCHANGED worked /\ jobs' \cap posted' = jobs \cap posted /\ AskedInv' => OnceInv'
  <2>1. SUFFICES ASSUME UNCHANGED worked, jobs' \cap posted' = jobs \cap posted, AskedInv'
                 PROVE  OnceInv'
    OBVIOUS
  <2>2. UNCHANGED <<again, posted, reposts>>
    BY <2>1 DEF worked
  <2>3. reposts' + Cardinality(again') + Cardinality(jobs' \cap posted') <= failures' + claims'
    <3>1. PICK a, b : a = Cardinality(again) /\ b = Cardinality(jobs \cap posted)
      OBVIOUS
    <3>2. reposts + a + b <= failures + claims /\ a \in Nat /\ b \in Nat
      BY <1>1, <3>1 DEF OnceInv
    <3>3. reposts + a + b <= failures' + claims'
      BY <1>n, <3>2, BoundGrows
    <3> QED
      BY <2>1, <2>2, <3>1, <3>3
  <2> QED
    BY <1>1, <2>1, <2>2, <2>3 DEF OnceInv
<1>c. UNCHANGED worked => /\ UNCHANGED <<again, posted>>
                          /\ Asked' = jobs' \cup posted \cup {w.job : w \in again}
  BY DEF worked, Asked
<1>2. /\ \A j \in OwnJobs(run) : j.row = 0
      /\ \A j \in OwnJobs(run)' : j.row = 0
  <2>1. OwnJobs(run)' = OwnJobs(run')
    BY DEF OwnJobs
  <2> QED
    BY <1>0, <2>1, OwnJobsType
<1>3. \A k : FiredRow(k) \/ FiredRow(k)' => RowJob(k).row # 0 /\ RowJob(k).row = k
  <2>1. DOMAIN rows = 1..Len(rows) /\ Len(rows) \in Nat
    BY Elements
  <2>2. rows' \in Seq(Row)
    BY TypeStep DEF TypeOK
  <2>3. DOMAIN rows' = 1..Len(rows') /\ Len(rows') \in Nat
    BY <2>2, LenProperties
  <2> QED
    BY <2>1, <2>3 DEF FiredRow, RowJob
<1>4. \A j : RowJobFired(j) => RowJobFired(j)'
  BY <1>0 DEF RowJobFired
<1>5. CASE Worker /\ UNCHANGED <<run, firing, rows>>
  <2>1. OwnJobs(run)' = OwnJobs(run)
    BY <1>5 DEF OwnJobs
  <2>2. Asked' \subseteq Asked
    BY <1>5, WorkerPosts
  <2>3. AskedInv'
    <3>1. \A j \in Asked' : j \in OwnJobs(run)' \/ RowJobFired(j)'
      BY <1>4, <2>1, <2>2 DEF OnceInv, AskedInv
    <3>2. \A n \in DOMAIN firing' : FiredRow(firing[n])' /\ RowJob(firing'[n]) \notin Asked'
      BY <1>5, <2>2 DEF OnceInv, AskedInv, FiredRow
    <3> QED
      BY <1>5, <3>1, <3>2 DEF OnceInv, AskedInv
  <2> QED
    BY <1>5, <2>3, WorkerPosts DEF OnceInv
<1>6. CASE RunMoves /\ UNCHANGED <<worked, firing, rows>>
  <2>1. jobs' \subseteq jobs \cup OwnJobs(run)' /\ OwnJobs(run) \subseteq OwnJobs(run)'
    BY <1>6 DEF RunMoves
  <2>2. ASSUME NEW j \in OwnJobs(run)', j \notin OwnJobs(run)
        PROVE  j \notin Asked /\ \A n \in DOMAIN firing : RowJob(firing[n]) # j
    BY <1>2, <1>3, <2>2 DEF OnceInv, AskedInv, RowJobFired
  <2>3. \A j \in jobs' : j \in jobs \/ (j \in OwnJobs(run)' /\ j \notin OwnJobs(run))
    BY <1>6 DEF RunMoves
  <2>4. \A j \in Asked' : j \in Asked \/ (j \in OwnJobs(run)' /\ j \notin OwnJobs(run))
    BY <1>6, <1>c, <2>3 DEF Asked
  <2>5. jobs' \cap posted' = jobs \cap posted
    <3>1. jobs \subseteq jobs'
      BY <1>6 DEF RunMoves
    <3> QED
      BY <1>6, <1>c, <2>2, <2>3, <3>1 DEF Asked
  <2>6. AskedInv'
    <3>1. \A j \in Asked' : j \in OwnJobs(run)' \/ RowJobFired(j)'
      BY <1>4, <2>1, <2>4 DEF OnceInv, AskedInv
    <3>2. \A n \in DOMAIN firing' : FiredRow(firing[n])' /\ RowJob(firing'[n]) \notin Asked'
      BY <1>6, <2>2, <2>4 DEF OnceInv, AskedInv, FiredRow
    <3> QED
      BY <1>6, <3>1, <3>2 DEF OnceInv, AskedInv
  <2> QED
    BY <1>6, <1>b, <2>5, <2>6
<1>7. CASE Fire
  <2>1. /\ firing # <<>> /\ jobs' = jobs \cup {RowJob(Head(firing))} /\ firing' = Tail(firing)
        /\ UNCHANGED <<run, rows, worked>>
    BY <1>7 DEF Fire, database
  <2>2. firing \in Seq(Nat)
    BY DEF TypeOK
  <2>3. /\ Head(firing) = firing[1] /\ Len(firing) \in Nat \ {0}
        /\ DOMAIN firing = 1..Len(firing) /\ DOMAIN Tail(firing) = 1..(Len(firing) - 1)
        /\ \A i \in DOMAIN Tail(firing) : Tail(firing)[i] = firing[i + 1]
    BY <2>1, <2>2, Taken
  <2>4. /\ 1 \in DOMAIN firing
        /\ \A i \in DOMAIN firing' : /\ i \in Int /\ i + 1 \in DOMAIN firing /\ i + 1 # 1
                                     /\ firing'[i] = firing[i + 1]
    BY <2>1, <2>3
  <2>5. \A j : j = RowJob(firing[1]) => RowJobFired(j)'
    <3>1. ASSUME NEW k, k = firing[1]
          PROVE  FiredRow(k)' /\ RowJob(k).row = k
      BY <1>0, <1>3, <2>4, <3>1 DEF OnceInv, AskedInv
    <3> QED
      BY <3>1 DEF RowJobFired
  <2>6. \A m, n \in DOMAIN firing' : m # n => firing'[m] # firing'[n]
    <3>1. \A m, n \in DOMAIN firing' : m # n => m + 1 # n + 1
      BY <2>4
    <3> QED
      BY <2>4, <3>1 DEF OnceInv, AskedInv
  <2>7. \A n \in DOMAIN firing' : RowJob(firing'[n]) # RowJob(firing[1])
    <3>1. \A n \in DOMAIN firing' : firing'[n] # firing[1]
      BY <2>4 DEF OnceInv, AskedInv
    <3> QED
      BY <3>1 DEF RowJob
  <2>8. OwnJobs(run)' = OwnJobs(run)
    BY <2>1 DEF OwnJobs
  <2>9. \A j \in Asked' : j \in Asked \/ j = RowJob(firing[1])
    BY <1>c, <2>1, <2>3 DEF Asked
  <2>10. jobs' \cap posted' = jobs \cap posted
    <3>1. RowJob(firing[1]) \notin posted
      BY <2>4 DEF OnceInv, AskedInv, Asked
    <3> QED
      BY <1>c, <2>1, <2>3, <3>1
  <2>11. AskedInv'
    <3>1. \A j \in Asked' : j \in OwnJobs(run)' \/ RowJobFired(j)'
      BY <1>4, <2>5, <2>8, <2>9 DEF OnceInv, AskedInv
    <3>2. \A n \in DOMAIN firing' : FiredRow(firing[n])' /\ RowJob(firing'[n]) \notin Asked'
      BY <1>a, <2>4, <2>7, <2>9 DEF OnceInv, AskedInv, FiredRow
    <3> QED
      BY <2>6, <3>1, <3>2 DEF AskedInv
  <2> QED
    BY <1>b, <2>1, <2>10, <2>11
<1>8. ASSUME NEW t, Tick(t)
      PROVE  OnceInv'
  <2>1. PICK order :
          /\ \A m \in 1..Len(order) : order[m] \in Due(t)
          /\ FiredSoFar([rows |-> rows', recs |-> recs', firing |-> firing'], order, Len(order))
    BY <1>8, TickMoves
  <2>2. /\ \A m \in DOMAIN firing' : firing'[m] \in Due(t) /\ rows'[firing'[m]].status = "in_flight"
        /\ \A m, l \in DOMAIN firing' : m # l => firing'[m] # firing'[l]
        /\ DOMAIN rows' = DOMAIN rows
    <3>1. ASSUME NEW m \in DOMAIN firing'
          PROVE  firing'[m] \in Due(t) /\ rows'[firing'[m]].status = "in_flight"
      <4>1. Chosen(order, Len(order), firing'[m])
        BY <2>1, <3>1 DEF FiredSoFar
      <4>2. firing'[m] \in Due(t)
        BY <2>1, <4>1 DEF Chosen
      <4> QED
        BY <2>1, <3>1, <4>1, <4>2 DEF FiredSoFar, Fires, Due
    <3> QED
      BY <2>1, <3>1 DEF FiredSoFar
  <2>3. UNCHANGED <<run, jobs, worked, failures>>
    BY <1>8 DEF Tick, outside, counters
  <2>4. \A n \in DOMAIN firing' : FiredRow(firing[n])'
    BY <2>2 DEF Due, FiredRow
  <2>5. ASSUME NEW n \in DOMAIN firing'
        PROVE  RowJob(firing'[n]) \notin Asked
    <3>1. RowJob(firing'[n]).row # 0 /\ RowJob(firing'[n]).row = firing'[n]
      <4>1. firing'[n] \in DOMAIN rows
        BY <2>2 DEF Due
      <4>2. DOMAIN rows = 1..Len(rows) /\ Len(rows) \in Nat
        BY Elements
      <4> QED
        BY <4>1, <4>2 DEF RowJob
    <3>2. ~FiredRow(firing'[n])
      BY <2>2 DEF Due, FiredRow
    <3> QED
      BY <1>2, <3>1, <3>2 DEF OnceInv, AskedInv, RowJobFired
  <2>6. OwnJobs(run)' = OwnJobs(run)
    BY <2>3 DEF OwnJobs
  <2> QED
    <3>1. Asked' = Asked
      BY <1>c, <2>3 DEF Asked
    <3>2. AskedInv'
      BY <1>4, <2>2, <2>4, <2>5, <2>6, <3>1 DEF OnceInv, AskedInv
    <3> QED
      BY <1>b, <1>c, <2>3, <3>2
<1>9. CASE /\ UNCHANGED <<run, jobs, worked, rows>>
           /\ \/ firing' = <<>>
              \/ firing # <<>> /\ firing' = Tail(firing)
           /\ failures' > 0
  <2>1. \A n \in DOMAIN firing' : /\ n \in Int /\ n + 1 \in DOMAIN firing
                                  /\ firing'[n] = firing[n + 1]
    <3>1. CASE firing' = <<>>
      BY <3>1
    <3>2. CASE firing # <<>> /\ firing' = Tail(firing)
      <4>1. firing \in Seq(Nat)
        BY DEF TypeOK
      <4>2. /\ Len(firing) \in Nat \ {0}
            /\ DOMAIN firing = 1..Len(firing) /\ DOMAIN Tail(firing) = 1..(Len(firing) - 1)
            /\ \A i \in DOMAIN Tail(firing) : Tail(firing)[i] = firing[i + 1]
        BY <3>2, <4>1, Taken
      <4> QED
        BY <3>2, <4>2
    <3> QED
      BY <1>9, <3>1, <3>2
  <2>2. \A m, n \in DOMAIN firing' : m # n => m + 1 # n + 1
    BY <2>1
  <2>3. OwnJobs(run)' = OwnJobs(run)
    BY <1>9 DEF OwnJobs
  <2>4. Asked' = Asked
    BY <1>9, <1>c DEF Asked
  <2>5. /\ \A n \in DOMAIN firing' : FiredRow(firing[n])' /\ RowJob(firing'[n]) \notin Asked'
        /\ \A m, n \in DOMAIN firing' : m # n => firing'[m] # firing'[n]
    BY <1>a, <2>1, <2>2, <2>4 DEF OnceInv, AskedInv, FiredRow
  <2>6. AskedInv'
    BY <1>4, <2>3, <2>4, <2>5 DEF OnceInv, AskedInv
  <2> QED
    BY <1>9, <1>b, <1>c, <2>6
<1>10. CASE UNCHANGED <<run, jobs, worked, firing>>
  <2>1. OwnJobs(run)' = OwnJobs(run)
    BY <1>10 DEF OwnJobs
  <2>2. Asked' = Asked
    BY <1>10, <1>c DEF Asked
  <2>3. AskedInv'
    BY <1>a, <1>4, <1>10, <2>1, <2>2 DEF OnceInv, AskedInv, FiredRow
  <2> QED
    BY <1>10, <1>b, <1>c, <2>3
<1> QED
  BY <1>5, <1>6, <1>7, <1>8, <1>9, <1>10, JobSteps

\* Initially nothing was posted, and the jobs are the run's.
LEMMA InitPosted ==
  Init => PostedInv /\ OnceInv
<1> SUFFICES ASSUME Init PROVE PostedInv /\ OnceInv
  OBVIOUS
<1>1. /\ \A i \in DOMAIN recs : recs[i].status \notin Done
      /\ \A k \in DOMAIN rows : rows[k].status # "completed"
  BY ScenesAssumption DEF Init
<1>2. "completed" \in Stream /\ Idle.copy.status \notin Done /\ Idle.stage = "idle"
  BY IdleType DEF Stream, Done
<1>3. PostedInv
  BY <1>1, <1>2 DEF Init, PostedInv, RefPosted, NoBackfill
<1>4. OnceInv
  <2>1. /\ Asked = OwnJobs(run) /\ firing = <<>> /\ posted = {} /\ again = {}
        /\ reposts = 0 /\ failures = 0 /\ claims = 0
    BY DEF Init, Asked
  <2>2. IsFiniteSet({}) /\ Cardinality({}) = 0
    BY FS_EmptySet
  <2>3. AskedInv
    BY <2>1 DEF AskedInv
  <2>4. jobs \cap posted = {}
    BY <2>1
  <2> QED
    BY <2>1, <2>2, <2>3, <2>4 DEF OnceInv
<1> QED
  BY <1>3, <1>4

\* What the studio calls uploaded, published or completed was posted by the job whose
\* reference it carries, and there are no more further copies of videos than failures and
\* claims of entries from live workers.
THEOREM SuccessIsReal ==
  Spec => []SuccessWasPosted
<1>1. TypeOK /\ PostedInv /\ OnceInv => SuccessWasPosted
  <2> SUFFICES ASSUME TypeOK, PostedInv, OnceInv PROVE SuccessWasPosted
    OBVIOUS
  <2>1. /\ Cardinality(again) \in Nat /\ Cardinality(jobs \cap posted) \in Nat
        /\ reposts \in Nat /\ failures \in Nat /\ claims \in Nat
    BY FS_Subset, FS_CardinalityType DEF OnceInv, TypeOK
  <2>2. reposts <= failures + claims
    BY <2>1 DEF OnceInv
  <2> QED
    BY <2>2 DEF PostedInv, SuccessWasPosted, RefPosted
<1>2. TypeOK /\ PostedInv /\ OnceInv /\ [Next]_vars => PostedInv' /\ OnceInv'
  BY PostedStep, OnceStep
<1> QED
  BY <1>1, <1>2, InitPosted, UploadsTypeOK, PTL DEF Spec

-----------------------------------------------------------------------------
(* The daily quota *)

\* Only a tick adds records.
LEMMA RecordsAdded ==
  ASSUME TypeOK, [Next]_vars, Len(recs') > Len(recs)
  PROVE  \E t : Tick(t)
<1>1. ASSUME DOMAIN recs' = DOMAIN recs
      PROVE  FALSE
  <2>1. recs \in Seq(Record) /\ recs' \in Seq(Record)
    BY TypeStep DEF TypeOK
  <2>2. /\ Len(recs) \in Nat /\ Len(recs') \in Nat
        /\ DOMAIN recs = 1..Len(recs) /\ DOMAIN recs' = 1..Len(recs')
    BY <2>1, LenProperties
  <2> QED
    BY <1>1, <2>2
<1>2. ASSUME NEW s \in Stream, SaveRecord(s)
      PROVE  DOMAIN recs' = DOMAIN recs
  BY <1>2 DEF SaveRecord
<1>3. BackfillSave => DOMAIN recs' = DOMAIN recs
  BY DEF BackfillSave
<1>4. \A i : Reviewed(i) => DOMAIN recs' = DOMAIN recs
  BY DEF Reviewed
<1> QED
  BY <1>1, <1>2, <1>3, <1>4, RecordSteps

\* However many rows a tick fires at once, it makes no API upload past the daily quota where
\* Selenium could do it instead: the records it makes count at once.
THEOREM QuotaIsKept ==
  Spec => QuotaKept
<1>1. ASSUME TypeOK, [Next]_vars,
             Len(recs') > Len(recs), ApiUsed(recs') > ApiUsed(recs),
             scene.selenium, \A k \in DOMAIN rows : rows[k].method # "api"
      PROVE  ApiUsed(recs') <= ApiCap
  <2>1. PICK t : Tick(t)
    BY <1>1, RecordsAdded
  <2>2. PICK order : FiredSoFar([rows |-> rows', recs |-> recs', firing |-> firing'], order, Len(order))
    BY <1>1, <2>1, TickMoves
  <2> QED
    BY <1>1, <2>2 DEF FiredSoFar, SeleniumWillDo
<1>2. TypeOK /\ [Next]_vars
        => [Len(recs') > Len(recs) /\ ApiUsed(recs') > ApiUsed(recs)
              /\ scene.selenium /\ (\A k \in DOMAIN rows : rows[k].method # "api")
              => ApiUsed(recs') <= ApiCap]_vars
  BY <1>1
<1> QED
  BY <1>2, UploadsTypeOK, PTL DEF Spec, QuotaKept

-----------------------------------------------------------------------------
(* No row is stranded *)

\* The requests of rows among a set of jobs, and the results of rows in a stream.
OfRows(J) == {j \in J : j.row # 0}
RowResults(q) == {n \in DOMAIN q : q[n].row # 0}
One(j) == IF j.row # 0 THEN 1 ELSE 0

\* A result that arrives is one more to apply, if it is a row's.
LEMMA ResultArrives ==
  ASSUME NEW q \in Seq(Job), NEW j \in Job
  PROVE  /\ Cardinality(RowResults(q)) \in Nat
         /\ Cardinality(RowResults(Append(q, j))) = Cardinality(RowResults(q)) + One(j)
<1>1. /\ Len(q) \in Nat /\ DOMAIN Append(q, j) = DOMAIN q \cup {Len(q) + 1}
      /\ Len(q) + 1 \notin DOMAIN q
      /\ \A i \in DOMAIN q : Append(q, j)[i] = q[i]
      /\ Append(q, j)[Len(q) + 1] = j
  BY Appended
<1>2. RowResults(Append(q, j)) = IF j.row # 0 THEN RowResults(q) \cup {Len(q) + 1} ELSE RowResults(q)
  BY <1>1 DEF RowResults
<1>3. /\ IsFiniteSet(RowResults(q)) /\ Cardinality(RowResults(q)) \in Nat
      /\ Len(q) + 1 \notin RowResults(q)
  BY <1>1, IndexesFinite DEF RowResults
<1>4. Cardinality(RowResults(q) \cup {Len(q) + 1}) = Cardinality(RowResults(q)) + 1
  BY <1>3, FS_AddElement
<1> QED
  BY <1>2, <1>3, <1>4 DEF One

\* And one that is taken is one less: the others move up.
LEMMA ResultTaken ==
  ASSUME NEW q \in Seq(Job), q # <<>>
  PROVE  /\ Head(q) \in Job /\ Tail(q) \in Seq(Job)
         /\ Cardinality(RowResults(Tail(q))) \in Nat
         /\ Cardinality(RowResults(q)) = Cardinality(RowResults(Tail(q))) + One(Head(q))
<1> DEFINE T == RowResults(Tail(q))
           U == RowResults(q) \ {1}
           shift == [n \in T |-> n + 1]
<1>1. /\ Head(q) \in Job /\ Tail(q) \in Seq(Job)
      /\ Len(q) \in Nat \ {0} /\ DOMAIN q = 1..Len(q) /\ Head(q) = q[1]
      /\ DOMAIN Tail(q) = 1..(Len(q) - 1)
      /\ \A i \in DOMAIN Tail(q) : Tail(q)[i] = q[i + 1]
  BY Taken
<1>2. IsFiniteSet(T) /\ Cardinality(T) \in Nat /\ IsFiniteSet(U) /\ Cardinality(U) \in Nat
  BY <1>1, IndexesFinite DEF RowResults
<1>3. shift \in Bijection(T, U)
  <2>1. \A n \in T : n + 1 \in U /\ n \in Int
    BY <1>1 DEF RowResults
  <2>2. \A m \in U : m - 1 \in T /\ (m - 1) + 1 = m
    BY <1>1 DEF RowResults
  <2>3. shift \in [T -> U]
    BY <2>1
  <2>4. \A m, n \in T : shift[m] = shift[n] => m = n
    BY <2>1
  <2>5. \A m \in U : \E n \in T : shift[n] = m
    BY <2>2
  <2> QED
    BY <2>3, <2>4, <2>5, Fun_IsBij
<1>4. Cardinality(U) = Cardinality(T)
  BY <1>2, <1>3, FS_Bijection DEF ExistsBijection
<1>5. RowResults(q) = IF Head(q).row # 0 THEN U \cup {1} ELSE U
  BY <1>1 DEF RowResults
<1>6. Cardinality(U \cup {1}) = Cardinality(U) + 1
  BY <1>2, FS_AddElement
<1>7. /\ Cardinality(RowResults(Tail(q))) = Cardinality(T) /\ Cardinality(T) \in Nat
      /\ Cardinality(RowResults(q)) = IF Head(q).row # 0 THEN Cardinality(T) + 1 ELSE Cardinality(T)
  BY <1>2, <1>4, <1>5, <1>6
<1> HIDE DEF T
<1> QED
  BY <1>1, <1>7 DEF One

\* There are no more requests of rows than rows.
LEMMA RowJobsFinite ==
  ASSUME NEW rs \in Seq(Row), NEW J, \A j \in OfRows(J) : \E k \in DOMAIN rs : j = RowJob(k)
  PROVE  IsFiniteSet(OfRows(J)) /\ Cardinality(OfRows(J)) \in Nat
<1> DEFINE K == {k \in DOMAIN rs : RowJob(k) \in OfRows(J)}
           job == [k \in K |-> RowJob(k)]
<1>1. IsFiniteSet(K)
  BY IndexesFinite
<1>2. job \in Surjection(K, OfRows(J))
  <2>1. job \in [K -> OfRows(J)]
    OBVIOUS
  <2>2. \A j \in OfRows(J) : \E k \in K : job[k] = j
    OBVIOUS
  <2> QED
    BY <2>1, <2>2, Fun_IsSurj
<1> QED
  BY <1>1, <1>2, FS_Surjection, FS_CardinalityType

\* One row's request less, or one more.
LEMMA OneJob ==
  ASSUME NEW J, NEW j, IsFiniteSet(OfRows(J))
  PROVE  /\ j \in J => Cardinality(OfRows(J \ {j})) = Cardinality(OfRows(J)) - One(j)
         /\ j \notin J => Cardinality(OfRows(J \cup {j})) = Cardinality(OfRows(J)) + One(j)
<1>1. /\ OfRows(J \ {j}) = OfRows(J) \ {j}
      /\ OfRows(J \cup {j}) = IF j.row # 0 THEN OfRows(J) \cup {j} ELSE OfRows(J)
      /\ j \in OfRows(J) <=> j \in J /\ j.row # 0
  BY DEF OfRows
<1>2. Cardinality(OfRows(J)) \in Nat
  BY FS_CardinalityType
<1>3. /\ j \in OfRows(J) => Cardinality(OfRows(J) \ {j}) = Cardinality(OfRows(J)) - 1
      /\ j \notin OfRows(J) => /\ Cardinality(OfRows(J) \ {j}) = Cardinality(OfRows(J))
                               /\ Cardinality(OfRows(J) \cup {j}) = Cardinality(OfRows(J)) + 1
  BY FS_AddElement, FS_RemoveElement
<1>4. j \in J => Cardinality(OfRows(J \ {j})) = Cardinality(OfRows(J)) - One(j)
  BY <1>1, <1>2, <1>3 DEF One
<1>5. j \notin J => Cardinality(OfRows(J \cup {j})) = Cardinality(OfRows(J)) + One(j)
  BY <1>1, <1>2, <1>3 DEF One
<1> QED
  BY <1>4, <1>5

\* What has yet to settle a row in flight.
Behind ==
  Len(firing) + Cardinality(OfRows(jobs)) + Cardinality(Applying)
    + Cardinality(RowResults(answers["completed"])) + Cardinality(RowResults(answers["failed"]))

\* All of it can be counted.
LEMMA CountsType ==
  ASSUME TypeOK, OnceInv
  PROVE  /\ IsFiniteSet(InFlight) /\ Cardinality(InFlight) \in Nat
         /\ IsFiniteSet(OfRows(jobs)) /\ Cardinality(OfRows(jobs)) \in Nat
         /\ \A T \in SUBSET Stream : IsFiniteSet(T) /\ Cardinality(T) \in Nat
         /\ \A s \in Stream : Cardinality(RowResults(answers[s])) \in Nat
         /\ Len(firing) \in Nat
         /\ NoStrandedRow <=> (failures = 0 /\ run.status # "cancelled" => Cardinality(InFlight) <= Behind)
<1>1. IsFiniteSet(InFlight) /\ Cardinality(InFlight) \in Nat
  BY IndexesFinite DEF InFlight, TypeOK
<1>2. \A j \in OfRows(jobs) : \E k \in DOMAIN rows : j = RowJob(k)
  <2>1. \A j \in OwnJobs(run) : j.row = 0
    BY OwnJobsType DEF TypeOK
  <2> QED
    BY <2>1 DEF OfRows, OnceInv, AskedInv, Asked, RowJobFired, FiredRow
<1>3. IsFiniteSet(OfRows(jobs)) /\ Cardinality(OfRows(jobs)) \in Nat
  BY <1>2, RowJobsFinite DEF TypeOK
<1>4. IsFiniteSet(Stream)
  <2>1. IsFiniteSet({"completed"} \cup {"failed"})
    BY FS_Singleton, FS_AddElement
  <2>2. Stream = {"completed"} \cup {"failed"}
    BY DEF Stream
  <2> QED
    BY <2>1, <2>2
<1>5. \A T \in SUBSET Stream : IsFiniteSet(T) /\ Cardinality(T) \in Nat
  BY <1>4, FS_Subset, FS_CardinalityType
<1>6. \A s \in Stream : Cardinality(RowResults(answers[s])) \in Nat
  BY IndexesFinite DEF RowResults, TypeOK
<1>7. NoStrandedRow <=> (failures = 0 /\ run.status # "cancelled" => Cardinality(InFlight) <= Behind)
  BY DEF NoStrandedRow, Behind, JobsIn, RowResults, OfRows
<1> QED
  BY <1>1, <1>3, <1>5, <1>6, <1>7, Elements

\* The sum before and after a step.
LEMMA BehindNext ==
  /\ Behind = Len(firing) + Cardinality(OfRows(jobs)) + Cardinality(Applying)
                + Cardinality(RowResults(answers["completed"]))
                + Cardinality(RowResults(answers["failed"]))
  /\ Behind' = Len(firing') + Cardinality(OfRows(jobs')) + Cardinality(Applying')
                 + Cardinality(RowResults(answers'["completed"]))
                 + Cardinality(RowResults(answers'["failed"]))
<1>1. /\ OfRows(jobs)' = OfRows(jobs')
      /\ RowResults(answers["completed"])' = RowResults(answers'["completed"])
      /\ RowResults(answers["failed"])' = RowResults(answers'["failed"])
  BY DEF OfRows, RowResults
<1> QED
  BY <1>1 DEF Behind

\* A handler's step: one result for one request, or one more; unless something fails or the
\* run was cancelled.
LEMMA HandlerKeepsUp ==
  ASSUME TypeOK, OnceInv, NEW j \in Job, NEW s \in {"completed", "failed"}, Publish(s, j),
         UNCHANGED <<firing, result>>,
         (j \in jobs /\ jobs' = jobs \ {j}) \/ UNCHANGED jobs
  PROVE  Behind' \in Int /\ Behind \in Int /\ Behind' >= Behind
<1>0. answers \in [Stream -> Seq(Job)] /\ "completed" \in Stream /\ "failed" \in Stream
  BY DEF TypeOK, Stream
<1>4. /\ Cardinality(OfRows(jobs')) + One(j) >= Cardinality(OfRows(jobs))
      /\ Cardinality(OfRows(jobs')) \in Int
  BY CountsType, OneJob DEF One
<1>5. Cardinality(RowResults(answers'[s])) = Cardinality(RowResults(answers[s])) + One(j)
  <2>1. answers'[s] = Append(answers[s], j) /\ answers[s] \in Seq(Job)
    BY <1>0 DEF Publish
  <2> QED
    BY <2>1, ResultArrives
<1>6. \A u \in Stream : u # s => answers'[u] = answers[u]
  BY <1>0 DEF Publish
<1>7. Applying' = Applying
  BY DEF Applying
<1>8. /\ Len(firing') = Len(firing)
      /\ Cardinality(OfRows(jobs)) \in Nat /\ One(j) \in Nat
      /\ Cardinality(RowResults(answers["completed"])) \in Nat
      /\ Cardinality(RowResults(answers["failed"])) \in Nat
      /\ Cardinality(Applying) \in Nat
  BY <1>0, CountsType DEF One, Applying
<1>9. /\ Len(firing) \in Nat
      /\ Cardinality(RowResults(answers'["completed"])) + Cardinality(RowResults(answers'["failed"]))
           = Cardinality(RowResults(answers["completed"])) + Cardinality(RowResults(answers["failed"]))
               + One(j)
  <2>1. Len(firing) \in Nat
    BY CountsType
  <2>2. CASE s = "completed"
    <3>1. answers'["failed"] = answers["failed"]
      BY <1>0, <1>6, <2>2
    <3> QED
      BY <1>5, <1>8, <2>1, <2>2, <3>1
  <2>3. CASE s = "failed"
    <3>1. answers'["completed"] = answers["completed"]
      BY <1>0, <1>6, <2>3
    <3> QED
      BY <1>5, <1>8, <2>1, <2>3, <3>1
  <2> QED
    BY <2>2, <2>3
<1>10. PICK a, b, c, d, e, x, y, z :
          /\ a = Cardinality(OfRows(jobs')) /\ b = Cardinality(Applying') /\ e = One(j)
          /\ c = Cardinality(RowResults(answers'["completed"]))
          /\ d = Cardinality(RowResults(answers'["failed"]))
          /\ x = Cardinality(RowResults(answers["completed"]))
          /\ y = Cardinality(RowResults(answers["failed"]))
          /\ z = Cardinality(OfRows(jobs))
  BY SMTT(30)
<1>11. /\ a \in Int /\ b \in Int /\ c \in Int /\ d \in Int /\ e \in Int
       /\ x \in Int /\ y \in Int /\ z \in Int
  BY <1>0, <1>4, <1>5, <1>6, <1>7, <1>8, <1>10, SMTT(30)
<1>12. a + e >= z /\ Cardinality(Applying) = b
  BY <1>4, <1>7, <1>10
<1>13. c + d = x + y + e
  BY <1>9, <1>10
<1>14. Behind' = Len(firing) + a + b + c + d
  BY <1>8, <1>10, BehindNext
<1>15. Behind = Len(firing) + z + b + x + y
  BY <1>10, <1>12, BehindNext
<1>16. Behind' = (Len(firing) + b) + a + (c + d)
  BY <1>9, <1>11, <1>14
<1>17. Behind = (Len(firing) + b) + z + (x + y)
  BY <1>9, <1>11, <1>15
<1>18. (Len(firing) + b) \in Int
  BY <1>9, <1>11
<1> QED
  BY <1>11, <1>12, <1>13, <1>16, <1>17, <1>18

\* There is something left to settle every row in flight.
Covered == Cardinality(InFlight) <= Behind

\* A run that moves asks for no row.
LEMMA RunAsksNoRow ==
  ASSUME TypeOK, RunMoves
  PROVE  OfRows(jobs') = OfRows(jobs)
<1>1. OwnJobs(run)' = OwnJobs(run')
  BY DEF OwnJobs
<1>2. \A j \in OwnJobs(run)' : j.row = 0
  BY <1>1, OwnJobsType DEF RunMoves
<1> QED
  BY <1>2 DEF RunMoves, OfRows

\* Steps that leave the ticker and the results alone, and make no new request for a row.
LEMMA OthersKeepUp ==
  ASSUME TypeOK, OnceInv, UNCHANGED <<firing, answers>>,
         OfRows(jobs') = OfRows(jobs), Applying' = Applying, InFlight' \subseteq InFlight, Covered
  PROVE  Covered'
<1>1. Cardinality(InFlight') <= Cardinality(InFlight) /\ Cardinality(InFlight') \in Nat
  BY CountsType, FS_Subset, FS_CardinalityType
<1>2. Behind' = Behind
  <2>1. OfRows(jobs)' = OfRows(jobs)
    BY DEF OfRows
  <2> QED
    BY <2>1 DEF Behind
<1>3. Cardinality(InFlight)' = Cardinality(InFlight')
  OBVIOUS
<1>4. Behind \in Nat
  BY CountsType DEF Behind, Applying, Stream
<1> QED
  BY <1>1, <1>2, <1>3, <1>4, CountsType DEF Covered

\* So the workers keep up.
LEMMA WorkerKeepsUp ==
  ASSUME TypeOK, OnceInv, Worker, failures' = 0, run.status # "cancelled", Covered
  PROVE  Covered'
<1>0. failures \in Nat /\ UNCHANGED rows
  BY WorkerShows DEF TypeOK, Unchanged4Worker, database
<1>1. InFlight' = InFlight /\ UNCHANGED <<firing, result>>
  BY <1>0, WorkerShows DEF InFlight, Unchanged4Worker, ticker
<1>2. \A i : ~WorkerDies(i) /\ ~WorkerDiesAgain(i)
  BY <1>0 DEF WorkerDies, WorkerDiesAgain, Fails
<1>3. ASSUME NEW i, Claim(i)
      PROVE  Covered'
  <2>1. UNCHANGED <<jobs, answers>>
    BY <1>3 DEF Claim
  <2> QED
    BY <1>1, <2>1, OthersKeepUp DEF Applying
<1>4. ASSUME NEW j, Handles(j)
      PROVE  \E s \in {"completed", "failed"} : Publish(s, j)
  BY <1>4, Zenon DEF Handles, Upload, UploadFails, SkipCancelled
<1>5. ASSUME NEW j \in Job, Handles(j), (j \in jobs /\ jobs' = jobs \ {j}) \/ UNCHANGED jobs
      PROVE  Covered'
  <2>1. PICK s \in {"completed", "failed"} : Publish(s, j)
    BY <1>4, <1>5
  <2>2. Behind' \in Int /\ Behind \in Int /\ Behind' >= Behind
    BY <1>1, <1>5, <2>1, HandlerKeepsUp
  <2>3. Cardinality(InFlight) \in Nat /\ Cardinality(InFlight)' = Cardinality(InFlight)
    BY <1>1, CountsType
  <2> QED
    BY <2>2, <2>3 DEF Covered
<1>6. jobs \subseteq Job /\ \A w \in again : w.job \in Job
  BY DEF TypeOK, Again
<1> QED
  BY <1>2, <1>3, <1>5, <1>6, Zenon DEF Worker, Works, WorksAgain

\* A result that is taken is applied.
LEMMA TakenKeepsUp ==
  ASSUME TypeOK, OnceInv, NEW s \in Stream, ApplyToStep(s), Covered
  PROVE  Covered'
<1>0. /\ answers \in [Stream -> Seq(Job)] /\ run \in Run /\ answers[s] \in Seq(Job)
      /\ "completed" \in Stream /\ "failed" \in Stream
  BY DEF TypeOK, Stream
<1>1. PICK h : h = Head(answers[s])
  OBVIOUS
<1>2. /\ answers[s] # <<>> /\ answers'[s] = Tail(answers[s])
      /\ result[s].stage = "idle" /\ UNCHANGED <<rows, firing>>
      /\ \A u \in Stream : u # s => answers'[u] = answers[u]
  BY <1>0 DEF ApplyToStep, ticker
<1>3. /\ h \in Job /\ Cardinality(RowResults(answers'[s])) \in Nat
      /\ Cardinality(RowResults(answers[s])) = Cardinality(RowResults(answers'[s])) + One(h)
  BY <1>0, <1>1, <1>2, ResultTaken
<1>4. /\ result'[s].stage = "read" /\ result'[s].job = h
      /\ \A u \in Stream : u # s => result'[u] = result[u]
  BY <1>1, <1>2, ConsumeMoves DEF Consume, Idle
<1>5. OfRows(jobs') = OfRows(jobs)
  <2>1. StepCompleted(h) \/ StepFailed(h)
    BY <1>1, Zenon DEF ApplyToStep
  <2>2. RunMoves
    BY <1>0, <1>3, <2>1, RunSteps
  <2> QED
    BY <2>2, RunAsksNoRow
<1>6. /\ Cardinality(Applying') = Cardinality(Applying) + One(h)
      /\ Cardinality(Applying) \in Nat
  <2>1. s \notin Applying
    BY <1>2 DEF Applying
  <2>2. Applying' = IF h.row # 0 THEN Applying \cup {s} ELSE Applying
    BY <1>2, <1>4 DEF Applying
  <2>3. IsFiniteSet(Applying) /\ Cardinality(Applying) \in Nat
    BY CountsType DEF Applying
  <2>4. Cardinality(Applying \cup {s}) = Cardinality(Applying) + 1
    BY <2>1, <2>3, FS_AddElement
  <2> QED
    BY <2>2, <2>3, <2>4 DEF One
<1>7. /\ Len(firing) \in Nat /\ Len(firing') = Len(firing) /\ One(h) \in Nat
      /\ Cardinality(OfRows(jobs)) \in Nat
      /\ Cardinality(RowResults(answers["completed"])) \in Nat
      /\ Cardinality(RowResults(answers["failed"])) \in Nat
      /\ InFlight' = InFlight /\ Cardinality(InFlight) \in Nat
  BY <1>0, <1>2, CountsType DEF One, InFlight
<1>8. /\ Cardinality(RowResults(answers'["completed"])) \in Int
      /\ Cardinality(RowResults(answers'["failed"])) \in Int
      /\ Cardinality(RowResults(answers'["completed"])) + Cardinality(RowResults(answers'["failed"])) + One(h)
           = Cardinality(RowResults(answers["completed"])) + Cardinality(RowResults(answers["failed"]))
  <2>1. CASE s = "completed"
    <3>1. answers'["failed"] = answers["failed"]
      BY <1>0, <1>2, <2>1
    <3> QED
      BY <1>3, <1>7, <2>1, <3>1
  <2>2. CASE s = "failed"
    <3>1. answers'["completed"] = answers["completed"]
      BY <1>0, <1>2, <2>2
    <3> QED
      BY <1>3, <1>7, <2>2, <3>1
  <2> QED
    BY <2>1, <2>2 DEF Stream
<1>9. PICK a, b, c, d, e, x, y :
          /\ a = Cardinality(OfRows(jobs)) /\ b = Cardinality(Applying) /\ e = One(h)
          /\ c = Cardinality(RowResults(answers'["completed"]))
          /\ d = Cardinality(RowResults(answers'["failed"]))
          /\ x = Cardinality(RowResults(answers["completed"]))
          /\ y = Cardinality(RowResults(answers["failed"]))
  OBVIOUS
<1>10. a \in Int /\ b \in Int /\ c \in Int /\ d \in Int /\ e \in Int /\ x \in Int /\ y \in Int
  BY <1>6, <1>7, <1>8, <1>9
<1>11. Cardinality(OfRows(jobs')) = a /\ Cardinality(Applying') = b + e
  BY <1>5, <1>6, <1>9
<1>12. c + d + e = x + y
  BY <1>8, <1>9
<1>13. Behind' = Len(firing) + a + (b + e) + c + d
  BY <1>7, <1>9, <1>11, BehindNext
<1>14. Behind = Len(firing) + a + b + x + y
  BY <1>9, BehindNext
<1>15. Behind' = Behind
  BY <1>7, <1>10, <1>12, <1>13, <1>14
<1> QED
  BY <1>7, <1>15 DEF Covered

\* A result that is settled settles one row in flight, if there is one.
LEMMA SettledKeepsUp ==
  ASSUME TypeOK, OnceInv, NEW s \in Stream, Settle(s), Covered
  PROVE  Covered'
<1>0. result \in [Stream -> Result]
  BY DEF TypeOK
<1>1. /\ UNCHANGED <<firing, answers, jobs>>
      /\ \A u \in Stream : u # s => result'[u] = result[u]
  BY <1>0 DEF Settle, ticker, outside
<1>2. Applying \ {s} \subseteq Applying' /\ Applying' \subseteq Stream /\ Applying \subseteq Stream
  BY <1>1 DEF Applying
<1>3. /\ Cardinality(Applying') \in Nat /\ Cardinality(Applying) \in Nat
      /\ Cardinality(Applying') >= Cardinality(Applying) - 1
  <2>1. /\ IsFiniteSet(Applying') /\ Cardinality(Applying') \in Nat
        /\ IsFiniteSet(Applying) /\ Cardinality(Applying) \in Nat
    BY <1>2, CountsType
  <2>2. /\ Cardinality(Applying \ {s}) \in Nat
        /\ Cardinality(Applying \ {s}) >= Cardinality(Applying) - 1
    <3>1. /\ IsFiniteSet(Applying \ {s})
          /\ Cardinality(Applying \ {s})
               = IF s \in Applying THEN Cardinality(Applying) - 1 ELSE Cardinality(Applying)
      BY <2>1, FS_RemoveElement
    <3>2. Cardinality(Applying \ {s}) \in Nat
      BY <3>1, FS_CardinalityType
    <3> QED
      BY <2>1, <3>1, <3>2
  <2>3. Cardinality(Applying \ {s}) <= Cardinality(Applying')
    BY <1>2, <2>1, FS_Subset
  <2> QED
    BY <2>1, <2>2, <2>3
<1>4. \E r \in Nat : Behind = r + Cardinality(Applying) /\ Behind' = r + Cardinality(Applying')
  <2>1. PICK r : r = Len(firing) + Cardinality(OfRows(jobs))
                       + Cardinality(RowResults(answers["completed"]))
                       + Cardinality(RowResults(answers["failed"]))
    OBVIOUS
  <2>2. /\ Len(firing) \in Nat /\ Cardinality(OfRows(jobs)) \in Nat
        /\ Cardinality(RowResults(answers["completed"])) \in Nat
        /\ Cardinality(RowResults(answers["failed"])) \in Nat
    BY CountsType DEF Stream
  <2>3. Behind = r + Cardinality(Applying)
    BY <1>3, <2>1, <2>2, SMTT(20) DEF Behind
  <2>4. Behind' = r + Cardinality(Applying')
    BY <1>1, <1>3, <2>1, <2>2, BehindNext, SMTT(20)
  <2>5. r \in Nat
    BY <2>1, <2>2
  <2> QED
    BY <2>3, <2>4, <2>5
<1>5. /\ Cardinality(InFlight) \in Nat
      /\ \/ Cardinality(InFlight') = 0
         \/ Cardinality(InFlight') = Cardinality(InFlight) - 1
  <2>1. IsFiniteSet(InFlight) /\ Cardinality(InFlight) \in Nat
    BY CountsType
  <2>2. CASE InFlight = {}
    <3>1. InFlight' = {}
      BY <2>2, SettleMoves DEF InFlight
    <3> QED
      BY <2>1, <3>1, FS_EmptySet
  <2>3. CASE InFlight # {}
    <3>1. PICK k \in InFlight : RowSettled(s, k)
      BY <2>3, SettleMoves
    <3>2. rows[k] \in Row
      BY Elements DEF InFlight
    <3>3. Settled(s, rows[k]).status # "in_flight"
      BY <3>2 DEF Settled, Row
    <3>4. InFlight' = InFlight \ {k}
      BY <3>1, <3>3 DEF RowSettled, InFlight
    <3> QED
      BY <2>1, <3>1, <3>4, FS_RemoveElement
  <2> QED
    BY <2>2, <2>3
<1>6. Cardinality(InFlight)' = Cardinality(InFlight')
  OBVIOUS
<1> QED
  BY <1>3, <1>4, <1>5, <1>6 DEF Covered

\* The rows a tick puts in flight are those it has yet to publish.
LEMMA TickKeepsUp ==
  ASSUME TypeOK, OnceInv, NEW t, Tick(t), Covered
  PROVE  Covered'
<1>1. PICK order :
        FiredSoFar([rows |-> rows', recs |-> recs', firing |-> firing'], order, Len(order))
  BY TickMoves
<1>2. firing = <<>> /\ UNCHANGED <<jobs, answers, result>> /\ firing' \in Seq(Nat)
  BY <1>1 DEF Tick, consumers, outside, FiredSoFar, Tables
<1>3. PICK F : F = {firing'[m] : m \in DOMAIN firing'}
  OBVIOUS
<1>4. InFlight' \subseteq InFlight \cup F
  <2>1. DOMAIN rows' = DOMAIN rows
    BY <1>1 DEF FiredSoFar
  <2>2. ASSUME NEW k \in DOMAIN rows, rows'[k].status = "in_flight", k \notin F
        PROVE  rows[k].status = "in_flight"
    <3>1. ~Fires([rows |-> rows', recs |-> recs', firing |-> firing'], k)
      BY <1>3, <2>2 DEF Fires
    <3> QED
      BY <1>1, <2>2, <3>1 DEF FiredSoFar
  <2> QED
    BY <2>1, <2>2 DEF InFlight
<1>5. IsFiniteSet(F) /\ Cardinality(F) <= Len(firing') /\ Cardinality(F) \in Nat /\ Len(firing') \in Nat
  <2> DEFINE f == [m \in DOMAIN firing' |-> firing'[m]]
  <2>1. Len(firing') \in Nat /\ DOMAIN firing' = 1..Len(firing')
    BY <1>2, LenProperties
  <2>2. IsFiniteSet(DOMAIN firing') /\ Cardinality(DOMAIN firing') = Len(firing')
    <3>1. \A n \in Nat : IsFiniteSet(1..n) /\ Cardinality(1..n) = n
      BY FS_Interval
    <3> QED
      BY <2>1, <3>1
  <2>3. f \in [DOMAIN firing' -> F] /\ \A k \in F : \E m \in DOMAIN firing' : f[m] = k
    BY <1>3
  <2>4. f \in Surjection(DOMAIN firing', F)
    BY <2>3, Fun_IsSurj
  <2> QED
    BY <2>1, <2>2, <2>4, FS_Surjection, FS_CardinalityType
<1>6. Cardinality(InFlight') \in Nat /\ Cardinality(InFlight') <= Cardinality(InFlight) + Cardinality(F)
  <2>1. IsFiniteSet(InFlight) /\ Cardinality(InFlight) \in Nat
    BY CountsType
  <2>2. /\ IsFiniteSet(InFlight \cup F)
        /\ Cardinality(InFlight \cup F)
             = Cardinality(InFlight) + Cardinality(F) - Cardinality(InFlight \cap F)
    BY <1>5, <2>1, FS_Union
  <2>3. Cardinality(InFlight \cap F) \in Nat
    BY <2>1, FS_Intersection, FS_CardinalityType
  <2>4. IsFiniteSet(InFlight') /\ Cardinality(InFlight') <= Cardinality(InFlight \cup F)
    BY <1>4, <2>2, FS_Subset
  <2>5. Cardinality(InFlight') \in Nat
    BY <2>4, FS_CardinalityType
  <2> QED
    BY <1>5, <2>1, <2>2, <2>3, <2>4, <2>5
<1>7. \E r \in Nat : Behind = r /\ Behind' = Len(firing') + r
  <2>1. PICK a, b, c, d : /\ a = Cardinality(OfRows(jobs)) /\ b = Cardinality(Applying)
                          /\ c = Cardinality(RowResults(answers["completed"]))
                          /\ d = Cardinality(RowResults(answers["failed"]))
    OBVIOUS
  <2>2. a \in Nat /\ b \in Nat /\ c \in Nat /\ d \in Nat
    BY <2>1, CountsType DEF Applying, Stream
  <2>3. Applying' = Applying /\ Len(firing) = 0
    BY <1>2, EmptySeq DEF Applying
  <2>4. Behind = 0 + a + b + c + d
    BY <2>1, <2>3, BehindNext
  <2>5. Behind' = Len(firing') + a + b + c + d
    BY <1>2, <2>1, <2>3, BehindNext
  <2>6. a + b + c + d \in Nat
    BY <2>2
  <2> QED
    BY <1>5, <2>2, <2>4, <2>5, <2>6
<1>8. Cardinality(InFlight) \in Nat
  BY CountsType
<1> QED
  BY <1>5, <1>6, <1>7, <1>8 DEF Covered

\* A row that is published is asked for: it was not before.
LEMMA FireKeepsUp ==
  ASSUME TypeOK, OnceInv, Fire, Covered
  PROVE  Covered'
<1>1. /\ firing # <<>> /\ firing \in Seq(Nat)
      /\ jobs' = jobs \cup {RowJob(Head(firing))} /\ firing' = Tail(firing)
      /\ UNCHANGED <<rows, answers, result>>
  BY DEF Fire, TypeOK, database, consumers
<1>2. /\ Len(firing) \in Nat \ {0} /\ DOMAIN firing = 1..Len(firing)
      /\ Head(firing) = firing[1] /\ Len(firing') = Len(firing) - 1
  BY <1>1, Taken
<1>3. PICK j : j = RowJob(firing[1])
  OBVIOUS
<1>4. j \notin jobs /\ j.row # 0
  <2>1. 1 \in DOMAIN firing
    BY <1>2
  <2>2. FiredRow(firing[1]) /\ j \notin jobs
    BY <1>3, <2>1 DEF OnceInv, AskedInv, Asked
  <2>3. firing[1] # 0
    BY <2>2, Elements DEF FiredRow
  <2> QED
    BY <1>3, <2>2, <2>3 DEF RowJob
<1>5. Cardinality(OfRows(jobs')) = Cardinality(OfRows(jobs)) + 1
  <2>1. IsFiniteSet(OfRows(jobs)) /\ jobs' = jobs \cup {j}
    BY <1>1, <1>2, <1>3, CountsType
  <2> QED
    BY <1>4, <2>1, OneJob DEF One
<1>6. PICK a, b, c, d : /\ a = Cardinality(OfRows(jobs)) /\ b = Cardinality(Applying)
                        /\ c = Cardinality(RowResults(answers["completed"]))
                        /\ d = Cardinality(RowResults(answers["failed"]))
  OBVIOUS
<1>7. a \in Nat /\ b \in Nat /\ c \in Nat /\ d \in Nat
  BY <1>6, CountsType DEF Applying, Stream
<1>8. Applying' = Applying /\ InFlight' = InFlight
  BY <1>1 DEF Applying, InFlight
<1>9. Behind = Len(firing) + a + b + c + d
  BY <1>6, BehindNext
<1>10. Behind' = (Len(firing) - 1) + (a + 1) + b + c + d
  BY <1>1, <1>2, <1>5, <1>6, <1>8, BehindNext
<1>11. Behind' = Behind
  BY <1>2, <1>7, <1>9, <1>10
<1> QED
  BY <1>8, <1>11 DEF Covered

\* The consumers keep up.
LEMMA ConsumerKeepsUp ==
  ASSUME TypeOK, OnceInv, Consumer, failures' = 0, Covered
  PROVE  Covered'
<1>0. failures \in Nat
  BY DEF TypeOK
<1>1. ASSUME NEW s \in Stream, ReadRecord(s) \/ SaveRecord(s)
      PROVE  Covered'
  <2>1. UNCHANGED <<firing, rows, jobs>>
    BY <1>1 DEF ReadRecord, SaveRecord, database, ticker, outside
  <2>2. /\ UNCHANGED answers
        /\ \A u \in Stream : u # s => result'[u] = result[u]
        /\ result[s].stage # "idle" /\ result'[s].stage # "idle" /\ result'[s].job = result[s].job
    <3>1. result[s].stage \in {"read", "save"}
      BY <1>1 DEF ReadRecord, SaveRecord
    <3> QED
      BY <1>1, <3>1, ConsumeMoves DEF Consume
  <2>3. Applying' = Applying
    BY <2>2 DEF Applying
  <2> QED
    BY <2>1, <2>2, <2>3, OthersKeepUp DEF InFlight
<1>2. ASSUME NEW s \in Stream, TransactionFails(s)
      PROVE  FALSE
  BY <1>0, <1>2 DEF TransactionFails, Fails
<1>3. ASSUME NEW q \in run.sent, NEW w \in BOOLEAN, NEW k \in BOOLEAN, CaptionCompleted(q, w, k)
      PROVE  Covered'
  <2>1. q \in Request
    BY DEF TypeOK, Run
  <2>2. RunMoves
    BY <1>3, <2>1, CloseMoves, RunSteps, TheSteps DEF CaptionCompleted, TypeOK
  <2>3. UNCHANGED <<firing, rows, answers, result>>
    BY <1>3 DEF CaptionCompleted, ticker
  <2> QED
    BY <2>2, <2>3, RunAsksNoRow, OthersKeepUp DEF InFlight, Applying
<1>4. ASSUME BackfillRead \/ BackfillSave
      PROVE  Covered'
  <2>1. UNCHANGED <<firing, rows, answers, result, jobs>>
    BY <1>4 DEF BackfillRead, BackfillSave, database, ticker, outside
  <2> QED
    BY <2>1, OthersKeepUp DEF InFlight, Applying
<1> QED
  BY <1>1, <1>2, <1>3, <1>4, TakenKeepsUp, SettledKeepsUp, Zenon DEF Consumer, Consume

\* So do users: they put no row in flight, and ask for none.
LEMMA UsersKeepUp ==
  ASSUME TypeOK, OnceInv, Reviewer \/ Scheduling \/ RegenerateUpload \/ CancelRun, Covered
  PROVE  Covered'
<1>0. [Next]_vars /\ run \in Run
  BY DEF Next, TypeOK
<1>1. UNCHANGED <<firing, answers, result>>
  <2>1. ASSUME NEW k, NEW t, NEW m, AskSchedule(t, m) \/ AskReschedule(k, t)
        PROVE  UNCHANGED <<firing, answers, result>>
    BY <2>1 DEF AskSchedule, AskReschedule, Asks, ticker, consumers
  <2>2. ASSUME NEW a, WriteSchedule(a) \/ WriteReschedule(a)
        PROVE  UNCHANGED <<firing, answers, result>>
    BY <2>2 DEF WriteSchedule, WriteReschedule, Write, ticker, consumers
  <2>3. ASSUME NEW k, CancelScheduledUpload(k)
        PROVE  UNCHANGED <<firing, answers, result>>
    BY <2>3 DEF CancelScheduledUpload, ticker, consumers
  <2>4. CASE Scheduling
    BY <2>1, <2>2, <2>3, <2>4, Zenon DEF Scheduling
  <2>5. CASE Reviewer
    BY <2>5 DEF Reviewer, EditUploadMetadata, ApproveUploadRecord, RejectUploadRecord,
                PromoteUploadToPublished, RecordCommand, ticker, consumers
  <2>6. CASE RegenerateUpload \/ CancelRun
    BY <2>6 DEF RegenerateUpload, CancelRun, ticker, consumers
  <2> QED
    BY <2>4, <2>5, <2>6
<1>2. OfRows(jobs') = OfRows(jobs)
  <2>1. CASE Scheduling
    <3>1. ASSUME NEW k, NEW t, NEW m, AskSchedule(t, m) \/ AskReschedule(k, t)
          PROVE  UNCHANGED jobs
      BY <3>1 DEF AskSchedule, AskReschedule, Asks, outside
    <3>2. ASSUME NEW a, WriteSchedule(a) \/ WriteReschedule(a)
          PROVE  UNCHANGED jobs
      BY <3>2 DEF WriteSchedule, WriteReschedule, Write, outside
    <3>3. ASSUME NEW k, CancelScheduledUpload(k)
          PROVE  UNCHANGED jobs
      BY <3>3 DEF CancelScheduledUpload, outside
    <3>4. UNCHANGED jobs
      BY <2>1, <3>1, <3>2, <3>3, Zenon DEF Scheduling
    <3> QED
      BY <3>4
  <2>2. CASE Reviewer
    <3>1. \/ UNCHANGED <<run, jobs>>
          \/ /\ run.status = "awaiting_action" /\ CanRequest(run, UploadStep)
             /\ RunBecomes(RequestPlain(Resume(run), UploadStep))
      BY <2>2 DEF Reviewer, EditUploadMetadata, ApproveUploadRecord, RejectUploadRecord,
                  PromoteUploadToPublished, MayResume
    <3> QED
      BY <1>0, <3>1, RunSteps, RunAsksNoRow
  <2>3. CASE RegenerateUpload \/ CancelRun
    BY <1>0, <2>3, RunSteps, RunAsksNoRow DEF RegenerateUpload, CancelRun
  <2> QED
    BY <2>1, <2>2, <2>3
<1>3. InFlight' \subseteq InFlight
  <2>1. ASSUME NEW a \in asking, RowAdded(a) \/ RowMoved(a.row, a.at)
        PROVE  InFlight' \subseteq InFlight
    BY <2>1 DEF RowAdded, RowMoved, InFlight, NewRow
  <2>2. ASSUME NEW k \in DOMAIN rows, RowCancelled(k)
        PROVE  InFlight' \subseteq InFlight
    BY <2>2 DEF RowCancelled, InFlight
  <2>3. CASE Scheduling
    <3>1. ASSUME NEW k, NEW t, NEW m, AskSchedule(t, m) \/ AskReschedule(k, t)
          PROVE  UNCHANGED rows
      BY <3>1 DEF AskSchedule, AskReschedule, Asks, database
    <3>2. \/ UNCHANGED rows
          \/ \E a \in asking : WriteSchedule(a) \/ WriteReschedule(a)
          \/ \E k \in DOMAIN rows : CancelScheduledUpload(k)
      BY <2>3, <3>1, Zenon DEF Scheduling
    <3> QED
      BY <2>1, <2>2, <3>2, RowChanges DEF InFlight
  <2>4. CASE Reviewer \/ RegenerateUpload \/ CancelRun
    BY <2>4 DEF Reviewer, EditUploadMetadata, ApproveUploadRecord, RejectUploadRecord,
                PromoteUploadToPublished, RecordCommand, RegenerateUpload, CancelRun, InFlight
  <2> QED
    BY <2>3, <2>4
<1> QED
  BY <1>1, <1>2, <1>3, OthersKeepUp DEF Applying

\* Every step leaves as much to be settled as is in flight.
LEMMA StrandedStep ==
  ASSUME TypeOK, OnceInv, NoStrandedRow, [Next]_vars
  PROVE  NoStrandedRow'
<1> SUFFICES ASSUME failures' = 0, run'.status # "cancelled"
             PROVE  Covered'
  BY DEF NoStrandedRow, Covered, Behind, JobsIn, RowResults, OfRows
<1>1. failures = 0 /\ run.status # "cancelled"
  <2>1. failures \in Nat /\ failures' >= failures
    BY JobSteps DEF TypeOK
  <2>2. Fire => UNCHANGED run
    BY DEF Fire, database
  <2>3. \A t : Tick(t) => UNCHANGED run
    BY DEF Tick
  <2>4. run.status = "cancelled" => UNCHANGED run
    BY <2>2, <2>3, JobSteps, Zenon DEF RunMoves
  <2> QED
    BY <2>1, <2>4
<1>2. Covered
  BY <1>1, CountsType DEF Covered
<1>3. CASE Worker
  BY <1>1, <1>2, <1>3, WorkerKeepsUp
<1>4. CASE Ticker
  <2>1. FireFails => FALSE
    BY <1>1 DEF FireFails, Fails
  <2> QED
    BY <1>1, <1>2, <1>4, <2>1, TickKeepsUp, FireKeepsUp DEF Ticker
<1>5. CASE Crash
  BY <1>1, <1>5 DEF Crash, Fails
<1>6. CASE UNCHANGED vars
  BY <1>2, <1>6, OthersKeepUp DEF vars, database, ticker, consumers, outside, InFlight, Applying
<1> QED
  BY <1>2, <1>3, <1>4, <1>5, <1>6, ConsumerKeepsUp, UsersKeepUp DEF Next

\* Results settle whichever row was fired last, and yet no row in flight is stranded: there
\* is always a publication, a request or a result left for each of them.
THEOREM NoRowIsStranded ==
  Spec => []NoStrandedRow
<1>1. Init => NoStrandedRow
  <2> SUFFICES ASSUME Init PROVE NoStrandedRow
    OBVIOUS
  <2>1. InFlight = {}
    BY ScenesAssumption DEF Init, InFlight
  <2>2. TypeOK /\ OnceInv
    BY InitType, InitPosted
  <2>3. Cardinality(InFlight) = 0
    BY <2>1, FS_EmptySet
  <2>4. Behind \in Nat
    BY <2>2, CountsType DEF Behind, Applying, Stream
  <2> QED
    BY <2>2, <2>3, <2>4, CountsType
<1>2. TypeOK /\ OnceInv /\ [Next]_vars => OnceInv'
  BY OnceStep
<1>3. TypeOK /\ OnceInv /\ NoStrandedRow /\ [Next]_vars => NoStrandedRow'
  BY StrandedStep
<1> QED
  BY <1>1, <1>2, <1>3, InitPosted, UploadsTypeOK, PTL DEF Spec

-----------------------------------------------------------------------------
(* The account's limit *)

\* Windows hold finitely many rows.
LEMMA WindowsFinite ==
  ASSUME NEW q \in Seq(Row), NEW t, NEW w
  PROVE  IsFiniteSet(LiveWithin(q, t, w)) /\ Cardinality(LiveWithin(q, t, w)) \in Nat
BY IndexesFinite DEF LiveWithin, LiveRows

\* The distance of two times is the same both ways.
LEMMA DistanceFacts ==
  \A x, y \in Int : /\ Distance(x, y) = Distance(y, x) /\ Distance(x, y) \in Nat
                    /\ Distance(x, x) = 0
                    /\ \A t, w \in Int : /\ t <= x /\ x <= t + w
                                         /\ t <= y /\ y <= t + w
                                         => Distance(x, y) <= w
BY DEF Distance

\* Rows where fewer are live, and those at the same times, keep a limit.
LEMMA FewerKeep ==
  ASSUME NEW q \in Seq(Row), NEW r \in Seq(Row), NEW limit \in Limit, NEW x \in Nat,
         LiveRows(r) \subseteq LiveRows(q), \A k \in LiveRows(r) : r[k].at = q[k].at,
         KeepLimit(q, limit, x)
  PROVE  KeepLimit(r, limit, x)
<1> SUFFICES ASSUME limit.n > 0
             PROVE  /\ \A t \in 0..Horizon : Cardinality(LiveWithin(r, t, limit.w)) <= limit.n + x
                    /\ x = 0 => \A k, l \in LiveRows(r) :
                         k # l /\ Distance(r[k].at, r[l].at) <= limit.w
                           => Distance(r[k].at, r[l].at) >= limit.gap
  BY DEF KeepLimit
<1>1. ASSUME NEW t \in 0..Horizon
      PROVE  Cardinality(LiveWithin(r, t, limit.w)) <= limit.n + x
  <2>1. LiveWithin(r, t, limit.w) \subseteq LiveWithin(q, t, limit.w)
    BY DEF LiveWithin
  <2>2. Cardinality(LiveWithin(r, t, limit.w)) <= Cardinality(LiveWithin(q, t, limit.w))
    BY <2>1, WindowsFinite, FS_Subset
  <2>3. Cardinality(LiveWithin(q, t, limit.w)) <= limit.n + x
    BY DEF KeepLimit
  <2> QED
    BY <2>2, <2>3, WindowsFinite DEF Limit
<1> QED
  BY <1>1 DEF KeepLimit

\* One row more, or one that was moved, is one too many at most.
LEMMA OneMoreKeeps ==
  ASSUME NEW q \in Seq(Row), NEW r \in Seq(Row), NEW limit \in Limit, NEW x \in Nat, NEW m,
         LiveRows(r) \subseteq LiveRows(q) \cup {m},
         \A k \in LiveRows(r) : k # m => r[k].at = q[k].at,
         KeepLimit(q, limit, x)
  PROVE  KeepLimit(r, limit, x + 1)
<1> SUFFICES ASSUME limit.n > 0, NEW t \in 0..Horizon
             PROVE  Cardinality(LiveWithin(r, t, limit.w)) <= limit.n + (x + 1)
  BY DEF KeepLimit
<1>1. LiveWithin(r, t, limit.w) \subseteq LiveWithin(q, t, limit.w) \cup {m}
  BY DEF LiveWithin
<1>2. /\ IsFiniteSet(LiveWithin(q, t, limit.w) \cup {m})
      /\ Cardinality(LiveWithin(q, t, limit.w) \cup {m}) <= Cardinality(LiveWithin(q, t, limit.w)) + 1
      /\ Cardinality(LiveWithin(q, t, limit.w) \cup {m}) \in Nat
  <2>1. IsFiniteSet(LiveWithin(q, t, limit.w)) /\ Cardinality(LiveWithin(q, t, limit.w)) \in Nat
    BY WindowsFinite
  <2>2. /\ IsFiniteSet(LiveWithin(q, t, limit.w) \cup {m})
        /\ Cardinality(LiveWithin(q, t, limit.w) \cup {m})
             = IF m \in LiveWithin(q, t, limit.w) THEN Cardinality(LiveWithin(q, t, limit.w))
               ELSE Cardinality(LiveWithin(q, t, limit.w)) + 1
    BY <2>1, FS_AddElement
  <2> QED
    BY <2>1, <2>2
<1>3. Cardinality(LiveWithin(r, t, limit.w)) <= Cardinality(LiveWithin(q, t, limit.w) \cup {m})
  BY <1>1, <1>2, FS_Subset
<1>4. Cardinality(LiveWithin(q, t, limit.w)) <= limit.n + x
  BY DEF KeepLimit
<1> QED
  BY <1>2, <1>3, <1>4, WindowsFinite DEF Limit

\* And none too many, if each window it is now in had room for it or held it before; nor is
\* it too close to another, if it is far enough from each of them.
LEMMA FreeKeeps ==
  ASSUME NEW q \in Seq(Row), NEW r \in Seq(Row), NEW limit \in Limit, NEW x \in Nat, NEW m,
         LiveRows(r) \subseteq LiveRows(q) \cup {m},
         \A k \in LiveRows(r) : k # m => r[k].at = q[k].at,
         KeepLimit(q, limit, x), m \in DOMAIN r,
         ASSUME limit.n > 0, NEW t \in 0..Horizon, t <= r[m].at, r[m].at <= t + limit.w
         PROVE  \/ m \in LiveWithin(q, t, limit.w)
                \/ Cardinality(LiveWithin(q, t, limit.w)) < limit.n,
         ASSUME limit.n > 0, x = 0, NEW k \in LiveRows(q), k # m,
                Distance(r[m].at, q[k].at) <= limit.w
         PROVE  Distance(r[m].at, q[k].at) >= limit.gap
  PROVE  KeepLimit(r, limit, x)
<1> SUFFICES ASSUME limit.n > 0
             PROVE  /\ \A t \in 0..Horizon : Cardinality(LiveWithin(r, t, limit.w)) <= limit.n + x
                    /\ x = 0 => \A k, l \in LiveRows(r) :
                         k # l /\ Distance(r[k].at, r[l].at) <= limit.w
                           => Distance(r[k].at, r[l].at) >= limit.gap
  BY DEF KeepLimit
<1>1. ASSUME NEW t \in 0..Horizon
      PROVE  Cardinality(LiveWithin(r, t, limit.w)) <= limit.n + x
  <2>1. /\ Cardinality(LiveWithin(q, t, limit.w)) <= limit.n + x
        /\ IsFiniteSet(LiveWithin(q, t, limit.w)) /\ Cardinality(LiveWithin(q, t, limit.w)) \in Nat
        /\ Cardinality(LiveWithin(r, t, limit.w)) \in Nat /\ limit.n \in Nat
    BY WindowsFinite DEF KeepLimit, Limit
  <2>2. CASE LiveWithin(r, t, limit.w) \subseteq LiveWithin(q, t, limit.w)
    BY <2>1, <2>2, FS_Subset
  <2>3. CASE ~(LiveWithin(r, t, limit.w) \subseteq LiveWithin(q, t, limit.w))
    <3>1. /\ LiveWithin(r, t, limit.w) \subseteq LiveWithin(q, t, limit.w) \cup {m}
          /\ m \notin LiveWithin(q, t, limit.w) /\ t <= r[m].at /\ r[m].at <= t + limit.w
      BY <2>3 DEF LiveWithin
    <3>2. Cardinality(LiveWithin(q, t, limit.w)) < limit.n
      BY <3>1
    <3>3. /\ IsFiniteSet(LiveWithin(q, t, limit.w) \cup {m})
          /\ Cardinality(LiveWithin(q, t, limit.w) \cup {m}) = Cardinality(LiveWithin(q, t, limit.w)) + 1
      BY <2>1, <3>1, FS_AddElement
    <3>4. Cardinality(LiveWithin(r, t, limit.w)) <= Cardinality(LiveWithin(q, t, limit.w) \cup {m})
      BY <3>1, <3>3, FS_Subset
    <3> QED
      BY <2>1, <3>2, <3>3, <3>4
  <2> QED
    BY <2>2, <2>3
<1>2. ASSUME x = 0, NEW k \in LiveRows(r), NEW l \in LiveRows(r), k # l,
             Distance(r[k].at, r[l].at) <= limit.w
      PROVE  Distance(r[k].at, r[l].at) >= limit.gap
  <2>1. \A i \in LiveRows(r) : r[i].at \in Int
    <3>1. \A i \in DOMAIN r : r[i] \in Row
      BY LenProperties, ElementOfSeq
    <3> QED
      BY <3>1 DEF LiveRows, Row
  <2>2. Distance(r[k].at, r[l].at) = Distance(r[l].at, r[k].at)
    BY <2>1, DistanceFacts
  <2>3. CASE k # m /\ l # m
    BY <1>2, <2>3 DEF KeepLimit
  <2>4. CASE k = m
    BY <1>2, <2>4
  <2>5. CASE l = m
    BY <1>2, <2>2, <2>5
  <2> QED
    BY <2>3, <2>4, <2>5
<1> QED
  BY <1>1, <1>2

\* The slot of a row.
SlotOf(k) == [id |-> k, at |-> rows[k].at, status |-> rows[k].status]

\* The slots near a time are as many as their rows.
LEMMA NearCounts ==
  ASSUME TypeOK, NEW x, NEW slots, slots \subseteq SlotsInWindow(x),
         NEW T \in SUBSET DOMAIN rows, \A k \in T : SlotOf(k) \in Near(x, slots, scene.limit)
  PROVE  /\ IsFiniteSet(Near(x, slots, scene.limit))
         /\ Cardinality(Near(x, slots, scene.limit)) \in Nat /\ Cardinality(T) \in Nat
         /\ Cardinality(T) <= Cardinality(Near(x, slots, scene.limit))
<1>1. PICK N : N = Near(x, slots, scene.limit)
  OBVIOUS
<1>2. IsFiniteSet(N)
  <2> DEFINE K == {k \in DOMAIN rows : SlotOf(k) \in N}
             slot == [k \in K |-> SlotOf(k)]
  <2>1. IsFiniteSet(K)
    BY IndexesFinite DEF TypeOK
  <2>2. \A s \in N : \E k \in DOMAIN rows : s = SlotOf(k)
    BY <1>1 DEF Near, LiveSlots, SlotsInWindow, SlotOf
  <2>3. slot \in [K -> N] /\ \A s \in N : \E k \in K : slot[k] = s
    BY <2>2
  <2>4. slot \in Surjection(K, N)
    BY <2>3, Fun_IsSurj
  <2> QED
    BY <2>1, <2>4, FS_Surjection
<1>3. Cardinality(N) \in Nat /\ Cardinality(T) \in Nat
  BY <1>2, FS_CardinalityType, IndexesFinite DEF TypeOK
<1>4. [k \in T |-> SlotOf(k)] \in Injection(T, N)
  <2> DEFINE slot == [k \in T |-> SlotOf(k)]
  <2>1. slot \in [T -> N]
    BY <1>1
  <2>2. \A k, l \in T : slot[k] = slot[l] => k = l
    <3>1. \A k : SlotOf(k).id = k
      BY DEF SlotOf
    <3> QED
      BY <3>1
  <2> QED
    BY <2>1, <2>2, Fun_IsInj
<1>5. Cardinality(T) <= Cardinality(N)
  BY <1>2, <1>4, FS_Injection
<1> QED
  BY <1>1, <1>2, <1>3, <1>5

\* Requests under way passed the check; the row one is to move is locked and still pending.
AsksInv ==
  \A a \in asking :
    /\ CanSchedule(a.at, a.seen, scene.limit)
    /\ a.row # 0 => a.row \in DOMAIN rows /\ rows[a.row].status = "pending"

\* The steps that change what is asked for, the rows, or the count of races.
LEMMA AskSteps ==
  ASSUME TypeOK, [Next]_vars
  PROVE  /\ UNCHANGED scene
         /\ \/ UNCHANGED <<rows, raced>> /\ asking' \subseteq asking
            \/ /\ UNCHANGED <<rows, raced>>
               /\ \E a : /\ asking' = asking \cup {a}
                         /\ CanSchedule(a.at, a.seen, scene.limit)
                         /\ a.row # 0 => a.row \in DOMAIN rows /\ rows[a.row].status = "pending"
            \/ /\ UNCHANGED <<asking, raced>>
               /\ \/ \E s \in Stream : Settle(s)
                  \/ \E t : Tick(t)
                  \/ \E k \in DOMAIN rows : CancelScheduledUpload(k)
            \/ \E a \in asking : WriteSchedule(a) \/ WriteReschedule(a)
<1>1. CASE Worker
  BY <1>1, WorkerShows DEF Unchanged4Worker, database, history
<1>2. CASE Consumer
  <2>1. ASSUME NEW s \in Stream, ApplyToStep(s) \/ ReadRecord(s) \/ SaveRecord(s) \/ TransactionFails(s)
        PROVE  UNCHANGED <<scene, rows, raced, asking>>
    BY <2>1 DEF ApplyToStep, ReadRecord, SaveRecord, TransactionFails, database, history
  <2>2. ASSUME NEW s \in Stream, Settle(s)
        PROVE  UNCHANGED <<scene, raced, asking>>
    BY <2>2 DEF Settle, history
  <2>3. ASSUME (\E q, w, k : CaptionCompleted(q, w, k)) \/ BackfillRead \/ BackfillSave
        PROVE  UNCHANGED <<scene, rows, raced, asking>>
    BY <2>3 DEF CaptionCompleted, BackfillRead, BackfillSave, database, history
  <2>4. \/ UNCHANGED <<scene, rows, raced, asking>>
        \/ UNCHANGED <<scene, raced, asking>> /\ \E s \in Stream : Settle(s)
    BY <1>2, <2>1, <2>2, <2>3, Zenon DEF Consumer, Consume
  <2> QED
    BY <2>4
<1>3. CASE Ticker
  <2>1. \A t : Tick(t) => UNCHANGED <<scene, raced, asking>>
    BY DEF Tick, history
  <2>2. Fire \/ FireFails => UNCHANGED <<scene, rows, raced, asking>>
    BY DEF Fire, FireFails, database, history
  <2> QED
    BY <1>3, <2>1, <2>2 DEF Ticker
<1>4. CASE Reviewer
  BY <1>4 DEF Reviewer, EditUploadMetadata, ApproveUploadRecord, RejectUploadRecord,
              PromoteUploadToPublished, RecordCommand
<1>5. CASE Scheduling
  <2>1. ASSUME NEW t, NEW m, AskSchedule(t, m)
        PROVE  /\ UNCHANGED <<scene, rows, raced>>
               /\ \E a : /\ asking' = asking \cup {a} /\ CanSchedule(a.at, a.seen, scene.limit)
                         /\ a.row = 0
    <3>1. PICK a : a = [row |-> 0, at |-> t, method |-> m, seen |-> SlotsInWindow(t)]
      OBVIOUS
    <3>2. Asks("schedule", a)
      BY <2>1, <3>1 DEF AskSchedule
    <3> QED
      BY <3>1, <3>2 DEF Asks, database, history
  <2>2. ASSUME NEW t, NEW k \in DOMAIN rows, AskReschedule(k, t)
        PROVE  /\ UNCHANGED <<scene, rows, raced>>
               /\ \E a : /\ asking' = asking \cup {a} /\ CanSchedule(a.at, a.seen, scene.limit)
                         /\ a.row = k /\ rows[k].status = "pending"
    <3>1. PICK a : a = [row |-> k, at |-> t, method |-> rows[k].method, seen |-> OtherSlots(k, t)]
      OBVIOUS
    <3>2. Asks("reschedule", a) /\ rows[k].status = "pending"
      BY <2>2, <3>1 DEF AskReschedule
    <3> QED
      BY <3>1, <3>2 DEF Asks, database, history
  <2>3. ASSUME NEW a, WriteSchedule(a) \/ WriteReschedule(a)
        PROVE  UNCHANGED scene
    BY <2>3 DEF WriteSchedule, WriteReschedule, Write
  <2>4. ASSUME NEW k, CancelScheduledUpload(k)
        PROVE  UNCHANGED <<scene, raced, asking>>
    BY <2>4 DEF CancelScheduledUpload, history
  <2>5. CASE \E t, m : AskSchedule(t, m)
    BY <2>1, <2>5
  <2>6. CASE \E t : \E k \in DOMAIN rows : AskReschedule(k, t)
    BY <2>2, <2>6
  <2>7. CASE \E a \in asking : WriteSchedule(a) \/ WriteReschedule(a)
    BY <2>3, <2>7
  <2>8. CASE \E k \in DOMAIN rows : CancelScheduledUpload(k)
    BY <2>4, <2>8
  <2> QED
    BY <1>5, <2>5, <2>6, <2>7, <2>8, Zenon DEF Scheduling
<1>6. CASE RegenerateUpload \/ CancelRun \/ UNCHANGED vars
  BY <1>6 DEF RegenerateUpload, CancelRun, vars, database, history
<1>7. CASE Crash
  <2>1. UNCHANGED <<scene, rows, raced>> /\ asking' = {}
    BY <1>7 DEF Crash, database, history
  <2> QED
    BY <2>1
<1> QED
  BY <1>1, <1>2, <1>3, <1>4, <1>5, <1>6, <1>7 DEF Next

\* Rows a step leaves at their times, none of them live again.
NoneRevived ==
  DOMAIN rows' = DOMAIN rows /\ \A k \in DOMAIN rows :
    rows'[k].at = rows[k].at /\ (rows'[k].status \notin {"cancelled", "failed"}
                                   => rows[k].status \notin {"cancelled", "failed"})

\* Settling, firing and cancelling revive no row.
LEMMA NoneRevives ==
  ASSUME TypeOK, \/ \E s \in Stream : Settle(s)
                 \/ \E t : Tick(t)
                 \/ \E k \in DOMAIN rows : CancelScheduledUpload(k)
  PROVE  NoneRevived
<1>1. ASSUME NEW s \in Stream, NEW k \in InFlight, RowSettled(s, k)
      PROVE  NoneRevived
  <2>1. rows[k] \in Row /\ rows[k].status = "in_flight"
    BY Elements DEF InFlight
  <2>2. Settled(s, rows[k]).at = rows[k].at
    BY <2>1 DEF Settled, Row
  <2> QED
    BY <1>1, <2>1, <2>2 DEF RowSettled, NoneRevived
<1>2. ASSUME NEW t, Tick(t)
      PROVE  NoneRevived
  <2>1. PICK order :
          /\ \A m \in 1..Len(order) : order[m] \in Due(t)
          /\ FiredSoFar([rows |-> rows', recs |-> recs', firing |-> firing'], order, Len(order))
    BY <1>2, TickMoves
  <2>2. ASSUME NEW k \in DOMAIN rows
        PROVE  rows'[k].at = rows[k].at /\ (rows[k].status = "pending" \/ rows'[k] = rows[k])
    <3>1. CASE Chosen(order, Len(order), k)
      BY <2>1, <3>1 DEF Chosen, Due, FiredSoFar
    <3>2. CASE ~Chosen(order, Len(order), k)
      BY <2>1, <3>2 DEF FiredSoFar
    <3> QED
      BY <3>1, <3>2
  <2> QED
    BY <2>1, <2>2 DEF NoneRevived, FiredSoFar
<1>3. ASSUME NEW k \in DOMAIN rows, RowCancelled(k)
      PROVE  NoneRevived
  BY <1>3 DEF RowCancelled, NoneRevived
<1>4. UNCHANGED rows => NoneRevived
  BY DEF NoneRevived
<1> QED
  BY <1>1, <1>2, <1>3, <1>4, SettleMoves, RowChanges

\* Nor do they touch a row a request has locked.
LEMMA LockedStays ==
  ASSUME TypeOK, NEW a \in asking, a.row \in DOMAIN rows, rows[a.row].status = "pending",
         \/ \E s \in Stream : Settle(s)
         \/ \E t : Tick(t)
         \/ \E k \in DOMAIN rows : CancelScheduledUpload(k)
  PROVE  a.row \in DOMAIN rows' /\ rows'[a.row].status = "pending"
<1>1. ASSUME NEW s \in Stream, NEW k \in InFlight, RowSettled(s, k)
      PROVE  a.row \in DOMAIN rows' /\ rows'[a.row].status = "pending"
  BY <1>1 DEF RowSettled, InFlight
<1>2. ASSUME NEW t, Tick(t)
      PROVE  a.row \in DOMAIN rows' /\ rows'[a.row].status = "pending"
  <2>1. PICK order :
          /\ \A m \in 1..Len(order) : order[m] \in Due(t)
          /\ FiredSoFar([rows |-> rows', recs |-> recs', firing |-> firing'], order, Len(order))
    BY <1>2, TickMoves
  <2>2. ~Chosen(order, Len(order), a.row)
    BY <2>1 DEF Chosen, Due, Locked
  <2> QED
    BY <2>1, <2>2 DEF FiredSoFar
<1>3. ASSUME NEW k \in DOMAIN rows, CancelScheduledUpload(k)
      PROVE  a.row \in DOMAIN rows' /\ rows'[a.row].status = "pending"
  <2>1. RowCancelled(k) /\ k # a.row
    BY <1>3, RowChanges DEF CancelScheduledUpload, Locked
  <2> QED
    BY <2>1 DEF RowCancelled
<1> QED
  BY <1>1, <1>2, <1>3, SettleMoves

\* Every step keeps the requests under way checked and their rows locked.
LEMMA AsksStep ==
  ASSUME TypeOK, AsksInv, [Next]_vars
  PROVE  AsksInv'
<1>0. UNCHANGED scene
  BY AskSteps
<1>1. CASE UNCHANGED <<rows, raced>> /\ asking' \subseteq asking
  BY <1>0, <1>1 DEF AsksInv
<1>2. ASSUME UNCHANGED <<rows, raced>>, NEW a, asking' = asking \cup {a},
             CanSchedule(a.at, a.seen, scene.limit),
             a.row # 0 => a.row \in DOMAIN rows /\ rows[a.row].status = "pending"
      PROVE  AsksInv'
  BY <1>0, <1>2 DEF AsksInv
<1>3. CASE /\ UNCHANGED <<asking, raced>>
           /\ \/ \E s \in Stream : Settle(s)
              \/ \E t : Tick(t)
              \/ \E k \in DOMAIN rows : CancelScheduledUpload(k)
  BY <1>0, <1>3, LockedStays DEF AsksInv
<1>4. ASSUME NEW a \in asking, WriteSchedule(a) \/ WriteReschedule(a)
      PROVE  AsksInv'
  <2>1. asking' \subseteq asking
    BY <1>4 DEF WriteSchedule, WriteReschedule, Write
  <2>2. RowAdded(a) \/ RowMoved(a.row, a.at)
    BY <1>4, RowChanges
  <2>3. \A k \in DOMAIN rows : k \in DOMAIN rows' /\ rows'[k].status = rows[k].status
    BY <2>2 DEF RowAdded, RowMoved
  <2> QED
    BY <1>0, <2>1, <2>3 DEF AsksInv
<1> QED
  BY <1>1, <1>2, <1>3, <1>4, AskSteps

\* A row in a window with a time is near it.
LEMMA WindowIsNear ==
  ASSUME TypeOK, NEW x \in Nat, NEW t \in Nat, t <= x, x <= t + scene.limit.w,
         NEW k \in LiveWithin(rows, t, scene.limit.w)
  PROVE  /\ SlotOf(k) \in SlotsInWindow(x)
         /\ \A slots : SlotOf(k) \in slots => SlotOf(k) \in Near(x, slots, scene.limit)
<1>1. /\ k \in DOMAIN rows /\ t <= rows[k].at /\ rows[k].at <= t + scene.limit.w
      /\ rows[k].status \notin {"cancelled", "failed"}
      /\ rows[k].at \in Nat /\ scene.limit.w \in Nat
  <2>1. scene.limit \in Limit
    BY Elements DEF Scene
  <2> QED
    BY <2>1, Elements DEF LiveWithin, LiveRows, Row, Limit
<1>2. Distance(rows[k].at, x) <= scene.limit.w
  <2>1. PICK y \in Int, w \in Int : y = rows[k].at /\ w = scene.limit.w
    BY <1>1
  <2>2. t <= x /\ x <= t + w /\ t <= y /\ y <= t + w
    BY <1>1, <2>1
  <2>3. Distance(y, x) <= w
    BY <2>2, DistanceFacts
  <2> QED
    BY <2>1, <2>3
<1> QED
  BY <1>1, <1>2 DEF SlotsInWindow, SlotOf, Near, LiveSlots

\* A row that is near a time has its slot there.
LEMMA NearIsSlot ==
  ASSUME TypeOK, NEW x \in Nat, NEW k \in LiveRows(rows),
         Distance(x, rows[k].at) <= scene.limit.w
  PROVE  /\ SlotOf(k) \in SlotsInWindow(x) /\ Distance(rows[k].at, x) = Distance(x, rows[k].at)
         /\ \A slots : SlotOf(k) \in slots => SlotOf(k) \in Near(x, slots, scene.limit)
<1>1. /\ k \in DOMAIN rows /\ rows[k].at \in Nat
      /\ rows[k].status \notin {"cancelled", "failed"}
  BY Elements DEF LiveRows, Row
<1>2. Distance(rows[k].at, x) = Distance(x, rows[k].at)
  <2>1. PICK y \in Int : y = rows[k].at
    BY <1>1
  <2>2. Distance(y, x) = Distance(x, y)
    BY DistanceFacts
  <2> QED
    BY <2>1, <2>2
<1> QED
  BY <1>1, <1>2 DEF SlotsInWindow, SlotOf, Near, LiveSlots

\* A new row keeps the limit.
LEMMA ScheduledKeeps ==
  ASSUME TypeOK, AsksInv, WithinLimitButForRaces, NEW a \in asking, WriteSchedule(a), rows' \in Seq(Row)
  PROVE  KeepLimit(rows', scene.limit, raced')
<1>0. /\ scene.limit \in Limit /\ raced \in Nat /\ rows \in Seq(Row) /\ a.at \in Nat
      /\ scene.limit.n \in Nat /\ scene.limit.w \in Nat /\ scene.limit.gap \in Nat
  BY Elements DEF TypeOK, Scene, Ask, Limit
<1>1. PICK m : m = Len(rows) + 1
  OBVIOUS
<1>2. RowAdded(a)
  BY RowChanges
<1>3. /\ LiveRows(rows') \subseteq LiveRows(rows) \cup {m} /\ m \in DOMAIN rows'
      /\ \A k \in LiveRows(rows') : k # m => rows'[k].at = rows[k].at
      /\ rows'[m].at = a.at
  BY <1>1, <1>2 DEF RowAdded, LiveRows, NewRow
<1>4. KeepLimit(rows, scene.limit, raced)
  BY DEF WithinLimitButForRaces
<1>5. CASE a.seen # SlotsInWindow(a.at)
  <2>1. raced' = raced + 1
    BY <1>5 DEF WriteSchedule
  <2> QED
    BY <1>0, <1>3, <1>4, <2>1, OneMoreKeeps
<1>6. CASE a.seen = SlotsInWindow(a.at)
  <2>1. raced' = raced
    BY <1>6 DEF WriteSchedule
  <2>2. CanSchedule(a.at, a.seen, scene.limit)
    BY DEF AsksInv
  <2>3. ASSUME scene.limit.n > 0, NEW t \in 0..Horizon,
               t <= rows'[m].at, rows'[m].at <= t + scene.limit.w
        PROVE  Cardinality(LiveWithin(rows, t, scene.limit.w)) < scene.limit.n
    <3>1. \A k \in LiveWithin(rows, t, scene.limit.w) : SlotOf(k) \in Near(a.at, a.seen, scene.limit)
      BY <1>0, <1>3, <1>6, <2>3, WindowIsNear, BoundsAssumption
    <3>2. LiveWithin(rows, t, scene.limit.w) \in SUBSET DOMAIN rows
      BY DEF LiveWithin, LiveRows
    <3>3. ~LimitExceeded(a.at, a.seen, scene.limit)
      BY <2>2, <2>3 DEF CanSchedule
    <3> QED
      BY <1>0, <1>6, <3>1, <3>2, <3>3, NearCounts DEF LimitExceeded
  <2>4. ASSUME scene.limit.n > 0, NEW k \in LiveRows(rows),
               Distance(rows'[m].at, rows[k].at) <= scene.limit.w
        PROVE  Distance(rows'[m].at, rows[k].at) >= scene.limit.gap
    <3>1. /\ SlotOf(k) \in Near(a.at, a.seen, scene.limit)
          /\ Distance(rows[k].at, a.at) = Distance(a.at, rows[k].at)
      BY <1>0, <1>3, <1>6, <2>4, NearIsSlot
    <3>2. ~GapViolation(a.at, a.seen, scene.limit)
      BY <2>2, <2>4 DEF CanSchedule
    <3>3. ~(Distance(a.at, rows[k].at) < scene.limit.gap)
      BY <3>1, <3>2 DEF GapViolation, SlotOf
    <3>4. Distance(a.at, rows[k].at) \in Nat
      <4>1. rows[k].at \in Nat
        BY Elements DEF LiveRows, Row
      <4> QED
        BY <1>0, <4>1, DistanceFacts
    <3> QED
      BY <1>0, <1>3, <3>3, <3>4
  <2> QED
    BY <1>0, <1>3, <1>4, <2>1, <2>3, <2>4, FreeKeeps
<1> QED
  BY <1>5, <1>6

\* So does a row that moves.  The check leaves out its own slot and any other that shares
\* its time: those no window without that time holds, and they were close already.
LEMMA RescheduledKeeps ==
  ASSUME TypeOK, AsksInv, WithinLimitButForRaces, NEW a \in asking, WriteReschedule(a), rows' \in Seq(Row)
  PROVE  KeepLimit(rows', scene.limit, raced')
<1>0. /\ scene.limit \in Limit /\ raced \in Nat /\ rows \in Seq(Row) /\ a.at \in Nat
      /\ scene.limit.n \in Nat /\ scene.limit.w \in Nat /\ scene.limit.gap \in Nat
  BY Elements DEF TypeOK, Scene, Ask, Limit
<1>1. PICK m : m = a.row
  OBVIOUS
<1>2. m \in DOMAIN rows /\ rows[m].status = "pending" /\ rows[m].at \in Nat
  BY <1>1, Elements DEF AsksInv, WriteReschedule, Row
<1>3. /\ LiveRows(rows') \subseteq LiveRows(rows) \cup {m} /\ m \in DOMAIN rows'
      /\ \A k \in LiveRows(rows') : k # m => rows'[k].at = rows[k].at
      /\ rows'[m].at = a.at /\ m \in LiveRows(rows)
  BY <1>1, <1>2, RowChanges DEF RowMoved, LiveRows
<1>4. KeepLimit(rows, scene.limit, raced)
  BY DEF WithinLimitButForRaces
<1>5. CASE a.seen # OtherSlots(a.row, a.at)
  <2>1. raced' = raced + 1
    BY <1>5 DEF WriteReschedule
  <2> QED
    BY <1>0, <1>3, <1>4, <2>1, OneMoreKeeps
<1>6. CASE a.seen = OtherSlots(a.row, a.at)
  <2>1. raced' = raced
    BY <1>6 DEF WriteReschedule
  <2>2. CanSchedule(a.at, a.seen, scene.limit)
    BY DEF AsksInv
  <2>3. ASSUME NEW k, SlotOf(k) \in SlotsInWindow(a.at),
               rows[k].at # rows[m].at \/ rows[k].status # "pending"
        PROVE  SlotOf(k) \in a.seen
    BY <1>1, <1>2, <1>6, <2>3 DEF OtherSlots, SlotOf
  <2>4. ASSUME scene.limit.n > 0, NEW t \in 0..Horizon,
               t <= rows'[m].at, rows'[m].at <= t + scene.limit.w,
               m \notin LiveWithin(rows, t, scene.limit.w)
        PROVE  Cardinality(LiveWithin(rows, t, scene.limit.w)) < scene.limit.n
    <3>1. \A k \in LiveWithin(rows, t, scene.limit.w) :
            SlotOf(k) \in Near(a.at, a.seen, scene.limit)
      <4>1. \A k \in LiveWithin(rows, t, scene.limit.w) : rows[k].at # rows[m].at
        BY <1>3, <2>4 DEF LiveWithin
      <4> QED
        BY <1>0, <1>3, <2>3, <2>4, <4>1, WindowIsNear, BoundsAssumption
    <3>2. LiveWithin(rows, t, scene.limit.w) \in SUBSET DOMAIN rows
      BY DEF LiveWithin, LiveRows
    <3>3. ~LimitExceeded(a.at, a.seen, scene.limit)
      BY <2>2, <2>4 DEF CanSchedule
    <3>4. a.seen \subseteq SlotsInWindow(a.at)
      BY <1>6 DEF OtherSlots
    <3> QED
      BY <1>0, <3>1, <3>2, <3>3, <3>4, NearCounts DEF LimitExceeded
  <2>5. ASSUME scene.limit.n > 0, raced = 0, NEW k \in LiveRows(rows), k # m,
               Distance(rows'[m].at, rows[k].at) <= scene.limit.w
        PROVE  Distance(rows'[m].at, rows[k].at) >= scene.limit.gap
    <3>1. /\ SlotOf(k) \in SlotsInWindow(a.at)
          /\ \A slots : SlotOf(k) \in slots => SlotOf(k) \in Near(a.at, slots, scene.limit)
          /\ Distance(rows[k].at, a.at) = Distance(a.at, rows[k].at)
      BY <1>0, <1>3, <2>5, NearIsSlot
    <3>2. ~GapViolation(a.at, a.seen, scene.limit)
      BY <2>2, <2>5 DEF CanSchedule
    <3>3. rows[k].at \in Nat /\ Distance(a.at, rows[k].at) \in Nat
      <4>1. rows[k].at \in Nat
        BY Elements DEF LiveRows, Row
      <4>2. Distance(a.at, rows[k].at) \in Nat
        BY <1>0, <4>1, DistanceFacts
      <4> QED
        BY <4>1, <4>2
    <3>4. CASE SlotOf(k) \in a.seen
      <4>1. ~(Distance(a.at, rows[k].at) < scene.limit.gap)
        BY <3>1, <3>2, <3>4 DEF GapViolation, SlotOf
      <4> QED
        BY <1>0, <1>3, <3>3, <4>1
    <3>5. CASE SlotOf(k) \notin a.seen
      <4>1. rows[k].at = rows[m].at
        BY <2>3, <3>1, <3>5
      <4>2. Distance(rows[k].at, rows[m].at) = 0
        BY <1>2, <4>1, DistanceFacts
      <4>3. 0 >= scene.limit.gap
        BY <1>0, <1>3, <1>4, <2>5, <4>2 DEF KeepLimit
      <4> QED
        BY <1>0, <1>3, <3>3, <4>3
    <3> QED
      BY <3>4, <3>5
  <2> QED
    BY <1>0, <1>3, <1>4, <2>1, <2>4, <2>5, FreeKeeps
<1> QED
  BY <1>5, <1>6

\* Every step keeps the limit but for races.
LEMMA LimitStep ==
  ASSUME TypeOK, AsksInv, WithinLimitButForRaces, [Next]_vars
  PROVE  WithinLimitButForRaces'
<1>0. UNCHANGED scene /\ rows' \in Seq(Row)
  BY AskSteps, TypeStep DEF TypeOK
<1> SUFFICES KeepLimit(rows', scene.limit, raced')
  <2>1. KeepLimit(rows, scene.limit, raced)' = KeepLimit(rows', scene.limit, raced')
    BY <1>0 DEF KeepLimit, LiveWithin, LiveRows
  <2> QED
    BY <2>1 DEF WithinLimitButForRaces
<1>1. CASE UNCHANGED <<rows, raced>>
  BY <1>1 DEF WithinLimitButForRaces
<1>2. CASE /\ UNCHANGED raced
           /\ \/ \E s \in Stream : Settle(s)
              \/ \E t : Tick(t)
              \/ \E k \in DOMAIN rows : CancelScheduledUpload(k)
  <2>1. NoneRevived
    BY <1>2, NoneRevives
  <2>2. LiveRows(rows') \subseteq LiveRows(rows) /\ \A k \in LiveRows(rows') : rows'[k].at = rows[k].at
    BY <2>1 DEF NoneRevived, LiveRows
  <2>3. scene.limit \in Limit /\ raced \in Nat /\ rows \in Seq(Row)
    BY Elements DEF TypeOK, Scene
  <2> QED
    BY <1>0, <1>2, <2>2, <2>3, FewerKeep DEF WithinLimitButForRaces
<1> QED
  BY <1>0, <1>1, <1>2, ScheduledKeeps, RescheduledKeeps, AskSteps

\* However rows are added, moved, fired and cancelled, no window of the account's limit holds
\* more live rows than it allows, but for one for each request that wrote after the slots it
\* had checked changed; and where there was no such request no two in a window are too close.
THEOREM LimitIsKept ==
  Spec => []WithinLimitButForRaces
<1>1. Init => AsksInv /\ WithinLimitButForRaces
  BY ScenesAssumption DEF Init, AsksInv, WithinLimitButForRaces
<1>2. TypeOK /\ AsksInv /\ [Next]_vars => AsksInv'
  BY AsksStep
<1>3. TypeOK /\ AsksInv /\ WithinLimitButForRaces /\ [Next]_vars => WithinLimitButForRaces'
  BY LimitStep
<1> QED
  BY <1>1, <1>2, <1>3, UploadsTypeOK, PTL DEF Spec

-----------------------------------------------------------------------------
(* The slot offered instead *)

\* Where a time is refused for the gap alone, one push past the latest blocker is enough:
\* every slot of the window is then far enough behind.
LEMMA OnePushIsEnough ==
  ASSUME TypeOK, NEW t \in Nat, NEW slots, slots = SlotsInWindow(t),
         ~LimitExceeded(t, slots, scene.limit), ~CanSchedule(t, slots, scene.limit),
         NEW c, c = PushPast(t, slots, scene.limit)
  PROVE  c \in Int /\ c >= t /\ CanSchedule(c, slots, scene.limit)
<1>0. scene.limit.n \in Nat /\ scene.limit.w \in Nat /\ scene.limit.gap \in Nat
  BY Elements DEF Scene, Limit
<1>1. \A s \in slots : s.at \in Nat /\ Distance(s.at, t) <= scene.limit.w
  <2>1. \A k \in DOMAIN rows : rows[k].at \in Nat
    BY Elements DEF Row
  <2> QED
    BY <2>1 DEF SlotsInWindow
<1>2. Blockers(t, slots, scene.limit) = LiveSlots(slots)
      /\ Near(t, slots, scene.limit) = LiveSlots(slots)
  BY <1>1 DEF Blockers, Near, LiveSlots
<1>3. PICK s0 \in LiveSlots(slots) : Distance(s0.at, t) < scene.limit.gap
  BY <1>2 DEF CanSchedule, GapViolation
<1>4. PICK A : A = {s.at : s \in LiveSlots(slots)}
  OBVIOUS
<1>5. \A x \in A : x \in Nat /\ x <= t + scene.limit.w
  <2>1. \A x \in Nat : Distance(x, t) <= scene.limit.w => x <= t + scene.limit.w
    BY <1>0 DEF Distance
  <2> QED
    BY <1>1, <1>4, <2>1 DEF LiveSlots
<1>6. PICK m : m = Max(A)
  OBVIOUS
<1>7. m \in A /\ m \in Nat /\ \A x \in A : x <= m
  <2>1. t + scene.limit.w \in Int /\ A # {}
    BY <1>0, <1>3, <1>4
  <2> QED
    BY <1>5, <1>6, <2>1, Largest
<1>8. c = m + scene.limit.gap
  BY <1>2, <1>3, <1>4, <1>6 DEF PushPast
<1>9. c \in Int /\ c >= t
  <2>1. s0.at \in Nat /\ s0.at <= m
    BY <1>1, <1>4, <1>7 DEF LiveSlots
  <2>2. s0.at + scene.limit.gap > t
    BY <1>0, <1>3, <2>1 DEF Distance
  <2> QED
    BY <1>0, <1>7, <1>8, <2>1, <2>2
<1>10. ~GapViolation(c, slots, scene.limit)
  <2>1. ASSUME NEW s \in LiveSlots(slots)
        PROVE  ~(Distance(s.at, c) < scene.limit.gap)
    <3>1. s.at \in Nat /\ s.at <= m
      BY <1>1, <1>4, <1>7 DEF LiveSlots
    <3> QED
      BY <1>0, <1>7, <1>8, <3>1 DEF Distance
  <2> QED
    BY <2>1 DEF GapViolation, Near
<1>11. ~LimitExceeded(c, slots, scene.limit)
  <2>1. /\ IsFiniteSet(Near(t, slots, scene.limit))
        /\ Cardinality(Near(t, slots, scene.limit)) \in Nat
    <3>1. {} \in SUBSET DOMAIN rows /\ slots \subseteq SlotsInWindow(t)
          /\ \A k \in {} : SlotOf(k) \in Near(t, slots, scene.limit)
      OBVIOUS
    <3> QED
      BY ONLY TypeOK, <3>1, NearCounts
  <2>2. Near(c, slots, scene.limit) \subseteq Near(t, slots, scene.limit)
    BY <1>2 DEF Near
  <2>3. /\ Cardinality(Near(c, slots, scene.limit)) <= Cardinality(Near(t, slots, scene.limit))
        /\ Cardinality(Near(c, slots, scene.limit)) \in Nat
    BY <2>1, <2>2, FS_Subset, FS_CardinalityType
  <2> QED
    BY <1>0, <2>1, <2>3 DEF LimitExceeded
<1> QED
  BY <1>9, <1>10, <1>11 DEF CanSchedule

\* The scan offers the time itself if it is free, and otherwise the one it is pushed to first.
LEMMA SuggestionIs ==
  ASSUME NEW t, NEW slots, NEW rl \in Limit, NEW c,
         c = IF CanSchedule(t, slots, rl) THEN t ELSE PushPast(t, slots, rl),
         CanSchedule(c, slots, rl)
  PROVE  SuggestNextFreeSlot(t, slots, rl) = c
<1> DEFINE Go(d) == IF CanSchedule(d, slots, rl) THEN d ELSE PushPast(d, slots, rl)
           Eq(u, m) == u = [k \in 0..m |-> IF k = 0 THEN t ELSE Go(u[k - 1])]
<1>1. Tries(rl) \in Nat /\ Tries(rl) # 0
  BY DEF Tries, Limit
<1>2. c = Go(t) /\ Go(c) = c
  OBVIOUS
<1> HIDE DEF Go
<1>3. \A m \in Nat : \E u : Eq(u, m)
  <2> DEFINE S == {m \in Nat : \E u : Eq(u, m)}
  <2>1. 0 \in S
    <3>1. Eq([k \in 0..0 |-> t], 0)
      OBVIOUS
    <3> QED
      BY <3>1
  <2>2. ASSUME NEW m \in Nat, m \in S PROVE m + 1 \in S
    <3>1. PICK u : Eq(u, m)
      BY <2>2
    <3> DEFINE v == [k \in 0..(m + 1) |-> IF k = m + 1 THEN Go(u[m]) ELSE u[k]]
    <3>2. ASSUME NEW k \in 0..(m + 1)
          PROVE  v[k] = IF k = 0 THEN t ELSE Go(v[k - 1])
      <4>1. CASE k = m + 1
        BY <4>1
      <4>2. CASE k # m + 1
        <5>1. k \in 0..m /\ v[k] = u[k]
          BY <4>2
        <5>2. u[k] = IF k = 0 THEN t ELSE Go(u[k - 1])
          BY <3>1, <5>1
        <5>3. k # 0 => v[k - 1] = u[k - 1]
          BY <5>1
        <5> QED
          BY <5>1, <5>2, <5>3
      <4> QED
        BY <4>1, <4>2
    <3>3. Eq(v, m + 1)
      BY <3>2
    <3>4. m + 1 \in Nat
      OBVIOUS
    <3> QED
      BY <3>3, <3>4
  <2> HIDE DEF S
  <2>3. \A m \in Nat : m \in S
    BY <2>1, <2>2, SetInduction
  <2> QED
    BY <2>3 DEF S
<1> DEFINE candidate == CHOOSE u : Eq(u, Tries(rl))
<1>4. Eq(candidate, Tries(rl))
  BY <1>1, <1>3
<1>5. SuggestNextFreeSlot(t, slots, rl) = candidate[Tries(rl)]
  BY DEF SuggestNextFreeSlot, Go
<1>6. candidate[0] = t /\ \A k \in 1..Tries(rl) : candidate[k] = Go(candidate[k - 1])
  <2> HIDE DEF candidate
  <2> QED
    BY <1>1, <1>4
<1> HIDE DEF candidate
<1> DEFINE S == {k \in Nat : k + 1 <= Tries(rl) => candidate[k + 1] = c}
<1>7. 0 \in S
  BY <1>1, <1>2, <1>6
<1>8. ASSUME NEW k \in Nat, k \in S PROVE k + 1 \in S
  <2> SUFFICES ASSUME (k + 1) + 1 <= Tries(rl) PROVE candidate[(k + 1) + 1] = c
    OBVIOUS
  <2>1. (k + 1) + 1 \in 1..Tries(rl) /\ ((k + 1) + 1) - 1 = k + 1 /\ k + 1 <= Tries(rl)
    BY <1>1
  <2> QED
    BY <1>2, <1>6, <1>8, <2>1
<1>9. \A k \in Nat : k \in S
  <2> HIDE DEF S
  <2> QED
    BY <1>7, <1>8, SetInduction
<1>10. Tries(rl) - 1 \in Nat /\ (Tries(rl) - 1) + 1 = Tries(rl)
  BY <1>1
<1> QED
  BY <1>5, <1>9, <1>10

\* When the only thing wrong with a time is that it is too close to another, the slot offered
\* instead passes the same check, and is not earlier.
THEOREM SuggestionIsFreeOfGaps ==
  Spec => []SuggestionPassesCheck
<1>1. ASSUME TypeOK, NEW t \in 0..Horizon,
             ~LimitExceeded(t, SlotsInWindow(t), scene.limit)
      PROVE  LET offer == SuggestNextFreeSlot(t, SlotsInWindow(t), scene.limit)
             IN  offer >= t /\ CanSchedule(offer, SlotsInWindow(t), scene.limit)
  <2>0. t \in Nat /\ scene.limit \in Limit
    BY <1>1, Elements, BoundsAssumption DEF Scene
  <2>1. PICK slots : slots = SlotsInWindow(t)
    OBVIOUS
  <2>2. PICK c : c = IF CanSchedule(t, slots, scene.limit) THEN t ELSE PushPast(t, slots, scene.limit)
    OBVIOUS
  <2>3. c >= t /\ CanSchedule(c, slots, scene.limit)
    <3>1. CASE CanSchedule(t, slots, scene.limit)
      BY <2>0, <2>2, <3>1
    <3>2. CASE ~CanSchedule(t, slots, scene.limit)
      BY <1>1, <2>0, <2>1, <2>2, <3>2, OnePushIsEnough
    <3> QED
      BY <3>1, <3>2
  <2>4. SuggestNextFreeSlot(t, slots, scene.limit) = c
    BY <2>0, <2>2, <2>3, SuggestionIs
  <2> QED
    BY <2>1, <2>3, <2>4
<1>2. TypeOK => SuggestionPassesCheck
  BY <1>1 DEF SuggestionPassesCheck
<1> QED
  BY <1>2, UploadsTypeOK, PTL
=============================================================================
