---------------------------- MODULE MetricsTicker ----------------------------
(***************************************************************************)
(* The loop that keeps the metrics of published uploads up to date: each   *)
(* tick asks the database for the uploads that are due and fetches them,   *)
(* itself or through the Python worker; a result, or a failure, makes an   *)
(* upload fresh until the interval has passed.                             *)
(*                                                                         *)
(* A run has the one upload record that is made with it, and the record    *)
(* its name.  Requests and results on the streams are sets: what comes     *)
(* twice has the effect of coming again.                                   *)
(***************************************************************************)
EXTENDS Naturals, FiniteSets, Sequences, SequencesExt, Identifiers

CONSTANTS
  Run,         \* pipeline_runs.id
  InProcess,   \* the providers whose metrics the API fetches itself
  WithWorker,  \* the providers whose metrics the worker can fetch
  Batch        \* batchSize

ASSUME BatchAssumption == Batch \in Nat \ {0}

VARIABLES
  records,   \* pipeline_upload_records: account, provider, and whether there is an external_ref
  fetched,   \* the records with a last_fetched_at, the longest ago first
  fresh,     \* those of them fetched less than the interval ago
  todo,      \* the rows of the tick at work that it has not come to yet
  requests,  \* pipeline.metrics.requested: records and what the rows said of them
  results    \* pipeline.metrics.completed and .failed: records

metricsVars == <<records, fetched, fresh, todo, requests, results>>

Present(r) == records[r] # None
Listed(r) == \E i \in DOMAIN fetched : fetched[i] = r
Due(r) == Present(r) /\ records[r].ref /\ r \notin fresh

\* ORDER BY last_fetched_at NULLS FIRST.
Before(q, r) ==
  /\ Listed(r)
  /\ Listed(q) => SelectInSeq(fetched, LAMBDA x : x = q) < SelectInSeq(fetched, LAMBDA x : x = r)

\* ListUploadsDueForMetrics: the first rows of the due ones, ties in any order.
Chosen(rows) ==
  LET due == {r \in Run : Due(r)}
  IN  /\ rows \subseteq due
      /\ Cardinality(rows) = IF Cardinality(due) < Batch THEN Cardinality(due) ELSE Batch
      /\ \A q \in due \ rows, r \in rows : ~Before(q, r)

\* The query reads social_account_id into a string: one row without an account and the whole
\* tick ends in an error.
Readable(rows) == \A r \in rows : records[r].account # None

Tick(rows) ==
  /\ todo = {}
  /\ Chosen(rows) /\ rows # {}
  /\ todo' = IF Readable(rows) THEN {[record |-> r, provider |-> records[r].provider] : r \in rows}
             ELSE {}
  /\ UNCHANGED <<records, fetched, fresh, requests, results>>

\* Mutant: a fetch adds a row instead of updating the record's.
RecordAgain(r) ==
  IF Present(r) THEN fetched' = Append(fetched, r) /\ fresh' = fresh \cup {r}
  ELSE UNCHANGED <<fetched, fresh>>

\* RecordMetricsSnapshot and RecordMetricsFailure both set last_fetched_at; a record that is
\* gone takes neither.
Record(r) ==
  IF Present(r)
  THEN /\ fetched' = Append(RemoveFirst(fetched, r), r)
       /\ fresh' = fresh \cup {r}
  ELSE UNCHANGED <<fetched, fresh>>

\* Mutant: a failed fetch is only logged.
FetchOrLog(d) ==
  /\ d.provider \in InProcess
  /\ todo' = todo \ {d}
  /\ Record(d.record) \/ UNCHANGED <<fetched, fresh>>
  /\ UNCHANGED <<records, requests, results>>

FetchYouTube(d) ==
  /\ d.provider \in InProcess
  /\ todo' = todo \ {d}
  /\ Record(d.record)
  /\ UNCHANGED <<records, requests, results>>

\* A dispatch that fails leaves the row to the next tick, as a failed XADD does.
SkipRow(d) ==
  /\ todo' = todo \ {d}
  /\ UNCHANGED <<records, fetched, fresh, requests, results>>

RequestMetrics(d) ==
  /\ d.provider \notin InProcess
  /\ todo' = todo \ {d}
  /\ requests' = requests \cup {d}
  /\ UNCHANGED <<records, fetched, fresh, results>>

\* The worker answers, well or not, what it has a fetcher for, and drops the rest.
AnswerMetrics(d) ==
  /\ requests' = requests \ {d}
  /\ results' = IF d.provider \in WithWorker THEN results \cup {d.record} ELSE results
  /\ UNCHANGED <<records, fetched, fresh, todo>>

\* The answer cannot be published.
LoseMetrics(d) ==
  /\ requests' = requests \ {d}
  /\ UNCHANGED <<records, fetched, fresh, todo, results>>

RecordMetrics(r) ==
  /\ results' = results \ {r}
  /\ Record(r)
  /\ UNCHANGED <<records, todo, requests>>

\* The interval passes for the record fetched the longest ago.
Age ==
  /\ \E i \in DOMAIN fetched :
       /\ fetched[i] \in fresh
       /\ \A j \in 1..(i - 1) : fetched[j] \notin fresh
       /\ fresh' = fresh \ {fetched[i]}
  /\ UNCHANGED <<records, fetched, todo, requests, results>>

\* Results of uploads give their records an external_ref.
Publish(r) ==
  /\ Present(r)
  /\ records' = [records EXCEPT ![r].ref = TRUE]
  /\ UNCHANGED <<fetched, fresh, todo, requests, results>>

\* The foreign keys empty the records' account...
ForgetAccount(a) ==
  /\ records' = [r \in Run |-> IF Present(r) /\ records[r].account = a
                               THEN [records[r] EXCEPT !.account = None] ELSE records[r]]
  /\ UNCHANGED <<fetched, fresh, todo, requests, results>>

\* ... and delete the records of runs.
ForgetRun(r) ==
  /\ records' = [records EXCEPT ![r] = None]
  /\ fetched' = RemoveFirst(fetched, r)
  /\ fresh' = fresh \ {r}
  /\ UNCHANGED <<todo, requests, results>>

CrashTicker ==
  /\ todo' = {}
  /\ UNCHANGED <<records, fetched, fresh, requests, results>>

-----------------------------------------------------------------------------
RecordRow == [account : Account \cup {None}, provider : Platform, ref : BOOLEAN]
DueRow == [record : Run, provider : Platform]

MetricsTypeOK ==
  /\ records \in [Run -> RecordRow \cup {None}]
  /\ fetched \in Seq(Run) /\ IsInjective(fetched)
  /\ fresh \subseteq {r \in Run : Listed(r)}
  /\ todo \subseteq DueRow /\ requests \subseteq DueRow
  /\ results \subseteq Run

Fetchable(r) == records[r].provider \in InProcess \cup WithWorker

\* What the code itself leaves stuck: an account deleted under a due upload, and a batch's
\* worth of due uploads that are never fetched and so always come first.
Starved ==
  \/ \E r \in Run : Due(r) /\ records[r].account = None
  \/ Cardinality({r \in Run : Due(r) /\ ~Fetchable(r)}) >= Batch

\* Every published upload whose provider has a fetcher gets its metrics, again and again:
\* whenever it is due it is fetched in the end, or gone, or the ticker is starved.  Requests,
\* answers and ticks may be lost on the way.
DueIsFetched ==
  \A r \in Run : (Due(r) /\ Fetchable(r)) ~> (~Present(r) \/ r \in fresh \/ Starved)
=============================================================================
