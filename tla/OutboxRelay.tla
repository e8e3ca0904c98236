---------------------------- MODULE OutboxRelay ----------------------------
(* The transactional outbox: units of work insert events beside the change  *)
(* they come from, and any number of relays drain the table into streams.   *)
EXTENDS Integers, Sequences, FiniteSets

CONSTANTS
  Command,      \* units of work
  Event,        \* outbox rows
  Emits,        \* the events each unit of work adds
  At,           \* their occurred_at; rows may be committed in another order
  Relay,        \* relay processes
  Batch,        \* rows a drain takes (the code: 100)
  MaxFailures   \* bound: publish errors, commit errors and crashes together

ASSUME OutboxAssumption ==
  /\ IsFiniteSet(Event)
  /\ Emits \in [Command -> SUBSET Event]
  /\ \A c, d \in Command : c # d => Emits[c] \cap Emits[d] = {}
  /\ At \in [Event -> Nat]
  /\ Batch \in Nat \ {0}
  /\ MaxFailures \in Nat

VARIABLES
  cmd,          \* what became of each unit of work
  published,    \* rows with published_at set
  todo, sent,   \* rows a relay's drain has locked: still to publish, published
  stream,       \* entries the broker has got, of all streams
  failures
vars == <<cmd, published, todo, sent, stream, failures>>

\* A query of another transaction sees the rows of committed units of work.
Visible == UNION {Emits[c] : c \in {d \in Command : cmd[d] = "committed"}}

Locked(r) == todo[r] \cup sent[r]
\* Mutant: the query has no FOR UPDATE SKIP LOCKED.
UnlockedAll == Event

Unlocked == {e \in Event : \A r \in Relay : e \notin Locked(r)}

Earliest(S) == {e \in S : \A f \in S : At[e] <= At[f]}

\* Mutant: the query has no ORDER BY.
SelectionsUnordered(S) ==
  {B \in SUBSET S : Cardinality(B) = Batch \/ (B = S /\ Cardinality(B) < Batch)}

\* Mutant: the drain waits until it can fill a batch.
SelectionsFull(S) ==
  {B \in SUBSET S : Cardinality(B) = Batch /\ \A e \in B, f \in S \ B : At[e] <= At[f]}

\* What ORDER BY occurred_at LIMIT n may return of a set of rows.
Selections(S) ==
  {B \in SUBSET S :
     /\ \A e \in B, f \in S \ B : At[e] <= At[f]
     /\ \/ Cardinality(B) = Batch
        \/ B = S /\ Cardinality(B) < Batch}

\* Mutant: Add inserts outside the unit of work's transaction.
CandidatesUncommitted ==
  (UNION {Emits[c] : c \in {d \in Command : cmd[d] # "new"}} \ published) \cap Unlocked

\* ... WHERE published_at IS NULL ... FOR UPDATE SKIP LOCKED
Candidates == (Visible \ published) \cap Unlocked

Init ==
  /\ cmd = [c \in Command |-> "new"]
  /\ published = {}
  /\ todo = [r \in Relay |-> {}]
  /\ sent = [r \in Relay |-> {}]
  /\ stream = <<>>
  /\ failures = 0

-----------------------------------------------------------------------------
(* Units of work. *)

\* The handler saves its aggregate and adds its events in one transaction.
Add(c) ==
  /\ cmd[c] = "new"
  /\ cmd' = [cmd EXCEPT ![c] = "added"]
  /\ UNCHANGED <<published, todo, sent, stream, failures>>

\* WithinTx commits when the handler succeeds and rolls back when it does not.
End(c) ==
  /\ cmd[c] = "added"
  /\ \E outcome \in {"committed", "rolledback"} : cmd' = [cmd EXCEPT ![c] = outcome]
  /\ UNCHANGED <<published, todo, sent, stream, failures>>

-----------------------------------------------------------------------------
(* One drain of a relay. *)

Idle(r) == Locked(r) = {}

\* A tick finds rows; finding none it ends its transaction again.
Select(r) ==
  /\ Idle(r)
  /\ Candidates # {}
  /\ \E B \in Selections(Candidates) : todo' = [todo EXCEPT ![r] = B]
  /\ UNCHANGED <<cmd, published, sent, stream, failures>>

\* Mutant: the loop does not move on from the row it published.
PublishStays(r) ==
  \E e \in Earliest(todo[r]) :
    /\ stream' = Append(stream, e)
    /\ sent' = [sent EXCEPT ![r] = sent[r] \cup {e}]
    /\ UNCHANGED <<cmd, published, todo, failures>>

Publish(r) ==
  \E e \in Earliest(todo[r]) :
    /\ stream' = Append(stream, e)
    /\ todo' = [todo EXCEPT ![r] = todo[r] \ {e}]
    /\ sent' = [sent EXCEPT ![r] = sent[r] \cup {e}]
    /\ UNCHANGED <<cmd, published, failures>>

\* The deferred Rollback: the locks go, and no row is marked.
Rollback(r) ==
  /\ todo' = [todo EXCEPT ![r] = {}]
  /\ sent' = [sent EXCEPT ![r] = {}]
  /\ UNCHANGED published

\* Mutant: a publish error is logged and the loop goes on to collect the id.
PublishFailsGoesOn(r) ==
  /\ failures < MaxFailures
  /\ \E e \in Earliest(todo[r]) :
       /\ todo' = [todo EXCEPT ![r] = todo[r] \ {e}]
       /\ sent' = [sent EXCEPT ![r] = sent[r] \cup {e}]
  /\ failures' = failures + 1
  /\ UNCHANGED <<cmd, published, stream>>

\* A publish error ends the drain; the broker may have got the entry all the same.
PublishFails(r) ==
  /\ failures < MaxFailures
  /\ \E e \in Earliest(todo[r]) : stream' \in {stream, Append(stream, e)}
  /\ Rollback(r)
  /\ failures' = failures + 1
  /\ UNCHANGED cmd

Mark(r) ==
  /\ published' = published \cup sent[r]
  /\ todo' = [todo EXCEPT ![r] = {}]
  /\ sent' = [sent EXCEPT ![r] = {}]

Commit(r) ==
  /\ todo[r] = {} /\ sent[r] # {}
  /\ Mark(r)
  /\ UNCHANGED <<cmd, stream, failures>>

\* The update or the commit returns an error; the commit may have happened.
CommitFails(r) ==
  /\ failures < MaxFailures
  /\ todo[r] = {} /\ sent[r] # {}
  /\ Rollback(r) \/ Mark(r)
  /\ failures' = failures + 1
  /\ UNCHANGED <<cmd, stream>>

\* The process dies, the database rolls its transaction back, and it is started again.
Crash(r) ==
  /\ failures < MaxFailures
  /\ ~Idle(r)
  /\ Rollback(r)
  /\ failures' = failures + 1
  /\ UNCHANGED <<cmd, stream>>

Drain(r) == Select(r) \/ Publish(r) \/ Commit(r)

Next ==
  \/ \E c \in Command : Add(c) \/ End(c)
  \/ \E r \in Relay :
       \/ Drain(r)
       \/ PublishFails(r)
       \/ CommitFails(r)
       \/ Crash(r)

\* Every relay ticks once a second.  Handlers may hang: units of work owe nothing.
Spec == Init /\ [][Next]_vars /\ \A r \in Relay : WF_vars(Drain(r))

-----------------------------------------------------------------------------
(* Properties. *)

Streamed == {stream[i] : i \in DOMAIN stream}
Copies(e) == {i \in DOMAIN stream : stream[i] = e}

TypeOK ==
  /\ cmd \in [Command -> {"new", "added", "committed", "rolledback"}]
  /\ published \in SUBSET Event
  /\ todo \in [Relay -> SUBSET Event]
  /\ sent \in [Relay -> SUBSET Event]
  /\ \A r \in Relay : todo[r] \cap sent[r] = {}
  /\ stream \in Seq(Event)
  /\ failures \in 0..MaxFailures

\* Nothing is lost: a row is marked published only when the broker has its
\* event, whichever drain failed or crashed halfway.
MarkedWasSent == published \subseteq Streamed

\* relay.go: "Lock unpublished rows so multiple relay instances don't
\* double-publish".  Every copy beyond the first is owed to a failure.
FailureForEachCopy == \A e \in Event : Cardinality(Copies(e)) <= failures + 1

\* As long as only one relay works, whatever it does and fails to do, the events of one
\* unit of work first reach the broker in the order they occurred: an error ends the
\* drain, it does not skip the row.
OnlyWorks(r) == \A q \in Relay \ {r} : Idle(q)
Ordered ==
  \A c \in Command : \A e, f \in Emits[c] :
    At[e] < At[f] /\ f \in Streamed => e \in Streamed
InOrder == \A r \in Relay : []OnlyWorks(r) => []Ordered

\* Every relay is done with the outbox in the end: each visible row is marked.
AllMarked == \A e \in Event : (e \in Visible) ~> (e \in published)

\* The relays implement the event log: only committed events are delivered,
\* and every committed event is.
Log == INSTANCE EventLog WITH emitted <- Visible, delivered <- Streamed
LogSpec == Log!Spec
=============================================================================
