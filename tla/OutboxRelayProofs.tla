------------------------- MODULE OutboxRelayProofs -------------------------
(* Safety of the outbox for any number of units of work, rows and relays.   *)
EXTENDS OutboxRelay, FiniteSetTheorems, TLAPS

-----------------------------------------------------------------------------
(* What a step does to the stream. *)

\* An entry is added to the stream, or none is.
LEMMA AppendStreamed ==
  ASSUME TypeOK, NEW e \in Event, stream' = Append(stream, e)
  PROVE  Streamed' = Streamed \cup {e}
<1>1. stream \in Seq(Event)
  BY DEF TypeOK
<1>2. DOMAIN stream = 1..Len(stream) /\ DOMAIN stream' = 1..(Len(stream) + 1) /\ Len(stream) \in Nat
  BY <1>1
<1>3. \A i \in DOMAIN stream : stream'[i] = stream[i]
  BY <1>1
<1>4. stream'[Len(stream) + 1] = e
  BY <1>1
<1>5. \A i \in DOMAIN stream' : i \in DOMAIN stream \/ i = Len(stream) + 1
  BY <1>2
<1>6. DOMAIN stream \subseteq DOMAIN stream' /\ Len(stream) + 1 \in DOMAIN stream'
  BY <1>2
<1> QED
  BY <1>3, <1>4, <1>5, <1>6 DEF Streamed

\* The copies of an event are finitely many, and grow with its own entries only.
LEMMA AppendCopies ==
  ASSUME TypeOK, NEW e \in Event, stream' = Append(stream, e), NEW f \in Event
  PROVE  /\ Cardinality(Copies(f)) \in Nat
         /\ f # e => Cardinality(Copies(f)') = Cardinality(Copies(f))
         /\ f = e => Cardinality(Copies(f)') = Cardinality(Copies(f)) + 1
<1>1. stream \in Seq(Event)
  BY DEF TypeOK
<1>2. /\ DOMAIN stream = 1..Len(stream)
      /\ DOMAIN stream' = 1..(Len(stream) + 1)
      /\ Len(stream) \in Nat
      /\ Len(stream) + 1 \notin DOMAIN stream
  BY <1>1
<1>3. \A i \in DOMAIN stream : stream'[i] = stream[i]
  BY <1>1
<1>4. stream'[Len(stream) + 1] = e
  BY <1>1
<1>5. DOMAIN stream' = DOMAIN stream \cup {Len(stream) + 1}
  BY <1>2
<1>6. IsFiniteSet(Copies(f))
  <2>1. IsFiniteSet(1..Len(stream))
    BY <1>2, FS_Interval
  <2>2. Copies(f) \subseteq 1..Len(stream)
    BY <1>2 DEF Copies
  <2> QED
    BY <2>1, <2>2, FS_Subset
<1>7. Len(stream) + 1 \notin Copies(f)
  BY <1>2 DEF Copies
<1>8. Cardinality(Copies(f)) \in Nat
  BY <1>6, FS_CardinalityType
<1>9. ASSUME f # e PROVE Copies(f)' = Copies(f)
  BY <1>3, <1>4, <1>5, <1>9 DEF Copies
<1>10. ASSUME f = e PROVE Copies(f)' = Copies(f) \cup {Len(stream) + 1}
  BY <1>3, <1>4, <1>5, <1>10 DEF Copies
<1>11. Cardinality(Copies(f) \cup {Len(stream) + 1}) = Cardinality(Copies(f)) + 1
  BY <1>6, <1>7, FS_AddElement
<1> QED
  BY <1>8, <1>9, <1>10, <1>11

\* The copies of an event are counted by a number.
LEMMA CopiesCounted ==
  ASSUME TypeOK, NEW f \in Event
  PROVE  Cardinality(Copies(f)) \in Nat
<1>1. DOMAIN stream = 1..Len(stream) /\ Len(stream) \in Nat
  BY DEF TypeOK
<1>2. IsFiniteSet(1..Len(stream)) /\ Copies(f) \subseteq 1..Len(stream)
  BY <1>1, FS_Interval DEF Copies
<1> QED
  BY <1>2, FS_Subset, FS_CardinalityType

\* The stream an unchanged stream holds.
LEMMA SameStream ==
  ASSUME stream' = stream, NEW f \in Event
  PROVE  Streamed' = Streamed /\ Copies(f)' = Copies(f)
BY DEF Streamed, Copies

-----------------------------------------------------------------------------
(* Types. *)

\* A failed publish adds one entry, which is one of the relay's rows, or none.
LEMMA TypeStep == TypeOK /\ [Next]_vars => TypeOK'
<1> SUFFICES ASSUME TypeOK, [Next]_vars PROVE TypeOK'
  OBVIOUS
<1> USE OutboxAssumption DEF TypeOK
<1>1. ASSUME NEW c \in Command, Add(c) PROVE TypeOK'
  BY <1>1 DEF Add
<1>2. ASSUME NEW c \in Command, End(c) PROVE TypeOK'
  BY <1>2 DEF End
<1>3. ASSUME NEW r \in Relay, Select(r) PROVE TypeOK'
  <2>1. PICK B \in Selections(Candidates) : todo' = [todo EXCEPT ![r] = B]
    BY <1>3 DEF Select
  <2>2. B \in SUBSET Event
    BY <2>1 DEF Selections, Candidates, Unlocked
  <2> QED
    BY <1>3, <2>1, <2>2 DEF Select, Idle, Locked
<1>4. ASSUME NEW r \in Relay, Publish(r) PROVE TypeOK'
  BY <1>4 DEF Publish, Earliest
<1>5. ASSUME NEW r \in Relay, PublishFails(r) PROVE TypeOK'
  <2>1. PICK e \in Earliest(todo[r]) : stream' \in {stream, Append(stream, e)}
    BY <1>5 DEF PublishFails
  <2>2. e \in Event
    BY DEF Earliest
  <2>3. stream \in Seq(Event) /\ Append(stream, e) \in Seq(Event)
    BY <2>2
  <2>4. stream' \in Seq(Event)
    BY <2>1, <2>3
  <2>5. failures' \in 0..MaxFailures
    BY <1>5 DEF PublishFails
  <2> QED
    BY <1>5, <2>4, <2>5 DEF PublishFails, Rollback
<1>6. ASSUME NEW r \in Relay, Commit(r) PROVE TypeOK'
  BY <1>6 DEF Commit, Mark
<1>7. ASSUME NEW r \in Relay, CommitFails(r) PROVE TypeOK'
  <2>1. failures' \in 0..MaxFailures
    BY <1>7 DEF CommitFails
  <2>2. CASE Rollback(r)
    BY <1>7, <2>1, <2>2 DEF CommitFails, Rollback
  <2>3. CASE Mark(r)
    BY <1>7, <2>1, <2>3 DEF CommitFails, Mark
  <2> QED
    BY <1>7, <2>2, <2>3 DEF CommitFails
<1>8. ASSUME NEW r \in Relay, Crash(r) PROVE TypeOK'
  BY <1>8 DEF Crash, Rollback
<1>9. CASE UNCHANGED vars
  BY <1>9 DEF vars
<1> QED
  BY <1>1, <1>2, <1>3, <1>4, <1>5, <1>6, <1>7, <1>8, <1>9 DEF Next, Drain

\* Every reachable state of the outbox, its relays and the broker has the
\* declared types.
THEOREM OutboxTypes == Spec => []TypeOK
<1>1. Init => TypeOK
  BY OutboxAssumption DEF Init, TypeOK
<1> QED
  BY <1>1, TypeStep, PTL DEF Spec

-----------------------------------------------------------------------------
(* What a step does to the locks and to what other transactions see. *)

\* Committed units of work stay committed.
LEMMA VisibleGrows ==
  ASSUME TypeOK, NEW c \in Command, Add(c) \/ End(c)
  PROVE  Visible \subseteq Visible'
<1>1. \A d \in Command : cmd[d] = "committed" => cmd'[d] = "committed"
  BY DEF TypeOK, Add, End
<1> QED
  BY <1>1 DEF Visible

\* Publishing moves a row within the drain that holds it.
LEMMA PublishKeepsLocks ==
  ASSUME TypeOK, NEW r \in Relay, Publish(r), NEW q \in Relay
  PROVE  Locked(q)' = Locked(q)
<1>1. PICK e \in Earliest(todo[r]) :
        /\ todo' = [todo EXCEPT ![r] = todo[r] \ {e}]
        /\ sent' = [sent EXCEPT ![r] = sent[r] \cup {e}]
  BY DEF Publish
<1>2. e \in todo[r]
  BY DEF Earliest
<1>3. CASE q = r
  BY <1>1, <1>2, <1>3 DEF Locked, TypeOK
<1>4. CASE q # r
  BY <1>1, <1>4 DEF Locked, TypeOK
<1> QED
  BY <1>3, <1>4

\* The end of a drain frees its own locks and no other.
LEMMA EndOfDrain ==
  ASSUME TypeOK, NEW r \in Relay, NEW q \in Relay,
         todo' = [todo EXCEPT ![r] = {}], sent' = [sent EXCEPT ![r] = {}]
  PROVE  /\ Locked(q)' \subseteq Locked(q)
         /\ sent'[q] \subseteq sent[q]
         /\ q = r => Locked(q)' = {} /\ sent'[q] = {}
         /\ q # r => Locked(q)' = Locked(q) /\ sent'[q] = sent[q]
BY DEF Locked, TypeOK

\* A drain's locks, the marks and the stream: what one relay holds no other
\* holds, a row that is marked or sent in an open drain is in the stream, and
\* the stream holds committed events only.
LocksInv ==
  /\ \A r, q \in Relay : r # q => Locked(r) \cap Locked(q) = {}
  /\ \A r \in Relay : Locked(r) \subseteq Visible \ published
  /\ \A r \in Relay : sent[r] \subseteq Streamed
  /\ published \subseteq Streamed
  /\ Streamed \subseteq Visible

\* The end of a drain that leaves the stream and the visible rows alone.
LEMMA LocksEnd ==
  ASSUME TypeOK, LocksInv, NEW r \in Relay, cmd' = cmd,
         Rollback(r) \/ Mark(r),
         Streamed \subseteq Streamed', Streamed' \subseteq Visible
  PROVE  LocksInv'
<1>1. todo' = [todo EXCEPT ![r] = {}] /\ sent' = [sent EXCEPT ![r] = {}]
  BY DEF Rollback, Mark
<1>2. Visible' = Visible
  BY DEF Visible
<1>3. published' \subseteq published \cup sent[r]
  BY DEF Rollback, Mark
<1>4. \A q \in Relay :
        /\ Locked(q)' \subseteq Locked(q)
        /\ sent'[q] \subseteq sent[q]
        /\ q = r => Locked(q)' = {}
  BY <1>1, EndOfDrain
<1>5. \A p, q \in Relay : p # q => Locked(p)' \cap Locked(q)' = {}
  BY <1>4 DEF LocksInv
<1>6. ASSUME NEW q \in Relay PROVE Locked(q)' \subseteq Visible' \ published'
  <2>1. CASE q = r
    BY <1>4, <2>1
  <2>2. CASE q # r
    <3>1. Locked(q) \cap sent[r] = {}
      BY <2>2 DEF LocksInv, Locked
    <3> QED
      BY <1>2, <1>3, <1>4, <3>1 DEF LocksInv
  <2> QED
    BY <2>1, <2>2
<1>7. \A q \in Relay : sent'[q] \subseteq Streamed'
  BY <1>4 DEF LocksInv
<1>8. published' \subseteq Streamed'
  BY <1>3 DEF LocksInv
<1> QED
  BY <1>2, <1>5, <1>6, <1>7, <1>8 DEF LocksInv

\* Each step keeps relays off each other's rows.
LEMMA LocksStep == TypeOK /\ LocksInv /\ [Next]_vars => LocksInv'
<1> SUFFICES ASSUME TypeOK, LocksInv, [Next]_vars PROVE LocksInv'
  OBVIOUS
<1>1. ASSUME NEW c \in Command, Add(c) \/ End(c) PROVE LocksInv'
  <2>1. UNCHANGED <<published, todo, sent, stream>>
    BY <1>1 DEF Add, End
  <2>2. Visible \subseteq Visible'
    BY <1>1, VisibleGrows
  <2> QED
    BY <2>1, <2>2 DEF LocksInv, Locked, Streamed
<1>2. ASSUME NEW r \in Relay, Select(r) PROVE LocksInv'
  <2>1. PICK B \in Selections(Candidates) : todo' = [todo EXCEPT ![r] = B]
    BY <1>2 DEF Select
  <2>2. UNCHANGED <<cmd, published, sent, stream>> /\ sent[r] = {}
    BY <1>2 DEF Select, Idle, Locked
  <2>3. B \subseteq Visible \ published /\ \A q \in Relay : B \cap Locked(q) = {}
    BY <2>1 DEF Selections, Candidates, Unlocked
  <2>4. Locked(r)' = B
    BY <2>1, <2>2 DEF Locked, TypeOK
  <2>5. \A q \in Relay : q # r => Locked(q)' = Locked(q)
    BY <2>1, <2>2 DEF Locked, TypeOK
  <2>6. Visible' = Visible /\ Streamed' = Streamed
    BY <2>2 DEF Visible, Streamed
  <2>7. \A p, q \in Relay : p # q => Locked(p)' \cap Locked(q)' = {}
    BY <2>3, <2>4, <2>5 DEF LocksInv
  <2>8. \A q \in Relay : Locked(q)' \subseteq Visible \ published
    BY <2>3, <2>4, <2>5 DEF LocksInv
  <2> QED
    BY <2>2, <2>6, <2>7, <2>8 DEF LocksInv
<1>3. ASSUME NEW r \in Relay, Publish(r) PROVE LocksInv'
  <2>1. PICK e \in Earliest(todo[r]) :
          /\ stream' = Append(stream, e)
          /\ sent' = [sent EXCEPT ![r] = sent[r] \cup {e}]
          /\ UNCHANGED <<cmd, published>>
    BY <1>3 DEF Publish
  <2>2. e \in todo[r] /\ e \in Event
    BY DEF Earliest, TypeOK
  <2>3. Streamed' = Streamed \cup {e}
    BY <2>1, <2>2, AppendStreamed
  <2>4. \A q \in Relay : Locked(q)' = Locked(q)
    BY <1>3, PublishKeepsLocks
  <2>5. Visible' = Visible
    BY <2>1 DEF Visible
  <2>6. e \in Visible
    BY <2>2 DEF LocksInv, Locked
  <2>7. \A q \in Relay : sent'[q] \subseteq Streamed'
    BY <2>1, <2>3 DEF LocksInv, TypeOK
  <2> QED
    BY <2>1, <2>3, <2>4, <2>5, <2>6, <2>7 DEF LocksInv
<1>4. ASSUME NEW r \in Relay, PublishFails(r) PROVE LocksInv'
  <2>1. PICK e \in Earliest(todo[r]) : stream' \in {stream, Append(stream, e)}
    BY <1>4 DEF PublishFails
  <2>2. e \in todo[r] /\ e \in Event /\ e \in Visible
    BY DEF Earliest, TypeOK, LocksInv, Locked
  <2>3. Streamed \subseteq Streamed' /\ Streamed' \subseteq Streamed \cup {e}
    <3>1. CASE stream' = stream
      BY <3>1 DEF Streamed
    <3>2. CASE stream' = Append(stream, e)
      BY <2>2, <3>2, AppendStreamed
    <3> QED
      BY <2>1, <3>1, <3>2
  <2> QED
    BY <1>4, <2>2, <2>3, LocksEnd DEF PublishFails, LocksInv
<1>5. ASSUME NEW r \in Relay, Commit(r) \/ CommitFails(r) \/ Crash(r) PROVE LocksInv'
  <2>1. UNCHANGED <<cmd, stream>> /\ (Rollback(r) \/ Mark(r))
    BY <1>5 DEF Commit, CommitFails, Crash
  <2>2. Streamed' = Streamed
    BY <2>1 DEF Streamed
  <2> QED
    BY <2>1, <2>2, LocksEnd DEF LocksInv
<1>6. CASE UNCHANGED vars
  BY <1>6 DEF vars, LocksInv, Locked, Visible, Streamed
<1> QED
  BY <1>1, <1>2, <1>3, <1>4, <1>5, <1>6 DEF Next, Drain

-----------------------------------------------------------------------------
(* Copies. *)

\* The copy of an event that needs no failure: the one its mark, or the drain
\* that has just published it, stands for.
Accounted(e) == e \in published \/ \E r \in Relay : e \in sent[r]

\* The other copies are each owed to a failure.
CopiesInv ==
  \A e \in Event :
    /\ Cardinality(Copies(e)) <= failures + 1
    /\ ~Accounted(e) => Cardinality(Copies(e)) <= failures

\* A row a drain has still to publish is neither marked nor sent by an open drain.
LEMMA TodoUnaccounted ==
  ASSUME TypeOK, LocksInv, NEW r \in Relay, NEW e \in todo[r]
  PROVE  ~Accounted(e)
<1>1. e \notin published /\ e \in Locked(r)
  BY DEF LocksInv, Locked
<1>2. \A q \in Relay : q # r => e \notin sent[q]
  BY <1>1 DEF LocksInv, Locked
<1>3. e \notin sent[r]
  BY DEF TypeOK
<1> QED
  BY <1>1, <1>2, <1>3 DEF Accounted

\* Each step accounts for the copies it makes.
LEMMA CopiesStep == TypeOK /\ LocksInv /\ CopiesInv /\ [Next]_vars => CopiesInv'
<1> SUFFICES ASSUME TypeOK, LocksInv, CopiesInv, [Next]_vars, NEW f \in Event
             PROVE  /\ Cardinality(Copies(f)') <= failures' + 1
                    /\ ~Accounted(f)' => Cardinality(Copies(f)') <= failures'
  BY DEF CopiesInv
<1> DEFINE Goal == /\ Cardinality(Copies(f)') <= failures' + 1
                   /\ ~Accounted(f)' => Cardinality(Copies(f)') <= failures'
<1>1. failures \in Nat /\ Cardinality(Copies(f)) \in Nat
  BY CopiesCounted, OutboxAssumption DEF TypeOK
<1>2. /\ Cardinality(Copies(f)) <= failures + 1
      /\ ~Accounted(f) => Cardinality(Copies(f)) <= failures
  BY DEF CopiesInv
<1>3. ASSUME UNCHANGED <<stream, failures>>, Accounted(f) => Accounted(f)' PROVE Goal
  <2>1. Copies(f)' = Copies(f)
    BY <1>3, SameStream
  <2> QED
    BY <1>2, <1>3, <2>1
<1>4. ASSUME NEW c \in Command, Add(c) \/ End(c) PROVE Goal
  <2>1. UNCHANGED <<published, sent, stream, failures>>
    BY <1>4 DEF Add, End
  <2> QED
    BY <1>3, <2>1 DEF Accounted
<1>5. ASSUME NEW r \in Relay, Select(r) PROVE Goal
  <2>1. UNCHANGED <<published, sent, stream, failures>>
    BY <1>5 DEF Select
  <2> QED
    BY <1>3, <2>1 DEF Accounted
<1>6. ASSUME NEW r \in Relay, Commit(r) PROVE Goal
  <2>1. /\ UNCHANGED <<stream, failures>>
        /\ published' = published \cup sent[r]
        /\ \A q \in Relay : q # r => sent'[q] = sent[q]
    BY <1>6 DEF Commit, Mark, TypeOK
  <2>2. Accounted(f) => Accounted(f)'
    BY <2>1 DEF Accounted
  <2> QED
    BY <1>3, <2>1, <2>2
<1>7. ASSUME NEW r \in Relay, Publish(r) PROVE Goal
  <2>1. PICK e \in Earliest(todo[r]) :
          /\ stream' = Append(stream, e)
          /\ sent' = [sent EXCEPT ![r] = sent[r] \cup {e}]
          /\ UNCHANGED <<published, failures>>
    BY <1>7 DEF Publish
  <2>2. e \in todo[r] /\ e \in Event
    BY DEF Earliest, TypeOK
  <2>3. CASE f = e
    <3>1. Cardinality(Copies(f)') = Cardinality(Copies(f)) + 1
      BY <2>1, <2>2, <2>3, AppendCopies
    <3>2. ~Accounted(f)
      BY <2>2, <2>3, TodoUnaccounted
    <3>3. Accounted(f)'
      BY <2>1, <2>3 DEF Accounted, TypeOK
    <3> QED
      BY <1>1, <1>2, <2>1, <3>1, <3>2, <3>3
  <2>4. CASE f # e
    <3>1. Cardinality(Copies(f)') = Cardinality(Copies(f))
      BY <2>1, <2>2, <2>4, AppendCopies
    <3>2. Accounted(f) => Accounted(f)'
      BY <2>1 DEF Accounted, TypeOK
    <3> QED
      BY <1>2, <2>1, <3>1, <3>2
  <2> QED
    BY <2>3, <2>4
<1>8. ASSUME NEW r \in Relay, PublishFails(r) PROVE Goal
  <2>1. PICK e \in Earliest(todo[r]) : stream' \in {stream, Append(stream, e)}
    BY <1>8 DEF PublishFails
  <2>2. e \in todo[r] /\ e \in Event
    BY DEF Earliest, TypeOK
  <2>3. failures' = failures + 1
    BY <1>8 DEF PublishFails
  <2>4. CASE stream' = stream
    BY <1>1, <1>2, <2>3, <2>4, SameStream
  <2>5. CASE stream' = Append(stream, e) /\ f = e
    <3>1. Cardinality(Copies(f)') = Cardinality(Copies(f)) + 1
      BY <2>2, <2>5, AppendCopies
    <3>2. ~Accounted(f)
      BY <2>2, <2>5, TodoUnaccounted
    <3> QED
      BY <1>1, <1>2, <2>3, <3>1, <3>2
  <2>6. CASE stream' = Append(stream, e) /\ f # e
    <3>1. Cardinality(Copies(f)') = Cardinality(Copies(f))
      BY <2>2, <2>6, AppendCopies
    <3> QED
      BY <1>1, <1>2, <2>3, <3>1
  <2> QED
    BY <2>1, <2>4, <2>5, <2>6
<1>9. ASSUME NEW r \in Relay, CommitFails(r) \/ Crash(r) PROVE Goal
  <2>1. stream' = stream /\ failures' = failures + 1
    BY <1>9 DEF CommitFails, Crash
  <2>2. Copies(f)' = Copies(f)
    BY <2>1, SameStream
  <2> QED
    BY <1>1, <1>2, <2>1, <2>2
<1>10. CASE UNCHANGED vars
  <2>1. UNCHANGED <<published, sent, stream, failures>>
    BY <1>10 DEF vars
  <2> QED
    BY <1>3, <2>1 DEF Accounted
<1> QED
  BY <1>4, <1>5, <1>6, <1>7, <1>8, <1>9, <1>10 DEF Next, Drain

-----------------------------------------------------------------------------
(* The theorems. *)

\* The empty outbox satisfies the invariants.
LEMMA InvInit == Init => TypeOK /\ LocksInv /\ CopiesInv
<1> SUFFICES ASSUME Init PROVE TypeOK /\ LocksInv /\ CopiesInv
  OBVIOUS
<1>1. TypeOK
  BY OutboxAssumption DEF Init, TypeOK
<1>2. Streamed = {}
  BY DEF Init, Streamed
<1>3. LocksInv
  BY <1>2 DEF Init, LocksInv, Locked
<1>4. \A e \in Event : Copies(e) = {}
  BY DEF Init, Copies
<1>5. CopiesInv
  <2>1. \A e \in Event : Cardinality(Copies(e)) = 0
    BY <1>4, FS_EmptySet
  <2> QED
    BY <2>1 DEF CopiesInv, Init
<1> QED
  BY <1>1, <1>3, <1>5

\* However drains fail, the invariants of locks and copies hold.
LEMMA OutboxInv == Spec => [](TypeOK /\ LocksInv /\ CopiesInv)
BY InvInit, TypeStep, LocksStep, CopiesStep, PTL DEF Spec

\* A row is marked published only when the broker has its event.
THEOREM NothingLost == Spec => []MarkedWasSent
<1>1. LocksInv => MarkedWasSent
  BY DEF LocksInv, MarkedWasSent
<1> QED
  BY <1>1, OutboxInv, PTL

\* Relays that do not fail never publish an event twice, however many there
\* are; each copy beyond the first takes a failure.
THEOREM CopiesBounded == Spec => []FailureForEachCopy
<1>1. CopiesInv => FailureForEachCopy
  BY DEF CopiesInv, FailureForEachCopy
<1> QED
  BY <1>1, OutboxInv, PTL

-----------------------------------------------------------------------------
(* One relay at work. *)

\* What precedes a row within its unit of work is at least as far as the row is.
OrderInv(r) ==
  \A c \in Command : \A e, f \in Emits[c] : At[e] < At[f] =>
    /\ f \in Streamed => e \in Streamed
    /\ f \in published => e \in published
    /\ f \in Locked(r) => e \in Locked(r) \cup published
    /\ f \in sent[r] => e \in sent[r] \cup published

\* The next row to publish: those before it are in the stream.
LEMMA NextInOrder ==
  ASSUME TypeOK, LocksInv, NEW r \in Relay, OrderInv(r), NEW f \in Earliest(todo[r]),
         NEW c \in Command, f \in Emits[c], NEW e \in Emits[c], At[e] < At[f]
  PROVE  e \in Streamed /\ e \in sent[r] \cup published
<1>1. f \in todo[r] /\ \A g \in todo[r] : At[f] <= At[g]
  BY DEF Earliest
<1>2. e \in Event /\ f \in Event
  BY OutboxAssumption
<1>3. At[e] \in Nat /\ At[f] \in Nat
  BY <1>2, OutboxAssumption
<1>4. e \notin todo[r]
  BY <1>1, <1>3
<1>5. e \in Locked(r) \cup published
  BY <1>1 DEF OrderInv, Locked
<1>6. e \in sent[r] \cup published
  BY <1>4, <1>5 DEF Locked
<1> QED
  BY <1>6 DEF LocksInv

\* The end of the working relay's drain.
LEMMA OrderEnd ==
  ASSUME TypeOK, NEW r \in Relay, OrderInv(r), Rollback(r) \/ Mark(r),
         \A c \in Command : \A e, f \in Emits[c] :
           At[e] < At[f] /\ f \in Streamed' => e \in Streamed'
  PROVE  OrderInv(r)'
<1>1. todo' = [todo EXCEPT ![r] = {}] /\ sent' = [sent EXCEPT ![r] = {}]
  BY DEF Rollback, Mark
<1>2. Locked(r)' = {} /\ sent'[r] = {}
  BY <1>1, EndOfDrain
<1>3. published' = published \/ published' = published \cup sent[r]
  BY DEF Rollback, Mark
<1>4. \A c \in Command : \A e, f \in Emits[c] :
        At[e] < At[f] /\ f \in published' => e \in published'
  BY <1>3 DEF OrderInv
<1> QED
  BY <1>2, <1>4 DEF OrderInv

\* The query of a relay that works alone leaves out no row that precedes one it takes.
LEMMA SelectsInOrder ==
  ASSUME TypeOK, NEW r \in Relay, OnlyWorks(r), Idle(r),
         NEW B \in Selections(Candidates), NEW c \in Command,
         NEW e \in Emits[c], NEW f \in Emits[c], At[e] < At[f], f \in B
  PROVE  e \in B \cup published
<1>1. f \in Candidates /\ \A g \in Candidates \ B : At[f] <= At[g]
  BY DEF Selections
<1>2. PICK d \in Command : cmd[d] = "committed" /\ f \in Emits[d]
  BY <1>1 DEF Candidates, Visible
<1>3. d = c
  BY <1>2, OutboxAssumption
<1>4. e \in Visible
  BY <1>2, <1>3 DEF Visible
<1>5. e \in Event /\ f \in Event
  BY OutboxAssumption
<1>6. e \in Unlocked
  BY <1>5 DEF Unlocked, OnlyWorks, Idle
<1>7. At[e] \in Nat /\ At[f] \in Nat
  BY <1>5, OutboxAssumption
<1>8. ASSUME e \notin published PROVE e \in B
  BY <1>1, <1>4, <1>6, <1>7, <1>8 DEF Candidates
<1> QED
  BY <1>8

\* With one relay at work, no step publishes an event before an earlier one of its unit of work.
LEMMA OrderStep ==
  ASSUME TypeOK, LocksInv, NEW r \in Relay, OnlyWorks(r), OrderInv(r), [Next]_vars
  PROVE  OrderInv(r)'
<1>1. ASSUME NEW c \in Command, Add(c) \/ End(c) PROVE OrderInv(r)'
  <2>1. UNCHANGED <<published, todo, sent, stream>>
    BY <1>1 DEF Add, End
  <2> QED
    BY <2>1 DEF OrderInv, Locked, Streamed
<1>2. ASSUME Select(r) PROVE OrderInv(r)'
  <2>1. PICK B \in Selections(Candidates) : todo' = [todo EXCEPT ![r] = B]
    BY <1>2 DEF Select
  <2>2. UNCHANGED <<published, sent, stream>> /\ Idle(r) /\ sent[r] = {}
    BY <1>2 DEF Select, Idle, Locked
  <2>3. Locked(r)' = B
    BY <2>1, <2>2 DEF Locked, TypeOK
  <2>4. Streamed' = Streamed
    BY <2>2 DEF Streamed
  <2>5. SUFFICES ASSUME NEW c \in Command, NEW e \in Emits[c], NEW f \in Emits[c],
                        At[e] < At[f], f \in B
                 PROVE  e \in B \cup published
    BY <2>2, <2>3, <2>4 DEF OrderInv
  <2> QED
    BY <2>2, <2>5, SelectsInOrder
<1>3. ASSUME Publish(r) PROVE OrderInv(r)'
  <2>1. PICK g \in Earliest(todo[r]) :
          /\ stream' = Append(stream, g)
          /\ sent' = [sent EXCEPT ![r] = sent[r] \cup {g}]
          /\ UNCHANGED published
    BY <1>3 DEF Publish
  <2>2. g \in Event
    BY DEF Earliest, TypeOK
  <2>3. Streamed' = Streamed \cup {g}
    BY <2>1, <2>2, AppendStreamed
  <2>4. Locked(r)' = Locked(r)
    BY <1>3, PublishKeepsLocks
  <2>5. sent'[r] = sent[r] \cup {g}
    BY <2>1 DEF TypeOK
  <2>6. SUFFICES ASSUME NEW c \in Command, NEW e \in Emits[c], NEW f \in Emits[c],
                        At[e] < At[f]
                 PROVE  /\ f \in Streamed' => e \in Streamed'
                        /\ f \in published => e \in published
                        /\ f \in Locked(r) => e \in Locked(r) \cup published
                        /\ f \in sent'[r] => e \in sent'[r] \cup published
    BY <2>1, <2>4 DEF OrderInv
  <2>7. /\ f \in Streamed => e \in Streamed
        /\ f \in published => e \in published
        /\ f \in Locked(r) => e \in Locked(r) \cup published
        /\ f \in sent[r] => e \in sent[r] \cup published
    BY <2>6 DEF OrderInv
  <2>8. f = g => e \in Streamed /\ e \in sent[r] \cup published
    BY <2>6, NextInOrder
  <2> QED
    BY <2>3, <2>5, <2>7, <2>8
<1>4. ASSUME PublishFails(r) PROVE OrderInv(r)'
  <2>1. PICK g \in Earliest(todo[r]) : stream' \in {stream, Append(stream, g)}
    BY <1>4 DEF PublishFails
  <2>2. g \in Event
    BY DEF Earliest, TypeOK
  <2>3. Streamed' = Streamed \/ Streamed' = Streamed \cup {g}
    BY <2>1, <2>2, AppendStreamed DEF Streamed
  <2>4. ASSUME NEW c \in Command, NEW e \in Emits[c], NEW f \in Emits[c],
               At[e] < At[f], f \in Streamed'
        PROVE  e \in Streamed'
    <3>1. f \in Streamed => e \in Streamed
      BY <2>4 DEF OrderInv
    <3>2. f = g => e \in Streamed
      BY <2>4, NextInOrder
    <3> QED
      BY <2>3, <2>4, <3>1, <3>2
  <2> QED
    BY <1>4, <2>4, OrderEnd DEF PublishFails
<1>5. ASSUME Commit(r) \/ CommitFails(r) \/ Crash(r) PROVE OrderInv(r)'
  <2>1. UNCHANGED stream /\ (Rollback(r) \/ Mark(r))
    BY <1>5 DEF Commit, CommitFails, Crash
  <2>2. Streamed' = Streamed
    BY <2>1 DEF Streamed
  <2> QED
    BY <2>1, <2>2, OrderEnd DEF OrderInv
<1>6. ASSUME NEW q \in Relay \ {r},
             Drain(q) \/ PublishFails(q) \/ CommitFails(q) \/ Crash(q)
      PROVE  OrderInv(r)'
  <2>1. todo[q] = {} /\ sent[q] = {} /\ Idle(q)
    BY DEF OnlyWorks, Idle, Locked
  <2>2. Select(q)
    BY <1>6, <2>1 DEF Drain, Publish, PublishFails, Commit, CommitFails, Crash, Earliest
  <2>3. UNCHANGED <<published, sent, stream>> /\ todo'[r] = todo[r]
    BY <2>2 DEF Select, TypeOK
  <2> QED
    BY <2>3 DEF OrderInv, Locked, Streamed
<1>7. CASE UNCHANGED vars
  BY <1>7 DEF vars, OrderInv, Locked, Streamed
<1> QED
  BY <1>1, <1>2, <1>3, <1>4, <1>5, <1>6, <1>7 DEF Next, Drain

\* A relay that works alone delivers the events of a unit of work in the order they
\* occurred, through every failure.
THEOREM OneRelayInOrder == Spec => InOrder
<1> SUFFICES ASSUME NEW CONSTANT r \in Relay
             PROVE  Spec => ([]OnlyWorks(r) => []Ordered)
  BY DEF InOrder
<1>1. Init => OrderInv(r)
  <2> SUFFICES ASSUME Init PROVE OrderInv(r)
    OBVIOUS
  <2>1. Streamed = {}
    BY DEF Init, Streamed
  <2> QED
    BY <2>1 DEF Init, OrderInv, Locked
<1>2. TypeOK /\ LocksInv /\ OnlyWorks(r) /\ OrderInv(r) /\ [Next]_vars => OrderInv(r)'
  BY OrderStep
<1>3. OrderInv(r) => Ordered
  BY DEF OrderInv, Ordered
<1> QED
  BY <1>1, <1>2, <1>3, OutboxInv, PTL DEF Spec

-----------------------------------------------------------------------------
(* The event log. *)

\* An entry that gets into the stream is a delivery.
LEMMA Delivers ==
  ASSUME TypeOK, LocksInv, UNCHANGED cmd, NEW r \in Relay, NEW e \in todo[r],
         stream' = Append(stream, e)
  PROVE  Log!Next
<1>1. e \in Event /\ e \in Visible
  BY DEF TypeOK, LocksInv, Locked
<1>2. Streamed' = Streamed \cup {e} /\ Visible' = Visible
  BY <1>1, AppendStreamed DEF Visible
<1>3. e \in Log!Rows
  BY <1>1 DEF Log!Rows, Visible
<1>4. Log!Deliver(e)
  BY <1>1, <1>2 DEF Log!Deliver
<1> QED
  BY <1>3, <1>4 DEF Log!Next

\* Every step of the outbox is a step of the event log or no step of it.
LEMMA LogStep == TypeOK /\ LocksInv /\ [Next]_vars => [Log!Next]_(Log!vars)
<1> SUFFICES ASSUME TypeOK, LocksInv, [Next]_vars PROVE [Log!Next]_(Log!vars)
  OBVIOUS
<1>1. ASSUME UNCHANGED <<cmd, stream>> PROVE UNCHANGED Log!vars
  BY <1>1 DEF Log!vars, Visible, Streamed
<1>2. ASSUME NEW c \in Command, Add(c) PROVE UNCHANGED Log!vars
  <2>1. \A d \in Command : cmd'[d] = "committed" <=> cmd[d] = "committed"
    BY <1>2 DEF Add, TypeOK
  <2> QED
    BY <1>2, <2>1 DEF Add, Log!vars, Visible, Streamed
<1>3. ASSUME NEW c \in Command, End(c) PROVE [Log!Next]_(Log!vars)
  <2>1. PICK outcome \in {"committed", "rolledback"} :
          cmd' = [cmd EXCEPT ![c] = outcome] /\ cmd[c] = "added" /\ stream' = stream
    BY <1>3 DEF End
  <2>2. Streamed' = Streamed
    BY <2>1 DEF Streamed
  <2>3. CASE outcome = "committed"
    <3>1. \A d \in Command : cmd'[d] = "committed" <=> cmd[d] = "committed" \/ d = c
      BY <2>1, <2>3 DEF TypeOK
    <3>2. Visible' = Visible \cup Emits[c]
      BY <3>1 DEF Visible
    <3>3. Log!Emit(c)
      BY <2>2, <3>2 DEF Log!Emit
    <3> QED
      BY <3>3 DEF Log!Next
  <2>4. CASE outcome = "rolledback"
    <3>1. \A d \in Command : cmd'[d] = "committed" <=> cmd[d] = "committed"
      BY <2>1, <2>4 DEF TypeOK
    <3>2. Visible' = Visible
      BY <3>1 DEF Visible
    <3> QED
      BY <2>2, <3>2 DEF Log!vars
  <2> QED
    BY <2>3, <2>4
<1>4. ASSUME NEW r \in Relay, Publish(r) PROVE Log!Next
  <2>1. PICK e \in Earliest(todo[r]) : stream' = Append(stream, e) /\ UNCHANGED cmd
    BY <1>4 DEF Publish
  <2> QED
    BY <2>1, Delivers DEF Earliest
<1>5. ASSUME NEW r \in Relay, PublishFails(r) PROVE [Log!Next]_(Log!vars)
  <2>1. PICK e \in Earliest(todo[r]) : stream' \in {stream, Append(stream, e)}
    BY <1>5 DEF PublishFails
  <2>2. UNCHANGED cmd
    BY <1>5 DEF PublishFails
  <2>3. CASE stream' = Append(stream, e)
    BY <2>1, <2>2, <2>3, Delivers DEF Earliest
  <2> QED
    BY <1>1, <2>1, <2>2, <2>3
<1>6. ASSUME NEW r \in Relay, Select(r) \/ Commit(r) \/ CommitFails(r) \/ Crash(r)
      PROVE  UNCHANGED Log!vars
  BY <1>1, <1>6 DEF Select, Commit, CommitFails, Crash
<1>7. CASE UNCHANGED vars
  BY <1>1, <1>7 DEF vars
<1> QED
  BY <1>2, <1>3, <1>4, <1>5, <1>6, <1>7 DEF Next, Drain

\* The relays implement the event log's safety: exactly the events of committed
\* units of work are ever delivered, whole units of work at a time.
THEOREM ImplementsLog == Spec => Log!Init /\ [][Log!Next]_(Log!vars)
<1>1. Init => Log!Init
  BY DEF Init, Log!Init, Visible, Streamed
<1> QED
  BY <1>1, LogStep, OutboxInv, PTL DEF Spec
=============================================================================
