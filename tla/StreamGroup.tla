---------------------------- MODULE StreamGroup ----------------------------
(* One Redis stream and the consumer group that serves it.  Three programs  *)
(* run such groups: the Python workers (redis_bus.py), the renderer         *)
(* (redis.ts) and the completion consumer (raw.go).  They share one loop    *)
(* and differ in claiming what others left and in acknowledging errors.     *)
EXTENDS Integers, FiniteSets

CONSTANTS
  Consumer,     \* processes of the group
  Entries,      \* bound: entries ever added to the stream
  Malformed,    \* the entries without a JSON payload
  Program,      \* the programs, see Programs
  MaxFailures   \* bound: handler errors, lost replies and crashes together

\* claims: XAUTOCLAIM before each read; acksErrors: XACK after a handler's
\* error too; batch: COUNT of a read or a claim.
Programs == [claims : BOOLEAN, acksErrors : BOOLEAN, batch : Nat \ {0}]

Entry == 1..Entries

ASSUME GroupAssumption ==
  /\ IsFiniteSet(Consumer)
  /\ Entries \in Nat
  /\ Malformed \subseteq Entry
  /\ Program \subseteq Programs
  /\ \A p \in Program : ~(p.claims /\ p.acksErrors)
  /\ MaxFailures \in Nat

VARIABLES
  program,      \* the program all processes of the group run
  length,       \* entries 1..length are in the stream
  last,         \* the group's last-delivered id
  pending,      \* the group's pending entries list
  idle,         \* those pending for more than 60 s since they were delivered
  acked,        \* entries acknowledged
  raised,       \* pending entries whose handler raised, not taken up since
  next,         \* a process's next call: "claim" or "read"
  mode,         \* "call", or "handle" and "ack" for the first entry in hand
  hand,         \* what is left of the batch a process works through
  cursor,       \* the start id of its next XAUTOCLAIM
  handled,      \* how often an entry's work was done and its result published
  failures
redis == <<length, last, pending, idle, acked, raised>>
process == <<next, mode, hand, cursor>>
vars == <<program, redis, process, handled, failures>>

\* COUNT n entries of S in the order of their ids.
FirstOf(S, n) ==
  {B \in SUBSET S :
     /\ \A e \in B, f \in S \ B : e < f
     /\ Cardinality(B) = n \/ (B = S /\ Cardinality(B) < n)}

Least(S) == {e \in S : \A f \in S : e <= f}

\* The entry a process is at.
Head(c) == Least(hand[c])

\* The call a loop starts with.
FirstCall == IF program.claims THEN "claim" ELSE "read"

Init ==
  /\ program \in Program
  /\ length = 0 /\ last = 0
  /\ pending = {} /\ idle = {} /\ acked = {} /\ raised = {}
  /\ next = [c \in Consumer |-> FirstCall]
  /\ mode = [c \in Consumer |-> "call"]
  /\ hand = [c \in Consumer |-> {}]
  /\ cursor = [c \in Consumer |-> 0]
  /\ handled = [e \in Entry |-> 0]
  /\ failures = 0

-----------------------------------------------------------------------------
(* Around the group. *)

\* The relay or a worker adds an entry.
XAdd ==
  /\ length < Entries
  /\ length' = length + 1
  /\ UNCHANGED <<program, last, pending, idle, acked, raised, process, handled, failures>>

\* Sixty seconds go by, whether or not somebody works on the entry.  Only a
\* claim looks at the time.
Age(e) ==
  /\ program.claims
  /\ e \in pending \ idle
  /\ idle' = idle \cup {e}
  /\ UNCHANGED <<program, length, last, pending, acked, raised, process, handled, failures>>

-----------------------------------------------------------------------------
(* The loop of a process. *)

\* Mutant: the loop over a batch goes on after its last entry.
ProceedPastEnd(c, batch) ==
  /\ hand' = [hand EXCEPT ![c] = batch]
  /\ mode' = [mode EXCEPT ![c] = "handle"]

\* Begin, or go on with, a batch.
Proceed(c, batch) ==
  /\ hand' = [hand EXCEPT ![c] = batch]
  /\ mode' = [mode EXCEPT ![c] = IF batch = {} THEN "call" ELSE "handle"]

\* XAUTOCLAIM: pending entries idle for 60 s, whoever holds them, from the cursor on.
Claimed(c, batch) ==
  /\ mode[c] = "call" /\ next[c] = "claim"
  /\ batch \in FirstOf({e \in idle : e >= cursor[c]}, program.batch)
  /\ idle' = idle \ batch
  /\ next' = [next EXCEPT ![c] = "read"]

\* The id XAUTOCLAIM stopped at, or 0 when it came to the end of the list.
NextCursor(batch) ==
  LET rest == {e \in pending : \A f \in batch : f < e} IN
  IF Cardinality(batch) < program.batch \/ rest = {} THEN {0} ELSE Least(rest)

Claim(c) ==
  /\ \E batch \in SUBSET Entry :
       /\ Claimed(c, batch)
       /\ Proceed(c, batch)
       /\ raised' = raised \ batch
       /\ \E id \in NextCursor(batch) : cursor' = [cursor EXCEPT ![c] = id]
  /\ UNCHANGED <<program, length, last, pending, acked, handled, failures>>

\* The reply to a claim is lost: its entries are young again, in nobody's hand.
ClaimLost(c) ==
  /\ failures < MaxFailures
  /\ \E batch \in SUBSET Entry : Claimed(c, batch)
  /\ failures' = failures + 1
  /\ UNCHANGED <<program, length, last, pending, acked, raised, mode, hand, cursor, handled>>

\* Mutant: only the first call of the loop claims.
DeliveredThenRead(c, m) ==
  /\ mode[c] = "call" /\ next[c] = "read"
  /\ m \in last..length
  /\ m = last + program.batch \/ (m = length /\ m < last + program.batch)
  /\ last' = m
  /\ pending' = pending \cup (last + 1)..m
  /\ UNCHANGED next

\* XREADGROUP ">": the next entries, up to m, become pending.
Delivered(c, m) ==
  /\ mode[c] = "call" /\ next[c] = "read"
  /\ m \in last..length
  /\ m = last + program.batch \/ (m = length /\ m < last + program.batch)
  /\ last' = m
  /\ pending' = pending \cup (last + 1)..m
  /\ next' = [next EXCEPT ![c] = FirstCall]

Read(c) ==
  /\ \E m \in last..length : Delivered(c, m) /\ Proceed(c, (last + 1)..m)
  /\ UNCHANGED <<program, length, idle, acked, raised, cursor, handled, failures>>

\* The reply to a read is lost: its entries are pending, and in nobody's hand.
ReadLost(c) ==
  /\ failures < MaxFailures
  /\ last < length
  /\ \E m \in last..length : Delivered(c, m)
  /\ failures' = failures + 1
  /\ UNCHANGED <<program, length, idle, acked, raised, mode, hand, cursor, handled>>

\* The handler returns; the last thing it does is publish or commit its result.
Handle(c) ==
  /\ mode[c] = "handle"
  /\ \E e \in Head(c) :
       handled' = IF e \in Malformed THEN handled ELSE [handled EXCEPT ![e] = handled[e] + 1]
  /\ mode' = [mode EXCEPT ![c] = "ack"]
  /\ UNCHANGED <<program, redis, next, hand, cursor, failures>>

\* Mutant: every program acknowledges errors.
HandleFailsAcked(c) ==
  /\ failures < MaxFailures
  /\ mode[c] = "handle"
  /\ \E e \in Head(c) \ Malformed :
       handled' \in {handled, [handled EXCEPT ![e] = handled[e] + 1]}
  /\ mode' = [mode EXCEPT ![c] = "ack"]
  /\ failures' = failures + 1
  /\ UNCHANGED <<program, redis, next, hand, cursor>>

\* Mutant: a handler that raised is called again.
HandleFailsAgain(c) ==
  /\ failures < MaxFailures
  /\ mode[c] = "handle"
  /\ \E e \in Head(c) \ Malformed :
       handled' \in {handled, [handled EXCEPT ![e] = handled[e] + 1]}
  /\ failures' = failures + 1
  /\ UNCHANGED <<program, redis, process>>

\* The handler raises, and its result may be out all the same.
HandleFails(c) ==
  /\ failures < MaxFailures
  /\ mode[c] = "handle"
  /\ \E e \in Head(c) \ Malformed :
       /\ handled' \in {handled, [handled EXCEPT ![e] = handled[e] + 1]}
       /\ \/ /\ program.acksErrors
             /\ mode' = [mode EXCEPT ![c] = "ack"]
             /\ UNCHANGED <<hand, raised>>
          \/ /\ ~program.acksErrors
             /\ Proceed(c, hand[c] \ {e})
             /\ raised' = IF e \in pending THEN raised \cup {e} ELSE raised
  /\ failures' = failures + 1
  /\ UNCHANGED <<program, length, last, pending, idle, acked, next, cursor>>

\* XACK takes an entry off the list, whichever process it was delivered to.
XAck(e) ==
  /\ pending' = pending \ {e}
  /\ idle' = idle \ {e}
  /\ acked' = acked \cup {e}
  /\ raised' = raised \ {e}
  /\ UNCHANGED <<length, last>>

\* Mutant: the entry is not acknowledged after success.
AckForgotten(c) ==
  /\ mode[c] = "ack"
  /\ \E e \in Head(c) : Proceed(c, hand[c] \ {e})
  /\ UNCHANGED <<program, redis, next, cursor, handled, failures>>

Ack(c) ==
  /\ mode[c] = "ack"
  /\ \E e \in Head(c) : XAck(e) /\ Proceed(c, hand[c] \ {e})
  /\ UNCHANGED <<program, next, cursor, handled, failures>>

\* What an XACK error leaves of the batch.  A Python worker drops it: while
\* claiming it logs the error, otherwise the error ends the process.  So does
\* the renderer at a malformed entry; else it goes on with the next, as the
\* completion consumer always does.
AfterAckError(c, e) ==
  IF program.claims \/ (~program.acksErrors /\ e \in Malformed)
  THEN {} ELSE hand[c] \ {e}

\* XACK returns an error, and may have been done.
AckFails(c) ==
  /\ failures < MaxFailures
  /\ mode[c] = "ack"
  /\ \E e \in Head(c) :
       /\ XAck(e) \/ UNCHANGED redis
       /\ Proceed(c, AfterAckError(c, e))
  /\ cursor' = [cursor EXCEPT ![c] = IF next[c] = "claim" THEN 0 ELSE cursor[c]]
  /\ failures' = failures + 1
  /\ UNCHANGED <<program, next, handled>>

\* The process dies with its batch and is started again.
Crash(c) ==
  /\ failures < MaxFailures
  /\ Proceed(c, {})
  /\ next' = [next EXCEPT ![c] = FirstCall]
  /\ cursor' = [cursor EXCEPT ![c] = 0]
  /\ failures' = failures + 1
  /\ UNCHANGED <<program, redis, handled>>

Loop(c) == Claim(c) \/ Read(c) \/ Handle(c) \/ Ack(c)

Next ==
  \/ XAdd
  \/ \E e \in Entry : Age(e)
  \/ \E c \in Consumer :
       \/ Loop(c)
       \/ ClaimLost(c)
       \/ ReadLost(c)
       \/ HandleFails(c)
       \/ AckFails(c)
       \/ Crash(c)

\* Processes run, handlers return or raise, and time passes.
Fairness ==
  /\ \A c \in Consumer : WF_vars(Loop(c))
  /\ \A e \in Entry : WF_vars(Age(e))

Spec == Init /\ [][Next]_vars /\ Fairness

-----------------------------------------------------------------------------
(* Properties. *)

TypeOK ==
  /\ program \in Program
  /\ length \in 0..Entries
  /\ last \in 0..length
  /\ pending \in SUBSET (1..last)
  /\ idle \in SUBSET pending
  /\ acked \in SUBSET (1..last)
  /\ raised \in SUBSET pending
  /\ next \in [Consumer -> {"claim", "read"}]
  /\ mode \in [Consumer -> {"call", "handle", "ack"}]
  /\ hand \in [Consumer -> SUBSET (1..last)]
  /\ \A c \in Consumer : mode[c] = "call" <=> hand[c] = {}
  /\ cursor \in [Consumer -> 0..Entries]
  /\ handled \in [Entry -> Nat]
  /\ failures \in 0..MaxFailures

\* Workers and renderer acknowledge an entry only when its result is out.
AckedIsHandled ==
  ~program.acksErrors => \A e \in acked \ Malformed : handled[e] > 0

\* Claiming repeats work, for live but slow owners too; each process still does
\* an entry's work at most once, and once more for a failure.
WorkBounded == \A e \in Entry : handled[e] <= Cardinality(Consumer) + failures

\* Without claiming, an entry's work is never done twice, whatever fails.
OnceWithoutClaims ==
  ~program.claims => \A e \in Entry : handled[e] <= 1

\* Every entry is acknowledged in the end: by the Python workers after any
\* failures, by the others as long as nothing fails.
Served ==
  \A e \in Entry :
    (e <= length) ~> (e \in acked \/ (~program.claims /\ failures > 0))

\* redis.ts: "leave un-ACKed for retry".  An entry whose handler raised is
\* taken up again.
RaisedIsRetried == \A e \in Entry : (e \in raised) ~> (e \notin raised)

\* web-api/README.md: "Consumers are at-least-once".
AtLeastOnce == \A e \in acked \ Malformed : handled[e] > 0
=============================================================================
